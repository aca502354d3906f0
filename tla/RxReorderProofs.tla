-------------------------- MODULE RxReorderProofs --------------------------
(***************************************************************************)
(* Theorems about the receive reordering window, for every window size,    *)
(* stream and number of session changes.                                   *)
(***************************************************************************)
EXTENDS RxReorder, TLAPS

LEMMA SeqNumsAre == \A x : x \in SeqNums <=> x \in Int /\ 0 <= x /\ x <= 4095
<1>1. LastSeqNum \in Int /\ SeqNums = 0..LastSeqNum
  BY DEF SeqNums, LastSeqNum
<1>2. \A x : x \in SeqNums <=> x \in Int /\ 0 <= x /\ x <= LastSeqNum
  BY <1>1
<1> QED BY <1>2 DEF LastSeqNum

LEMMA Modulus == ASSUME NEW x \in Int PROVE x % 4096 \in SeqNums
BY SeqNumsAre

LEMMA SnType == ASSUME NEW n \in Frames PROVE Sn(n) \in SeqNums
BY StreamAssumption, Modulus DEF Sn, Frames

LEMMA FramesAreInt == Frames \subseteq Int /\ Frames \subseteq Nat
BY StreamAssumption DEF Frames

\* What InsertAt does to a sequence, element by element.
LEMMA InsertAtProperties ==
    ASSUME NEW S, NEW q \in Seq(S), NEW e \in S, NEW i \in 1 .. Len(q) + 1
    PROVE  /\ InsertAt(q, i, e) \in Seq(S)
           /\ Len(InsertAt(q, i, e)) = Len(q) + 1
           /\ \A k \in 1 .. Len(q) + 1 :
                InsertAt(q, i, e)[k] = IF k < i THEN q[k] ELSE IF k = i THEN e ELSE q[k - 1]
<1> DEFINE front == SubSeq(q, 1, i - 1)
           back  == SubSeq(q, i, Len(q))
           fe    == front \o <<e>>
<1>1. /\ front \in Seq(S) /\ Len(front) = i - 1
      /\ \A k \in 1 .. i - 1 : front[k] = q[k]
  OBVIOUS
<1>2. /\ back \in Seq(S) /\ Len(back) = Len(q) + 1 - i
      /\ \A k \in 1 .. Len(q) + 1 - i : back[k] = q[k + i - 1]
  OBVIOUS
<1>3. InsertAt(q, i, e) = fe \o back
  BY DEF InsertAt
<1>4. /\ fe \in Seq(S) /\ Len(fe) = i
      /\ \A k \in 1 .. i : fe[k] = IF k < i THEN q[k] ELSE e
  BY <1>1
<1> HIDE DEF fe, front, back
<1>5. /\ fe \o back \in Seq(S) /\ Len(fe \o back) = Len(q) + 1
      /\ \A k \in 1 .. Len(q) + 1 :
           (fe \o back)[k] = IF k <= i THEN fe[k] ELSE back[k - i]
  BY <1>2, <1>4
<1> QED BY <1>2, <1>3, <1>4, <1>5

-----------------------------------------------------------------------------
(* Type correctness, one group of variables after the other.               *)

LEMMA InitType == Init => TypeOK
<1> SUFFICES ASSUME Init PROVE TypeOK
  OBVIOUS
<1>1. PcOK /\ FrameHeld
  BY DEF Init, PcOK, FrameHeld, Threads, Places
<1>2. FlagsOK
  BY BoundsAssumption DEF Init, FlagsOK
<1>3. SeqOK /\ QueueOK /\ LocalOK
  BY SeqNumsAre DEF Init, SeqOK, QueueOK, LocalOK, Unset
<1>4. PeerOK
  BY BoundsAssumption, StreamAssumption DEF Init, PeerOK, Exchanges
<1> QED BY <1>1, <1>2, <1>3, <1>4 DEF TypeOK

LEMMA FrameType ==
    ASSUME TypeOK, NEW t \in Indicators, frame[t] # NoFrame
    PROVE  frame[t] \in Frames /\ Sn(frame[t]) \in SeqNums
<1>1. frame \in [Indicators -> Frames \cup {NoFrame}]
  BY DEF TypeOK, LocalOK
<1>2. frame[t] \in Frames
  BY <1>1
<1> QED BY <1>2, SnType

LEMMA RxSnType ==
    ASSUME TypeOK, pc["rx"] \in {"enable", "lock", "init", "drop", "slide", "insert", "up",
                                 "direct", "process"}
    PROVE  frame["rx"] \in Frames /\ rxSn \in SeqNums
<1>1. "rx" \in Indicators
  BY DEF Indicators
<1>2. frame["rx"] # NoFrame
  BY DEF TypeOK, FrameHeld
<1> QED BY <1>1, <1>2, FrameType DEF rxSn

\* What the numbers can be, without the rest of TypeOK.
LEMMA NumberTypes ==
    ASSUME TypeOK
    PROVE  /\ indicate_seq \in SeqNums \cup {Unset}
           /\ wend \in SeqNums /\ rxseq \in SeqNums \cup {Unset}
           /\ winO \in Nat
           /\ pending \in Seq(Frames) /\ out \in Seq(Frames)
BY DEF TypeOK, SeqOK, LocalOK, PeerOK, QueueOK

LEMMA PcStep == ASSUME TypeOK, [Next]_vars PROVE PcOK'
BY DEF Next, RxStep, RxLocked, TimerStep, CmdStep, FreeStep, InOrderStep, Indicators,
       vars, Arrive, TestEnable, RxLock, InitWindow, DropOld, SlideWindow,
       InsertSorted, TakeHead, IndicateHead, EndLoop, RxFinish, RxCancelTimer,
       DirectSet, DirectProcess, DirectAdvance, TimerFires, TimerEntry, TimerLock,
       TimerForce, TimerFinish, AddbaIssueRsp, AddbaAck, AddbaReset, AddbaEnable,
       AddbaReject, DelbaReceived, DelbaSent, PeerHearsDelba, BarReceived,
       PeerAdvances, FreeUnhash, FreeCancelTimer, FreeLock, FreeDrain, Stop, TypeOK,
       PcOK, Goto, Places, Acquire, Release, Threads

\* Which steps write the Boolean variables.
flags == <<enable, bReorderWaiting, timer, stopped, agreed>>
FlagsWrites ==
    \/ RxFinish \/ RxCancelTimer \/ TimerFires \/ TimerLock \/ TimerForce \/ TimerFinish
    \/ AddbaAck \/ AddbaEnable \/ AddbaReject \/ DelbaReceived \/ DelbaSent \/ PeerHearsDelba
    \/ FreeCancelTimer \/ Stop

LEMMA FlagsFrame == ASSUME [Next]_vars PROVE FlagsWrites \/ UNCHANGED flags
BY DEF Next, RxStep, RxLocked, TimerStep, CmdStep, FreeStep, InOrderStep, Indicators,
       vars, Arrive, TestEnable, RxLock, InitWindow, DropOld, SlideWindow,
       InsertSorted, TakeHead, IndicateHead, EndLoop, DirectSet, DirectProcess,
       DirectAdvance, TimerEntry, AddbaIssueRsp, AddbaReset, BarReceived,
       PeerAdvances, FreeUnhash, FreeLock, FreeDrain, FlagsWrites, flags, ctrl, peer

LEMMA FlagsStep == ASSUME FlagsOK, [Next]_vars PROVE FlagsOK'
<1>1. CASE RxFinish
  BY <1>1 DEF FlagsOK, RxFinish, ctrl, peer
<1>2. CASE RxCancelTimer
  BY <1>2 DEF FlagsOK, RxCancelTimer, ctrl, peer
<1>3. CASE TimerFires
  BY <1>3 DEF FlagsOK, TimerFires, ctrl, peer
<1>4. CASE TimerLock
  BY <1>4 DEF FlagsOK, TimerLock, ctrl, peer
<1>5. CASE TimerForce
  BY <1>5 DEF FlagsOK, TimerForce, ctrl, peer
<1>6. CASE TimerFinish
  BY <1>6 DEF FlagsOK, TimerFinish, ctrl, peer
<1>7. CASE AddbaAck
  BY <1>7 DEF FlagsOK, AddbaAck, ctrl, peer
<1>8. CASE AddbaEnable
  BY <1>8 DEF FlagsOK, AddbaEnable, ctrl, peer
<1>9. CASE AddbaReject
  BY <1>9 DEF FlagsOK, AddbaReject, ctrl, peer
<1>10. CASE DelbaReceived
  BY <1>10 DEF FlagsOK, DelbaReceived, ctrl, peer
<1>11. CASE DelbaSent
  BY <1>11 DEF FlagsOK, DelbaSent, ctrl, peer
<1>12. CASE PeerHearsDelba
  BY <1>12 DEF FlagsOK, PeerHearsDelba, ctrl, peer
<1>13. CASE FreeCancelTimer
  BY <1>13 DEF FlagsOK, FreeCancelTimer, ctrl, peer
<1>14. CASE Stop
  BY <1>14 DEF FlagsOK, Stop, ctrl, peer
<1>15. CASE UNCHANGED flags
  BY <1>15 DEF FlagsOK, flags
<1> QED BY <1>1, <1>2, <1>3, <1>4, <1>5, <1>6, <1>7, <1>8, <1>9, <1>10, <1>11, <1>12,
       <1>13, <1>14, <1>15, FlagsFrame DEF FlagsWrites

\* Which steps write indicate_seq.
SeqWrites ==
    \/ InitWindow \/ SlideWindow \/ (\E t \in Indicators : IndicateHead(t))
    \/ DirectSet \/ DirectAdvance \/ TimerForce \/ AddbaReset \/ AddbaReject \/ BarReceived

LEMMA SeqFrame == ASSUME [Next]_vars PROVE SeqWrites \/ UNCHANGED indicate_seq
BY DEF Next, RxStep, RxLocked, TimerStep, CmdStep, FreeStep, InOrderStep, Indicators,
       vars, Arrive, TestEnable, RxLock, DropOld, InsertSorted, TakeHead,
       IndicateHead, EndLoop, RxFinish, RxCancelTimer, DirectProcess, TimerFires,
       TimerEntry, TimerLock, TimerFinish, AddbaIssueRsp, AddbaAck, AddbaEnable,
       DelbaReceived, DelbaSent, PeerHearsDelba, PeerAdvances, FreeUnhash,
       FreeCancelTimer, FreeLock, FreeDrain, Stop, SeqWrites, ctrl, peer

LEMMA SeqStep == ASSUME TypeOK, [Next]_vars PROVE SeqOK'
<1>0. indicate_seq \in SeqNums \cup {Unset} /\ indicate_seq \in Int
  BY NumberTypes, SeqNumsAre DEF Unset
<1>a. (indicate_seq + 1) % 4096 \in SeqNums
  <2>1. indicate_seq + 1 \in Int
    BY <1>0
  <2> QED BY <2>1, Modulus
<1>b. SUFFICES indicate_seq' \in SeqNums \/ indicate_seq' = 65535 \/ indicate_seq' = indicate_seq
  BY <1>0 DEF SeqOK, Unset
<1>1. CASE InitWindow
  <2>1. rxSn \in SeqNums
    BY <1>1, RxSnType DEF InitWindow, Goto, At
  <2> QED BY <1>1, <2>1 DEF InitWindow
<1>2. CASE SlideWindow
  <2>1. rxSn \in SeqNums
    BY <1>2, RxSnType DEF SlideWindow, Goto, At
  <2> DEFINE start == IF rxSn >= WSize - 1 THEN rxSn + 1 - WSize
                                           ELSE 4095 - (WSize - (rxSn + 1)) + 1
  <2>2. start \in SeqNums
    BY <2>1, WSizeAssumption, SeqNumsAre
  <2>3. indicate_seq' \in {(indicate_seq + 1) % 4096, start, indicate_seq}
    BY <1>2 DEF SlideWindow
  <2> HIDE DEF start
  <2> QED BY <1>a, <2>2, <2>3
<1>3. ASSUME NEW t \in Indicators, IndicateHead(t)
      PROVE  indicate_seq' \in SeqNums \/ indicate_seq' = indicate_seq
  BY <1>3, <1>a DEF IndicateHead
<1>4. CASE DirectSet
  <2>1. rxSn \in SeqNums
    BY <1>4, RxSnType DEF DirectSet, Goto, At
  <2> QED BY <1>4, <2>1 DEF DirectSet
<1>5. CASE DirectAdvance
  BY <1>5, <1>a DEF DirectAdvance
<1>6. CASE TimerForce
  <2>1. CASE pending = <<>>
    BY <1>6, <2>1 DEF TimerForce
  <2>2. CASE pending # <<>>
    <3>1. Head(pending) \in Frames
      BY <2>2, NumberTypes
    <3>2. indicate_seq' = Sn(Head(pending))
      BY <1>6, <2>2 DEF TimerForce
    <3> QED BY <3>1, <3>2, SnType
  <2> QED BY <2>1, <2>2
<1>7. CASE AddbaReset \/ AddbaReject
  BY <1>7 DEF AddbaReset, AddbaReject, RacingStore, Unset
<1>8. CASE BarReceived
  <2>1. Sn(winO) \in SeqNums
    BY NumberTypes, Modulus DEF Sn
  <2>2. indicate_seq' = indicate_seq \/ indicate_seq' = Sn(winO)
    BY <1>8 DEF BarReceived, RacingStore
  <2> QED BY <2>1, <2>2
<1> QED BY <1>1, <1>2, <1>3, <1>4, <1>5, <1>6, <1>7, <1>8, SeqFrame DEF SeqWrites

\* Which steps write the queue or indicate a frame.
QueueWrites ==
    InsertSorted \/ (\E t \in Indicators : TakeHead(t) \/ IndicateHead(t))
      \/ DirectProcess \/ FreeDrain

LEMMA QueueFrame == ASSUME [Next]_vars PROVE QueueWrites \/ UNCHANGED <<pending, out>>
BY DEF Next, RxStep, RxLocked, TimerStep, CmdStep, FreeStep, InOrderStep, Indicators,
       vars, Arrive, TestEnable, RxLock, InitWindow, DropOld, SlideWindow, TakeHead,
       IndicateHead, EndLoop, RxFinish, RxCancelTimer, DirectSet, DirectAdvance,
       TimerFires, TimerEntry, TimerLock, TimerForce, TimerFinish, AddbaIssueRsp,
       AddbaAck, AddbaReset, AddbaEnable, AddbaReject, DelbaReceived, DelbaSent,
       PeerHearsDelba, BarReceived, PeerAdvances, FreeUnhash, FreeCancelTimer,
       FreeLock, Stop, QueueWrites

LEMMA QueueStep == ASSUME TypeOK, [Next]_vars PROVE QueueOK'
<1>0. pending \in Seq(Frames) /\ out \in Seq(Frames)
  BY NumberTypes
<1>1. CASE InsertSorted
  <2>1. frame["rx"] \in Frames
    BY <1>1, RxSnType DEF InsertSorted, Goto, At
  <2>2. \A i \in 1 .. Len(pending) + 1 : InsertAt(pending, i, frame["rx"]) \in Seq(Frames)
    BY <1>0, <2>1, InsertAtProperties
  <2>3. pending' \in Seq(Frames) /\ out' = out
    BY <1>0, <1>1, <2>2 DEF InsertSorted
  <2> QED BY <1>0, <2>3 DEF QueueOK
<1>2. ASSUME NEW t \in Indicators, TakeHead(t) PROVE QueueOK'
  BY <1>0, <1>2 DEF TakeHead, QueueOK
<1>3. ASSUME NEW t \in Indicators, IndicateHead(t) PROVE QueueOK'
  <2>1. frame[t] # NoFrame
    BY <1>3 DEF IndicateHead, TypeOK, FrameHeld, Goto, At, Indicators
  <2>2. frame[t] \in Frames
    BY <2>1, FrameType
  <2> QED BY <1>0, <1>3, <2>2 DEF IndicateHead, QueueOK
<1>4. CASE DirectProcess
  <2>1. frame["rx"] \in Frames
    BY <1>4, RxSnType DEF DirectProcess, Goto, At
  <2> QED BY <1>0, <1>4, <2>1 DEF DirectProcess, QueueOK
<1>5. CASE FreeDrain
  BY <1>0, <1>5 DEF FreeDrain, QueueOK
<1>6. CASE UNCHANGED <<pending, out>>
  BY <1>0, <1>6 DEF QueueOK
<1> QED BY <1>1, <1>2, <1>3, <1>4, <1>5, <1>6, QueueFrame DEF QueueWrites

\* The locals: wend and rxseq have one writer or two, frame several.
LEMMA ScalarStep ==
    ASSUME TypeOK, [Next]_vars PROVE wend' \in SeqNums /\ rxseq' \in SeqNums \cup {Unset}
<1> DEFINE ScalarOK == wend \in SeqNums /\ rxseq \in SeqNums \cup {Unset}
<1>1. ASSUME NEW n \in Frames, Arrive(n) PROVE ScalarOK'
  <2>1. wend' = wend /\ rxseq' = Sn(n)
    BY <1>1 DEF Arrive
  <2>2. wend \in SeqNums
    BY DEF TypeOK, LocalOK
  <2> QED BY <2>1, <2>2, SnType
<1>2. ASSUME InitWindow PROVE ScalarOK'
  <2>1. indicate_seq + WSize - 1 \in Int
    BY NumberTypes, SeqNumsAre, WSizeAssumption DEF Unset
  <2>2. wend' \in SeqNums
    BY <1>2, <2>1, Modulus DEF InitWindow
  <2> QED BY <1>2, <2>2, NumberTypes DEF InitWindow
<1>3. ASSUME UNCHANGED rxseq /\ wend' \in {wend, 0} PROVE ScalarOK'
  <2>1. 0 \in SeqNums
    BY SeqNumsAre
  <2> QED BY <1>3, <2>1, NumberTypes
<1>4. (\E n \in Frames : Arrive(n)) \/ InitWindow \/ (UNCHANGED rxseq /\ wend' \in {wend, 0})
  BY DEF Next, RxStep, RxLocked, TimerStep, CmdStep, FreeStep, InOrderStep, Indicators,
         vars, TestEnable, RxLock, DropOld, SlideWindow, InsertSorted, TakeHead,
         IndicateHead, EndLoop, RxFinish, RxCancelTimer, DirectSet, DirectProcess,
         DirectAdvance, TimerFires, TimerEntry, TimerLock, TimerForce, TimerFinish,
         AddbaIssueRsp, AddbaAck, AddbaReset, AddbaEnable, AddbaReject, DelbaReceived,
         DelbaSent, PeerHearsDelba, BarReceived, PeerAdvances, FreeUnhash,
         FreeCancelTimer, FreeLock, FreeDrain, Stop
<1> HIDE DEF ScalarOK
<1>5. ScalarOK'
  BY <1>1, <1>2, <1>3, <1>4
<1> QED BY <1>5 DEF ScalarOK

LEMMA FrameStep ==
    ASSUME TypeOK, [Next]_vars
    PROVE  frame' \in [Indicators -> Frames \cup {NoFrame}] /\ FrameHeld'
<1> USE DEF TypeOK, LocalOK, FrameHeld, PcOK, Goto, At, Threads, Indicators, NoFrame
<1>1. ASSUME NEW n \in Frames, Arrive(n)
      PROVE  frame' \in [Indicators -> Frames \cup {NoFrame}] /\ FrameHeld'
  BY <1>1, FramesAreInt DEF Arrive
<1>2. ASSUME NEW t \in Indicators, TakeHead(t)
      PROVE  frame' \in [Indicators -> Frames \cup {NoFrame}] /\ FrameHeld'
  <2>1. Head(pending) \in Frames /\ Head(pending) # NoFrame
    BY <1>2, FramesAreInt DEF TakeHead, QueueOK
  <2> QED BY <1>2, <2>1 DEF TakeHead
<1>3. ASSUME ~(\E n \in Frames : Arrive(n)), ~(\E t \in Indicators : TakeHead(t))
      PROVE  frame' \in [Indicators -> Frames \cup {NoFrame}] /\ FrameHeld'
  <2>1. frame' \in [Indicators -> Frames \cup {NoFrame}]
    BY <1>3 DEF Next, RxStep, RxLocked, TimerStep, CmdStep, FreeStep, InOrderStep, Indicators,
           vars, TestEnable, RxLock, InitWindow, DropOld, SlideWindow, InsertSorted,
           IndicateHead, EndLoop, RxFinish, RxCancelTimer, DirectSet, DirectProcess,
           DirectAdvance, TimerFires, TimerEntry, TimerLock, TimerForce, TimerFinish,
           AddbaIssueRsp, AddbaAck, AddbaReset, AddbaEnable, AddbaReject, DelbaReceived,
           DelbaSent, PeerHearsDelba, BarReceived, PeerAdvances, FreeUnhash,
           FreeCancelTimer, FreeLock, FreeDrain, Stop, Drops
  <2>2. FrameHeld'
    BY <1>3 DEF Next, RxStep, RxLocked, TimerStep, CmdStep, FreeStep, InOrderStep, Indicators,
           vars, TestEnable, RxLock, InitWindow, DropOld, SlideWindow, InsertSorted,
           IndicateHead, EndLoop, RxFinish, RxCancelTimer, DirectSet, DirectProcess,
           DirectAdvance, TimerFires, TimerEntry, TimerLock, TimerForce, TimerFinish,
           AddbaIssueRsp, AddbaAck, AddbaReset, AddbaEnable, AddbaReject, DelbaReceived,
           DelbaSent, PeerHearsDelba, BarReceived, PeerAdvances, FreeUnhash,
           FreeCancelTimer, FreeLock, FreeDrain, Stop, Drops
  <2> QED BY <2>1, <2>2
<1> QED BY <1>1, <1>2, <1>3

LEMMA PeerStep == ASSUME TypeOK, [Next]_vars PROVE PeerOK'
<1>1. UNCHANGED left \/ \E k \in Exchanges : Spend(k)
  BY DEF Next, RxStep, RxLocked, TimerStep, CmdStep, FreeStep, InOrderStep, Indicators,
         vars, Arrive, TestEnable, RxLock, InitWindow, DropOld, SlideWindow,
         InsertSorted, TakeHead, IndicateHead, EndLoop, RxFinish, RxCancelTimer,
         DirectSet, DirectProcess, DirectAdvance, TimerFires, TimerEntry, TimerLock,
         TimerForce, TimerFinish, AddbaIssueRsp, AddbaAck, AddbaReset, AddbaEnable,
         AddbaReject, DelbaReceived, DelbaSent, PeerHearsDelba, BarReceived,
         PeerAdvances, FreeUnhash, FreeCancelTimer, FreeLock, FreeDrain, Stop, peer,
         Exchanges
<1>2. winO' \in {winO, winO + 1}
  BY DEF Next, RxStep, RxLocked, TimerStep, CmdStep, FreeStep, InOrderStep, Indicators,
         vars, Arrive, TestEnable, RxLock, InitWindow, DropOld, SlideWindow,
         InsertSorted, TakeHead, IndicateHead, EndLoop, RxFinish, RxCancelTimer,
         DirectSet, DirectProcess, DirectAdvance, TimerFires, TimerEntry, TimerLock,
         TimerForce, TimerFinish, AddbaIssueRsp, AddbaAck, AddbaReset, AddbaEnable,
         AddbaReject, DelbaReceived, DelbaSent, PeerHearsDelba, BarReceived,
         PeerAdvances, FreeUnhash, FreeCancelTimer, FreeLock, FreeDrain, Stop, peer
<1>3. ASSUME NEW k \in Exchanges, Spend(k) PROVE left' \in [Exchanges -> Nat]
  BY <1>3 DEF Spend, TypeOK, PeerOK
<1> QED BY <1>1, <1>2, <1>3 DEF TypeOK, PeerOK

\* Every variable stays in its type, whatever the window size, the stream and
\* the session changes; a thread that dereferences a frame holds one.
THEOREM TypeCorrect == Spec => []TypeOK
<1>1. TypeOK /\ [Next]_vars => TypeOK'
  BY PcStep, FlagsStep, SeqStep, QueueStep, ScalarStep, FrameStep, PeerStep
     DEF TypeOK, LocalOK
<1> QED BY InitType, <1>1, PTL DEF Spec

-----------------------------------------------------------------------------
(* The order of the queue.                                                 *)

\* Two different 12-bit numbers are comparable: the insertion loop stops in
\* front of a frame that is serially later than the new one.
LEMMA SerialTotal ==
    ASSUME NEW m \in Frames, NEW n \in Frames, Sn(m) # Sn(n), ~SN_LESS(Sn(m), Sn(n))
    PROVE  SN_LESS(Sn(n), Sn(m))
BY FramesAreInt DEF SN_LESS, Sn

LEMMA SortedStep == ASSUME TypeOK, QueueSorted, [Next]_vars PROVE QueueSorted'
<1>1. CASE InsertSorted
  <2> DEFINE f == frame["rx"]
  <2>1. f \in Frames /\ pending \in Seq(Frames)
    BY <1>1, RxSnType DEF InsertSorted, Goto, At, TypeOK, QueueOK
  <2>2. CASE UNCHANGED pending
    BY <2>2 DEF QueueSorted
  <2>3. CASE ~UNCHANGED pending
    <3>1. PICK i \in 1 .. Len(pending) + 1 :
            InsertionPoint(i, Sn(f)) /\ ~IsDuplicate(i, Sn(f)) /\ pending' = InsertAt(pending, i, f)
      BY <1>1, <2>3 DEF InsertSorted, rxSn
    <3> HIDE DEF f
    <3>2. /\ Len(pending') = Len(pending) + 1
          /\ \A k \in 1 .. Len(pending) + 1 :
               pending'[k] = IF k < i THEN pending[k] ELSE IF k = i THEN f ELSE pending[k - 1]
      BY <2>1, <3>1, InsertAtProperties
    <3>3. i > 1 => SN_LESS(Sn(pending[i - 1]), Sn(f))
      BY <3>1 DEF InsertionPoint
    <3>4. i <= Len(pending) => SN_LESS(Sn(f), Sn(pending[i]))
      <4>1. SUFFICES ASSUME i <= Len(pending) PROVE SN_LESS(Sn(f), Sn(pending[i]))
        OBVIOUS
      <4>2. ~SN_LESS(Sn(pending[i]), Sn(f)) /\ Sn(pending[i]) # Sn(f)
        BY <3>1, <4>1 DEF InsertionPoint, IsDuplicate
      <4>3. pending[i] \in Frames
        BY <2>1, <4>1
      <4> QED BY <2>1, <4>2, <4>3, SerialTotal
    <3>5. ASSUME NEW k \in 1 .. Len(pending) PROVE SN_LESS(Sn(pending'[k]), Sn(pending'[k + 1]))
      <4>1. CASE k + 1 < i
        BY <2>1, <3>2, <4>1 DEF QueueSorted
      <4>2. CASE k + 1 = i
        BY <2>1, <3>2, <3>3, <4>2
      <4>3. CASE k = i
        BY <2>1, <3>2, <3>4, <4>3
      <4>4. CASE k > i
        <5>1. pending'[k] = pending[k - 1] /\ pending'[k + 1] = pending[k]
          BY <2>1, <3>2, <4>4
        <5>2. k - 1 \in 1 .. Len(pending) - 1 /\ (k - 1) + 1 = k
          BY <2>1, <4>4
        <5> QED BY <5>1, <5>2 DEF QueueSorted
      <4> QED BY <2>1, <4>1, <4>2, <4>3, <4>4
    <3> QED BY <2>1, <3>2, <3>5 DEF QueueSorted
  <2> QED BY <2>2, <2>3
<1>2. ASSUME NEW t \in Indicators, TakeHead(t) PROVE QueueSorted'
  <2>1. pending \in Seq(Frames) /\ pending # <<>> /\ pending' = Tail(pending)
    BY <1>2 DEF TakeHead, TypeOK, QueueOK
  <2> QED BY <2>1 DEF QueueSorted
<1>3. CASE FreeDrain
  BY <1>3 DEF FreeDrain, QueueSorted
<1>4. CASE UNCHANGED pending
  BY <1>4 DEF QueueSorted
<1>5. (\E t \in Indicators : IndicateHead(t)) \/ DirectProcess => UNCHANGED pending
  BY DEF IndicateHead, DirectProcess
<1> QED BY <1>1, <1>2, <1>3, <1>4, <1>5, QueueFrame DEF QueueWrites

\* The queue stays sorted and free of duplicates although indicate_seq is
\* written under it without the lock, for every window size and stream.
THEOREM QueueAlwaysSorted == Spec => []QueueSorted
<1>1. Init => QueueSorted
  BY DEF Init, QueueSorted
<1>2. TypeOK /\ QueueSorted /\ [Next]_vars => QueueSorted'
  BY SortedStep
<1> QED BY <1>1, <1>2, TypeCorrect, PTL DEF Spec

-----------------------------------------------------------------------------
(* Nothing is stranded in the queue.                                       *)

\* The queue's lock is held exactly by the thread that is between taking and
\* releasing it.
MutualExclusion ==
    /\ pc["rx"] \in {"init", "drop", "slide", "insert", "loop", "up", "done"} => lock = "rx"
    /\ pc["timer"] \in {"force", "loop", "up", "done"} => lock = "timer"
    /\ pc["free"] = "drain" => lock = "free"

\* While the driver runs and the station is there: bReorderWaiting is set only
\* with a timer armed or a handler that has yet to clear it, and frames wait
\* only with a timer armed, a handler under way, or the receive thread before
\* its own arming.
TimerInv ==
    ~stopped /\ pc["free"] = "idle" =>
      /\ bReorderWaiting => timer \/ pc["timer"] \in {"entry", "lock"}
      /\ pc["rx"] = "cancel" => ~bReorderWaiting /\ pending = <<>>
      /\ pending # <<>> => \/ timer \/ pc["timer"] # "idle"
                           \/ pc["rx"] \in {"loop", "up", "done"}

LEMMA LockStep == ASSUME TypeOK, MutualExclusion, [Next]_vars PROVE MutualExclusion'
BY DEF Next, RxStep, RxLocked, TimerStep, CmdStep, FreeStep, InOrderStep, Indicators,
       vars, Arrive, TestEnable, RxLock, InitWindow, DropOld, SlideWindow,
       InsertSorted, TakeHead, IndicateHead, EndLoop, RxFinish, RxCancelTimer,
       DirectSet, DirectProcess, DirectAdvance, TimerFires, TimerEntry, TimerLock,
       TimerForce, TimerFinish, AddbaIssueRsp, AddbaAck, AddbaReset, AddbaEnable,
       AddbaReject, DelbaReceived, DelbaSent, PeerHearsDelba, BarReceived,
       PeerAdvances, FreeUnhash, FreeCancelTimer, FreeLock, FreeDrain, Stop, TypeOK,
       PcOK, MutualExclusion, Goto, At, Acquire, Release, Threads

\* The steps that concern the timer, the flag, the queue or their threads.
LEMMA TimerStepInv == ASSUME TypeOK, TimerInv, [Next]_vars PROVE TimerInv'
<1> USE DEF TypeOK, PcOK, Goto, At, Threads, TimerInv
<1>1. CASE RxFinish
  BY <1>1 DEF RxFinish, ctrl, peer
<1>2. CASE RxCancelTimer
  BY <1>2 DEF RxCancelTimer, ctrl, peer
<1>3. CASE TimerFires
  BY <1>3 DEF TimerFires, ctrl, peer
<1>4. CASE TimerLock
  BY <1>4 DEF TimerLock, ctrl, peer
<1>5. CASE TimerForce
  BY <1>5 DEF TimerForce, ctrl, peer
<1>6. CASE TimerFinish
  BY <1>6 DEF TimerFinish, ctrl, peer
<1>7. CASE TimerEntry
  BY <1>7 DEF TimerEntry, ctrl, peer
<1>8. CASE InsertSorted
  BY <1>8 DEF InsertSorted, ctrl, peer
<1>9. CASE FreeCancelTimer
  BY <1>9 DEF FreeCancelTimer, ctrl, peer
<1>10. CASE FreeDrain
  BY <1>10 DEF FreeDrain, ctrl, peer
<1>11. CASE FreeUnhash
  BY <1>11 DEF FreeUnhash, ctrl, peer
<1>12. CASE Stop
  BY <1>12 DEF Stop, ctrl, peer
<1>13. ASSUME NEW t \in Indicators, TakeHead(t) PROVE TimerInv'
  BY <1>13 DEF TakeHead, ctrl, Indicators
<1>14. ASSUME NEW t \in Indicators, IndicateHead(t) \/ EndLoop(t) PROVE TimerInv'
  BY <1>14 DEF IndicateHead, EndLoop, ctrl, Indicators
<1>15. ASSUME ~(RxFinish \/ RxCancelTimer \/ TimerFires \/ TimerLock \/ TimerForce
                \/ TimerFinish \/ TimerEntry \/ InsertSorted \/ FreeCancelTimer \/ FreeDrain
                \/ FreeUnhash \/ Stop),
             ~(\E t \in Indicators : TakeHead(t) \/ IndicateHead(t) \/ EndLoop(t))
      PROVE  TimerInv'
  BY <1>15 DEF Next, RxStep, RxLocked, TimerStep, CmdStep, FreeStep, InOrderStep,
         Indicators, vars, Arrive, TestEnable, RxLock, InitWindow, DropOld, SlideWindow,
         DirectSet, DirectProcess, DirectAdvance, AddbaIssueRsp, AddbaAck, AddbaReset,
         AddbaEnable, AddbaReject, DelbaReceived, DelbaSent, PeerHearsDelba,
         BarReceived, PeerAdvances, FreeLock, ctrl, peer
<1> QED BY <1>1, <1>2, <1>3, <1>4, <1>5, <1>6, <1>7, <1>8, <1>9, <1>10, <1>11, <1>12,
       <1>13, <1>14, <1>15

\* bReorderWaiting never suppresses the arming of a timer that is needed: a
\* queued frame always has a timer, a handler or the lock holder behind it.
THEOREM NoFrameStranded == Spec => []PendingHasTimer
<1>1. Init => MutualExclusion /\ TimerInv
  BY DEF Init, MutualExclusion, TimerInv, Threads
<1>2. TypeOK /\ MutualExclusion /\ TimerInv /\ [Next]_vars => MutualExclusion' /\ TimerInv'
  BY LockStep, TimerStepInv
<1>3. MutualExclusion /\ TimerInv => PendingHasTimer
  BY DEF MutualExclusion, TimerInv, PendingHasTimer, HandlerRuns, At
<1> QED BY <1>1, <1>2, <1>3, TypeCorrect, PTL DEF Spec
=============================================================================
