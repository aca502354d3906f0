-------------------------- MODULE RxSessionProofs --------------------------
(***************************************************************************)
(* The receive reordering window with a session established: it delivers   *)
(* in order, whether or not the driver is stopped or the station removed,  *)
(* and while the station is there each step is a step of ReorderBuffer or  *)
(* none, for every window size and every stream, as long as no frame comes *)
(* from half the 12-bit number space beyond the last one indicated.        *)
(***************************************************************************)
EXTENDS RxReorderProofs

\* One session from the start, and no exchange that tears it down, sets it up
\* again or moves its window.  The driver may stop and the station may be freed.
Session == Established /\ MaxAddba = 0 /\ MaxDelba = 0 /\ MaxBar = 0

Newest == out[Len(out)]

\* SN_LESS can tell the frame that is being received from what was indicated.
InReach == out # <<>> => frame["rx"] - Newest < 2048

-----------------------------------------------------------------------------
(* 12-bit serial numbers of frames that are close.                         *)

LEMMA SerialOrder ==
    ASSUME NEW a \in Int, NEW b \in Int, -2048 <= a - b, a - b <= 2047
    PROVE  /\ SN_LESS(a % 4096, b % 4096) <=> a < b
           /\ (a % 4096) = (b % 4096) <=> a = b
BY DEF SN_LESS

LEMMA SerialSum ==
    ASSUME NEW a \in Int, NEW w \in Nat
    PROVE  ((a % 4096) + w) % 4096 = (a + w) % 4096
OBVIOUS

LEMMA SerialNext ==
    ASSUME NEW a \in Int PROVE ((a % 4096) + 1) % 4096 = (a + 1) % 4096
OBVIOUS

\* The two branches of check_indicate_seq for the new start of the window.
LEMMA SerialSlide ==
    ASSUME NEW n \in Int
    PROVE  (IF (n % 4096) >= WSize - 1 THEN (n % 4096) + 1 - WSize
                                       ELSE 4095 - (WSize - ((n % 4096) + 1)) + 1)
             = (n + 1 - WSize) % 4096
BY WSizeAssumption

-----------------------------------------------------------------------------
(* The inductive invariant.                                                *)

\* rx and the timer are on the reordering path, and only the removal of the
\* station can come between them.
Quiet ==
    /\ enable /\ pc["cmd"] = "idle" /\ (CanFree \/ pc["free"] = "idle")
    /\ left = [k \in Exchanges |-> 0]
    /\ pc["rx"] \notin {"direct", "process", "advance"}

Sorted == \A i, j \in 1 .. Len(pending) : i < j => pending[i] < pending[j]
Grown  == \A i, j \in 1 .. Len(out) : i < j => out[i] < out[j]

\* Where rx holds a frame that has not been compared with the window yet.
Early == pc["rx"] \in {"enable", "lock", "init", "drop"}

\* x was sent within the originator's window, as it is and as it was when the
\* frame in rx's hands was sent.
Sent(x) == x < winO + WSize /\ (Early => x < frame["rx"] + WSize)

\* x can still be delivered in order, and SN_LESS sees that.
Ahead(x) == out # <<>> => Newest < x /\ x < Newest + 2048

Buffered ==
    /\ \A i \in 1 .. Len(pending) : Sent(pending[i]) /\ Ahead(pending[i])
    /\ \A t \in Indicators : pc[t] = "up" =>
         /\ Sent(frame[t]) /\ Ahead(frame[t])
         /\ \A i \in 1 .. Len(pending) : frame[t] < pending[i]
    /\ Early \/ pc["rx"] \in {"slide", "insert"} => frame["rx"] < winO + WSize
    /\ pc["rx"] = "insert" => Ahead(frame["rx"])

\* The first frame of the session, from its arrival to its indication.
Fresh ==
    out = <<>> =>
      /\ ~timer /\ pc["timer"] = "idle"
      /\ \/ /\ pc["rx"] \in {"idle", "enable", "lock", "init"}
            /\ pending = <<>> /\ indicate_seq = Unset
         \/ /\ pc["rx"] \in {"drop", "slide"}
            /\ pending = <<>> /\ indicate_seq = Sn(frame["rx"])
         \/ /\ pc["rx"] \in {"insert", "up"}
            /\ pending = <<>> /\ indicate_seq = Sn(frame["rx"] + 1)
         \/ /\ pc["rx"] = "loop"
            /\ Len(pending) = 1 /\ indicate_seq = Sn(pending[1] + 1)

\* I is the start of the window in the originator's stream.
StartsAt(I) ==
    /\ indicate_seq = (I % 4096)
    /\ Newest < I /\ I <= Newest + 2048
    /\ I <= winO + WSize /\ (Early => I <= frame["rx"] + WSize)
    /\ pc["rx"] \in {"drop", "slide"} => wend = (I + WSize - 1) % 4096
    /\ pc["rx"] = "slide" => I <= frame["rx"]
    /\ \A t \in Indicators : pc[t] = "up" => frame[t] <= I

Window == out # <<>> => \E I \in Int : StartsAt(I)

SInv == Quiet /\ Sorted /\ Grown /\ Buffered /\ Fresh /\ Window

-----------------------------------------------------------------------------
(* One lemma per part of the invariant.                                    *)

\* What a step can be while the session lasts, by what it changes.
Moves == \/ TestEnable \/ RxLock \/ RxFinish \/ RxCancelTimer \/ TimerFires \/ TimerEntry
         \/ TimerLock \/ TimerFinish \/ (\E t \in Indicators : EndLoop(t))
         \/ FreeUnhash \/ FreeCancelTimer \/ FreeLock \/ Stop

LEMMA SessionSteps ==
    ASSUME Session, TypeOK, Quiet, [Next]_vars
    PROVE  \/ UNCHANGED vars \/ Moves \/ PeerAdvances \/ (\E n \in Frames : Arrive(n))
           \/ InitWindow \/ DropOld \/ SlideWindow \/ InsertSorted \/ TimerForce
           \/ (\E t \in Indicators : TakeHead(t) \/ IndicateHead(t))
           \/ FreeDrain
<1>1. \A k \in Exchanges : ~Spend(k)
  BY DEF Spend, Quiet
<1>2. /\ pc["cmd"] = "idle"
      /\ pc["rx"] \notin {"direct", "process", "advance"}
  BY DEF Quiet
<1>3. ~CmdStep /\ ~DirectSet /\ ~DirectProcess /\ ~DirectAdvance
  BY <1>2 DEF CmdStep, DirectSet, DirectProcess, DirectAdvance, AddbaAck, AddbaReset,
              AddbaEnable, AddbaReject, Goto, At
<1>5. /\ ~PeerHearsDelba /\ ~DelbaReceived /\ ~DelbaSent /\ ~BarReceived
      /\ \A accept \in BOOLEAN : ~AddbaIssueRsp(accept)
  BY <1>1 DEF Quiet, PeerHearsDelba, DelbaReceived, DelbaSent, BarReceived, AddbaIssueRsp,
              Exchanges
<1> QED
  BY <1>3, <1>5
     DEF Moves, Next, RxStep, RxLocked, TimerStep, InOrderStep, Indicators, FreeStep

LEMMA QuietStep == ASSUME Session, TypeOK, Quiet, [Next]_vars PROVE Quiet'
<1>1. enable' = enable /\ left' = left
  <2> USE DEF ctrl, peer
  <2>1. CASE UNCHANGED vars \/ PeerAdvances
    BY <2>1 DEF vars, PeerAdvances
  <2>2. CASE Moves
    BY <2>2 DEF Moves, TestEnable, RxLock, RxFinish, RxCancelTimer, TimerFires,
                TimerEntry, TimerLock, TimerFinish, EndLoop, FreeUnhash, FreeCancelTimer,
                FreeLock, Stop
  <2>3. CASE (\E n \in Frames : Arrive(n)) \/ InitWindow \/ DropOld \/ SlideWindow
               \/ InsertSorted \/ TimerForce \/ FreeDrain
    BY <2>3 DEF Arrive, InitWindow, DropOld, SlideWindow, InsertSorted, TimerForce, FreeDrain
  <2>4. CASE \E t \in Indicators : TakeHead(t) \/ IndicateHead(t)
    BY <2>4 DEF TakeHead, IndicateHead
  <2> QED
    BY <2>1, <2>2, <2>3, <2>4, SessionSteps
<1>2. /\ UNCHANGED pc["cmd"] /\ (CanFree \/ UNCHANGED pc["free"])
      /\ pc'["rx"] \notin {"direct", "process", "advance"}
  <2> USE DEF Quiet, Goto, At, TypeOK, PcOK, Threads, Indicators
  <2>1. CASE UNCHANGED vars \/ PeerAdvances
    BY <2>1 DEF vars, PeerAdvances
  <2>2. CASE TestEnable \/ RxLock \/ RxFinish \/ RxCancelTimer \/ TimerFires \/ TimerEntry
               \/ TimerLock \/ TimerFinish \/ \E t \in Indicators : EndLoop(t)
    BY <2>2 DEF TestEnable, RxLock, RxFinish, RxCancelTimer, TimerFires, TimerEntry,
                TimerLock, TimerFinish, EndLoop
  <2>10. CASE FreeUnhash \/ FreeCancelTimer \/ FreeLock \/ FreeDrain \/ Stop
    BY <2>10 DEF FreeUnhash, FreeCancelTimer, FreeLock, FreeDrain, Stop
  <2>3. CASE \E n \in Frames : Arrive(n)
    BY <2>3 DEF Arrive
  <2>7. CASE InitWindow
    BY <2>7 DEF InitWindow
  <2>9. CASE SlideWindow
    BY <2>9 DEF SlideWindow
  <2>8. CASE TimerForce
    BY <2>8 DEF TimerForce
  <2>5. CASE DropOld
    BY <2>5 DEF DropOld
  <2>6. CASE InsertSorted
    BY <2>6 DEF InsertSorted
  <2>4. CASE \E t \in Indicators : TakeHead(t) \/ IndicateHead(t)
    BY <2>4 DEF TakeHead, IndicateHead
  <2> QED
    BY <2>1, <2>2, <2>3, <2>4, <2>5, <2>6, <2>7, <2>8, <2>9, <2>10, SessionSteps DEF Moves
<1> QED
  BY <1>1, <1>2 DEF Quiet

\* Sequences, element by element.
LEMMA AppendElements ==
    ASSUME NEW S, NEW q \in Seq(S), NEW e \in S
    PROVE  /\ Append(q, e) \in Seq(S) /\ Len(Append(q, e)) = Len(q) + 1
           /\ Append(q, e)[Len(q) + 1] = e
           /\ \A i \in 1 .. Len(q) : Append(q, e)[i] = q[i]
OBVIOUS

LEMMA TailElements ==
    ASSUME NEW S, NEW q \in Seq(S), q # <<>>
    PROVE  /\ Head(q) = q[1] /\ Len(q) \in Nat /\ Len(q) >= 1 /\ q[1] \in S
           /\ Tail(q) \in Seq(S) /\ Len(Tail(q)) = Len(q) - 1
           /\ \A i \in 1 .. Len(q) - 1 : Tail(q)[i] = q[i + 1] /\ q[i + 1] \in S
OBVIOUS

LEMMA OneElement ==
    ASSUME NEW S, NEW q \in Seq(S), Len(q) = 1
    PROVE  q # <<>> /\ Head(q) = q[1] /\ Tail(q) = <<>>
<1>1. \A r \in Seq(S) : Len(r) = 0 => r = <<>>
  OBVIOUS
<1>2. Tail(q) \in Seq(S) /\ Len(Tail(q)) = 0 /\ Head(q) = q[1]
  OBVIOUS
<1>3. q # <<>>
  OBVIOUS
<1>4. Tail(q) = <<>>
  BY <1>1, <1>2
<1> QED
  BY <1>2, <1>3, <1>4

LEMMA SessionTypes ==
    ASSUME TypeOK
    PROVE  /\ pending \in Seq(Frames) /\ out \in Seq(Frames)
           /\ Len(pending) \in Nat /\ Len(out) \in Nat
           /\ \A i \in 1 .. Len(pending) : pending[i] \in Int
           /\ \A i \in 1 .. Len(out) : out[i] \in Int
           /\ out # <<>> => Newest \in Int /\ Newest \in Frames
           /\ winO \in Int /\ WSize \in Int /\ WSize >= 1 /\ WSize <= 2048
           /\ frame["rx"] \in Int /\ frame["timer"] \in Int
           /\ indicate_seq \in Int /\ wend \in Int
<1>1. pending \in Seq(Frames) /\ out \in Seq(Frames)
  BY DEF TypeOK, QueueOK
<1>2. /\ \A i \in 1 .. Len(pending) : pending[i] \in Int
      /\ \A i \in 1 .. Len(out) : out[i] \in Int
  <2>1. /\ \A i \in 1 .. Len(pending) : pending[i] \in Frames
        /\ \A i \in 1 .. Len(out) : out[i] \in Frames
    BY <1>1
  <2> QED
    BY <2>1, FramesAreInt
<1>3. out # <<>> => Newest \in Frames
  BY <1>1 DEF Newest
<1>4. winO \in Int /\ WSize \in Int /\ WSize >= 1 /\ WSize <= 2048
  BY WSizeAssumption DEF TypeOK, PeerOK
<1>5. frame["rx"] \in Int /\ frame["timer"] \in Int
  <2>1. frame["rx"] \in Frames \cup {-1} /\ frame["timer"] \in Frames \cup {-1}
    BY DEF TypeOK, LocalOK, Indicators, NoFrame
  <2> QED
    BY <2>1, StreamAssumption DEF Frames
<1>6. indicate_seq \in Int /\ wend \in Int
  BY NumberTypes, SeqNumsAre DEF Unset
<1>7. Len(pending) \in Nat /\ Len(out) \in Nat
  BY <1>1
<1>8. out # <<>> => Newest \in Int
  BY <1>3, FramesAreInt
<1> QED
  BY <1>1, <1>2, <1>3, <1>4, <1>5, <1>6, <1>7, <1>8

\* Serial and stream order agree on what is compared with the frame in rx's hands.
LEMMA InsertAhead ==
    ASSUME TypeOK, InReach, Buffered, Fresh, pc["rx"] = "insert",
           NEW i \in 1 .. Len(pending)
    PROVE  /\ SN_LESS(Sn(pending[i]), rxSn) <=> pending[i] < frame["rx"]
           /\ Sn(pending[i]) = rxSn <=> pending[i] = frame["rx"]
<1>1. out # <<>>
  BY SessionTypes DEF Fresh
<1>2. /\ Newest < pending[i] /\ pending[i] < Newest + 2048
      /\ Newest < frame["rx"] /\ frame["rx"] < Newest + 2048
  BY <1>1 DEF Buffered, Ahead
<1>3. pending[i] \in Int /\ frame["rx"] \in Int /\ Newest \in Int
  BY <1>1, SessionTypes
<1> HIDE DEF Newest
<1>4. -2048 <= pending[i] - frame["rx"] /\ pending[i] - frame["rx"] <= 2047
  BY <1>2, <1>3
<1> QED
  BY <1>3, <1>4, SerialOrder DEF rxSn, Sn

\* What InsertSorted does to the queue, in terms of the stream.
Inserted(i) ==
    /\ i \in 1 .. Len(pending) + 1
    /\ \A j \in 1 .. Len(pending) :
         (j < i => pending[j] < frame["rx"]) /\ (j >= i => frame["rx"] < pending[j])
    /\ Len(pending') = Len(pending) + 1
    /\ \A k \in 1 .. Len(pending) + 1 :
         pending'[k] = IF k < i THEN pending[k]
                       ELSE IF k = i THEN frame["rx"] ELSE pending[k - 1]
    /\ pc' = [pc EXCEPT !["rx"] = "loop"]

LEMMA Insertion ==
    ASSUME TypeOK, InReach, Sorted, Buffered, Fresh, InsertSorted
    PROVE  (UNCHANGED pending /\ pending # <<>> /\ pc' = [pc EXCEPT !["rx"] = "idle"])
             \/ \E i \in 1 .. Len(pending) + 1 : Inserted(i)
<1>1. pc["rx"] = "insert" /\ frame["rx"] \in Frames
  BY RxSnType DEF InsertSorted, Goto, At
<1>2. PICK i \in 1 .. Len(pending) + 1 :
        /\ InsertionPoint(i, rxSn)
        /\ IF IsDuplicate(i, rxSn)
           THEN Goto("rx", "insert", "idle") /\ Release /\ UNCHANGED pending
           ELSE Goto("rx", "insert", "loop") /\ UNCHANGED lock
                /\ pending' = InsertAt(pending, i, frame["rx"])
  BY DEF InsertSorted
<1>3. CASE IsDuplicate(i, rxSn)
  BY <1>2, <1>3, SessionTypes DEF IsDuplicate, Goto
<1>4. CASE ~IsDuplicate(i, rxSn)
  <2>1. pending' = InsertAt(pending, i, frame["rx"]) /\ pc' = [pc EXCEPT !["rx"] = "loop"]
    BY <1>2, <1>4 DEF Goto
  <2>2. \A j \in 1 .. Len(pending) : j < i => pending[j] < frame["rx"]
    BY <1>1, <1>2, InsertAhead, SessionTypes DEF InsertionPoint
  <2>3. i <= Len(pending) => frame["rx"] < pending[i]
    <3>1. SUFFICES ASSUME i <= Len(pending) PROVE frame["rx"] < pending[i]
      OBVIOUS
    <3>2. i \in 1 .. Len(pending)
      BY <3>1, SessionTypes
    <3>3. ~(pending[i] < frame["rx"]) /\ pending[i] # frame["rx"]
      BY <1>1, <1>2, <1>4, <3>1, <3>2, InsertAhead DEF InsertionPoint, IsDuplicate
    <3> QED
      BY <3>2, <3>3, SessionTypes
  <2>4. \A j \in 1 .. Len(pending) : j >= i => frame["rx"] < pending[j]
    <3> SUFFICES ASSUME NEW j \in 1 .. Len(pending), j >= i PROVE frame["rx"] < pending[j]
      OBVIOUS
    <3>1. i \in 1 .. Len(pending) /\ frame["rx"] < pending[i]
      BY <2>3, SessionTypes
    <3>2. pending[i] \in Int /\ pending[j] \in Int /\ frame["rx"] \in Int
      BY <3>1, SessionTypes
    <3>3. pending[i] <= pending[j]
      <4>1. \A a, b \in 1 .. Len(pending) : a < b => pending[a] < pending[b]
        BY DEF Sorted
      <4>2. CASE i = j
        BY <4>2, <3>2
      <4>3. CASE i < j
        BY <4>1, <4>3, <3>1, <3>2
      <4> QED
        BY <4>2, <4>3, <3>1
    <3> QED
      BY <3>1, <3>2, <3>3
  <2>5. /\ Len(pending') = Len(pending) + 1
        /\ \A k \in 1 .. Len(pending) + 1 :
             pending'[k] = IF k < i THEN pending[k]
                           ELSE IF k = i THEN frame["rx"] ELSE pending[k - 1]
    <3>1. pending \in Seq(Frames)
      BY SessionTypes
    <3>2. /\ Len(InsertAt(pending, i, frame["rx"])) = Len(pending) + 1
          /\ \A k \in 1 .. Len(pending) + 1 :
               InsertAt(pending, i, frame["rx"])[k]
                 = IF k < i THEN pending[k] ELSE IF k = i THEN frame["rx"] ELSE pending[k - 1]
      BY <1>1, <1>2, <3>1, InsertAtProperties
    <3> QED
      BY <2>1, <3>2
  <2> QED
    BY <2>1, <2>2, <2>4, <2>5 DEF Inserted
<1> QED
  BY <1>3, <1>4

LEMMA SortedGrows ==
    ASSUME Session, TypeOK, InReach, SInv, [Next]_vars PROVE Sorted'
<1>1. CASE InsertSorted
  <2>1. CASE UNCHANGED pending
    BY <2>1 DEF SInv, Sorted
  <2>2. ASSUME NEW i \in 1 .. Len(pending) + 1, Inserted(i) PROVE Sorted'
    <3> SUFFICES ASSUME NEW a \in 1 .. Len(pending) + 1, NEW b \in 1 .. Len(pending) + 1,
                        a < b
                 PROVE  pending'[a] < pending'[b]
      BY <2>2, SessionTypes DEF Inserted, Sorted
    <3>1. /\ a < i => a \in 1 .. Len(pending) /\ pending'[a] = pending[a]
          /\ b < i => b \in 1 .. Len(pending) /\ pending'[b] = pending[b]
          /\ a = i => pending'[a] = frame["rx"]
          /\ b = i => pending'[b] = frame["rx"]
          /\ a > i => a - 1 \in 1 .. Len(pending) /\ pending'[a] = pending[a - 1]
          /\ b > i => b - 1 \in 1 .. Len(pending) /\ pending'[b] = pending[b - 1]
      <4>1. /\ i \in 1 .. Len(pending) + 1 /\ Len(pending) \in Nat
            /\ \A k \in 1 .. Len(pending) + 1 :
                 pending'[k] = IF k < i THEN pending[k]
                               ELSE IF k = i THEN frame["rx"] ELSE pending[k - 1]
        BY <2>2, SessionTypes DEF Inserted
      <4> QED
        BY <4>1
    <3>2. /\ \A j \in 1 .. Len(pending) : (j < i => pending[j] < frame["rx"])
                                        /\ (j >= i => frame["rx"] < pending[j])
          /\ \A j, k \in 1 .. Len(pending) : j < k => pending[j] < pending[k]
      BY <2>2 DEF Inserted, SInv, Sorted
    <3>3. CASE b < i
      BY <3>1, <3>2, <3>3, SessionTypes
    <3>4. CASE b = i
      BY <3>1, <3>2, <3>4, SessionTypes
    <3>5. CASE b > i /\ a < i
      BY <3>1, <3>2, <3>5, SessionTypes
    <3>6. CASE b > i /\ a = i
      BY <3>1, <3>2, <3>6, SessionTypes
    <3>7. CASE b > i /\ a > i
      <4>1. a - 1 < b - 1 /\ a - 1 \in 1 .. Len(pending) /\ b - 1 \in 1 .. Len(pending)
        BY <3>1, <3>7, SessionTypes
      <4>2. pending[a - 1] < pending[b - 1]
        BY <3>2, <4>1
      <4> QED
        BY <3>1, <3>7, <4>2
    <3> QED
      BY <3>3, <3>4, <3>5, <3>6, <3>7, SessionTypes
  <2> QED
    BY <1>1, <2>1, <2>2, Insertion DEF SInv
<1>2. ASSUME NEW t \in Indicators, TakeHead(t) PROVE Sorted'
  BY <1>2, SessionTypes, TailElements DEF TakeHead, SInv, Sorted
<1>3. CASE UNCHANGED pending
  BY <1>3 DEF SInv, Sorted
<1>4. (\E t \in Indicators : IndicateHead(t)) => UNCHANGED pending
  BY DEF IndicateHead
<1>5. FreeDrain => Sorted'
  BY DEF FreeDrain, Sorted
<1> QED
  BY <1>1, <1>2, <1>3, <1>4, <1>5, QueueFrame
     DEF QueueWrites, SInv, Quiet, DirectProcess, Goto, At

\* What IndicateHead does to the output.
LEMMA Indication ==
    ASSUME TypeOK, NEW t \in Indicators, IndicateHead(t)
    PROVE  /\ frame[t] \in Frames /\ frame[t] \in Int /\ pc[t] = "up"
           /\ out' # <<>> /\ Len(out') = Len(out) + 1 /\ Newest' = frame[t]
           /\ \A i \in 1 .. Len(out) : out'[i] = out[i]
           /\ pc' = [pc EXCEPT ![t] = "loop"] /\ frame' = [frame EXCEPT ![t] = NoFrame]
           /\ UNCHANGED <<pending, timer, lock, wend, winO>>
           /\ indicate_seq' = IF indicate_seq = Sn(frame[t])
                              THEN (indicate_seq + 1) % 4096 ELSE indicate_seq
<1>1. frame[t] \in Frames /\ frame[t] \in Int /\ pc[t] = "up"
  <2>1. pc[t] = "up"
    BY DEF IndicateHead, Goto, At
  <2>2. frame[t] # NoFrame
    BY <2>1 DEF TypeOK, FrameHeld, Indicators
  <2>3. frame[t] \in Frames
    BY <2>2, FrameType
  <2> QED
    BY <2>1, <2>3, StreamAssumption DEF Frames
<1>2. out' = Append(out, frame[t]) /\ out \in Seq(Frames)
  BY SessionTypes DEF IndicateHead
<1>3. /\ Len(out') = Len(out) + 1 /\ out'[Len(out) + 1] = frame[t] /\ out' # <<>>
      /\ \A i \in 1 .. Len(out) : out'[i] = out[i]
  BY <1>1, <1>2, AppendElements
<1>4. Newest' = frame[t]
  BY <1>3 DEF Newest
<1> QED
  BY <1>1, <1>3, <1>4 DEF IndicateHead, Goto, Drops, peer, ctrl

\* Newest is the greatest of them.
LEMMA NewestIsGreatest ==
    ASSUME TypeOK, Grown, NEW i \in 1 .. Len(out) PROVE out[i] <= Newest
BY SessionTypes DEF Grown, Newest

LEMMA GrownStep ==
    ASSUME Session, TypeOK, SInv, [Next]_vars PROVE Grown'
<1>1. ASSUME NEW t \in Indicators, IndicateHead(t) PROVE Grown'
  <2>1. \A i \in 1 .. Len(out) : out[i] < frame[t]
    <3> SUFFICES ASSUME NEW i \in 1 .. Len(out) PROVE out[i] < frame[t]
      OBVIOUS
    <3>1. out # <<>> /\ out[i] <= Newest
      BY SessionTypes, NewestIsGreatest DEF SInv
    <3>2. Newest < frame[t]
      BY <1>1, <3>1, Indication DEF SInv, Buffered, Ahead
    <3> QED
      BY <1>1, <3>1, <3>2, SessionTypes, Indication
  <2>2. out'[Len(out) + 1] = frame[t]
    BY <1>1, Indication, SessionTypes DEF Newest
  <2> SUFFICES ASSUME NEW i \in 1 .. Len(out) + 1, NEW j \in 1 .. Len(out) + 1, i < j
               PROVE  out'[i] < out'[j]
    BY <1>1, Indication DEF Grown
  <2>3. i \in 1 .. Len(out) /\ out'[i] = out[i]
    BY <1>1, Indication, SessionTypes
  <2>4. CASE j = Len(out) + 1
    BY <2>1, <2>2, <2>3, <2>4
  <2>5. CASE j # Len(out) + 1
    <3>1. j \in 1 .. Len(out) /\ out'[j] = out[j]
      BY <1>1, <2>5, Indication, SessionTypes
    <3> QED
      BY <2>3, <3>1 DEF SInv, Grown
  <2> QED
    BY <2>4, <2>5
<1>2. CASE UNCHANGED out
  BY <1>2 DEF SInv, Grown
<1>3. InsertSorted \/ FreeDrain \/ (\E t \in Indicators : TakeHead(t)) => UNCHANGED out
  BY DEF InsertSorted, FreeDrain, TakeHead
<1> QED
  BY <1>1, <1>2, <1>3, QueueFrame
     DEF QueueWrites, SInv, Quiet, DirectProcess, Goto, At

\* The steps that move a thread and touch neither frames nor numbers.
LEMMA MovesKeep ==
    ASSUME TypeOK, Quiet, Moves
    PROVE  /\ UNCHANGED <<pending, out, frame, winO, wend, indicate_seq>>
           /\ Early' <=> Early
           /\ \A t \in Indicators : pc'[t] = "up" => pc[t] = "up"
           /\ pc'["rx"] \in {"drop", "slide", "insert"} => pc'["rx"] = pc["rx"]
<1> USE DEF Early, Goto, At, TypeOK, PcOK, Threads, Indicators, ctrl, peer
<1>1. CASE TestEnable
  BY <1>1 DEF TestEnable, Quiet
<1>2. CASE RxLock
  BY <1>2 DEF RxLock
<1>3. CASE RxFinish
  BY <1>3 DEF RxFinish
<1>4. CASE RxCancelTimer
  BY <1>4 DEF RxCancelTimer
<1>5. CASE TimerFires \/ TimerEntry
  BY <1>5 DEF TimerFires, TimerEntry
<1>6. CASE TimerLock \/ TimerFinish
  BY <1>6 DEF TimerLock, TimerFinish
<1>7. CASE \E t \in Indicators : EndLoop(t)
  BY <1>7 DEF EndLoop
<1>8. CASE FreeUnhash \/ FreeCancelTimer
  BY <1>8 DEF FreeUnhash, FreeCancelTimer
<1>9. CASE FreeLock \/ Stop
  BY <1>9 DEF FreeLock, Stop
<1> QED
  BY <1>1, <1>2, <1>3, <1>4, <1>5, <1>6, <1>7, <1>8, <1>9 DEF Moves

LEMMA BufferedStep ==
    ASSUME Session, TypeOK, MutualExclusion, InReach, SInv, [Next]_vars PROVE Buffered'
<1> DEFINE SentN(x)  == x < winO' + WSize /\ (Early' => x < frame'["rx"] + WSize)
           AheadN(x) == out' # <<>> => Newest' < x /\ x < Newest' + 2048
           Kept      == \A x \in Int : (Sent(x) => SentN(x)) /\ (Ahead(x) => AheadN(x))
           Queue     == \A i \in 1 .. Len(pending') : SentN(pending'[i]) /\ AheadN(pending'[i])
           Up(t)     == /\ SentN(frame'[t]) /\ AheadN(frame'[t])
                        /\ \A i \in 1 .. Len(pending') : frame'[t] < pending'[i]
           Held      == Early' \/ pc'["rx"] \in {"slide", "insert"}
                          => frame'["rx"] < winO' + WSize
           Insert    == pc'["rx"] = "insert" => AheadN(frame'["rx"])
           Goal      == Queue /\ (\A t \in Indicators : pc'[t] = "up" => Up(t)) /\ Held /\ Insert
<1>0. SUFFICES Goal
  BY DEF Buffered, Sent, Ahead
<1> USE DEF SInv, Buffered, Indicators
<1>a. /\ Buffered /\ Fresh /\ Window /\ Sorted /\ Quiet
      /\ \A i \in 1 .. Len(pending) : pending[i] \in Int
      /\ frame["rx"] \in Int /\ frame["timer"] \in Int
  BY SessionTypes
<1>1. CASE Moves
  <2>1. Kept
    BY <1>1, MovesKeep DEF Sent, Ahead, Newest
  <2> HIDE DEF SentN, AheadN
  <2> QED
    BY <1>1, <1>a, <2>1, MovesKeep
<1>2. CASE UNCHANGED vars \/ PeerAdvances \/ TimerForce \/ InitWindow
  <2>1. /\ UNCHANGED <<pending, out, frame>> /\ winO' \in Int /\ winO <= winO' /\ Early' = Early
        /\ pc'["rx"] \in {"slide", "insert"} => pc'["rx"] = pc["rx"]
        /\ \A t \in Indicators : pc'[t] = "up" => pc[t] = "up"
    BY <1>2, SessionTypes
       DEF vars, peer, PeerAdvances, TimerForce, InitWindow, Goto, At, TypeOK, PcOK, Threads,
           Early
  <2>2. Kept
    BY <2>1, SessionTypes DEF Sent, Ahead, Newest
  <2> HIDE DEF SentN, AheadN
  <2>3. Held
    BY <1>a, <2>1, SessionTypes
  <2> QED
    BY <1>a, <2>1, <2>2, <2>3
<1>4. ASSUME NEW n \in Frames, Arrive(n) PROVE Goal
  <2>1. /\ pc["rx"] = "idle" /\ pc'["rx"] = "enable" /\ pc'["timer"] = pc["timer"]
        /\ frame'["rx"] = n /\ frame'["timer"] = frame["timer"]
        /\ UNCHANGED <<pending, out, winO>>
    BY <1>4 DEF Arrive, At, peer, TypeOK, PcOK, Threads, LocalOK
  <2>2. n \in Int /\ winO <= n /\ n < winO + WSize
    BY <1>4, SessionTypes DEF Arrive
  <2>3. Kept
    BY <2>1, <2>2, SessionTypes DEF Sent, Ahead, Newest
  <2> HIDE DEF SentN, AheadN
  <2> QED
    BY <1>a, <2>1, <2>2, <2>3
<1>6. CASE DropOld
  <2>1. /\ UNCHANGED <<pending, out, winO>> /\ ~Early' /\ frame'["timer"] = frame["timer"]
        /\ pc'["rx"] \in {"idle", "slide"} /\ pc'["timer"] = pc["timer"] /\ Early
        /\ pc'["rx"] = "slide" => frame'["rx"] = frame["rx"]
    BY <1>6 DEF DropOld, Goto, At, peer, TypeOK, PcOK, Threads, LocalOK, Drops, Early
  <2>2. Kept
    BY <2>1, SessionTypes DEF Sent, Ahead, Newest
  <2> HIDE DEF SentN, AheadN
  <2> QED
    BY <1>a, <2>1, <2>2
<1>7. CASE SlideWindow
  <2>1. /\ pc["rx"] = "slide" /\ pc'["rx"] = "insert" /\ pc'["timer"] = pc["timer"]
        /\ UNCHANGED <<pending, out, winO, frame>> /\ ~Early'
    BY <1>7 DEF SlideWindow, Goto, At, peer, TypeOK, PcOK, Threads, Early
  <2>2. Kept
    BY <2>1, SessionTypes DEF Sent, Ahead, Newest
  <2>3. Ahead(frame["rx"])
    <3> SUFFICES ASSUME out # <<>> PROVE Newest < frame["rx"] /\ frame["rx"] < Newest + 2048
      BY DEF Ahead
    <3>1. PICK I \in Int : StartsAt(I)
      BY <1>a DEF Window
    <3>2. Newest < I /\ I <= frame["rx"] /\ frame["rx"] - Newest < 2048
      BY <2>1, <3>1 DEF StartsAt, InReach
    <3> QED
      BY <3>2, SessionTypes
  <2> HIDE DEF SentN, AheadN
  <2> QED
    BY <1>a, <2>1, <2>2, <2>3
<1>8. CASE InsertSorted
  <2>1. /\ pc["rx"] = "insert" /\ pc'["timer"] = pc["timer"] /\ pc["timer"] # "up"
        /\ pc'["rx"] \in {"idle", "loop"} /\ UNCHANGED <<out, winO>> /\ ~Early'
    BY <1>8 DEF InsertSorted, Goto, At, peer, TypeOK, PcOK, Threads, MutualExclusion, Early
  <2>2. Kept
    BY <2>1, SessionTypes DEF Sent, Ahead, Newest
  <2>3. SentN(frame["rx"]) /\ AheadN(frame["rx"])
    <3>1. frame["rx"] < winO' + WSize
      BY <1>a, <2>1
    <3>2. Ahead(frame["rx"])
      BY <1>a, <2>1
    <3> QED
      BY <1>a, <2>1, <2>2, <3>1, <3>2
  <2> HIDE DEF SentN, AheadN
  <2>4. ASSUME NEW i \in 1 .. Len(pending) + 1, Inserted(i) PROVE Queue
    <3> SUFFICES ASSUME NEW k \in 1 .. Len(pending) + 1
                 PROVE  SentN(pending'[k]) /\ AheadN(pending'[k])
      BY <2>4 DEF Inserted
    <3>1. \/ pending'[k] = frame["rx"]
          \/ \E j \in 1 .. Len(pending) : pending'[k] = pending[j]
      BY <2>4, SessionTypes DEF Inserted
    <3> QED
      BY <1>a, <2>2, <2>3, <3>1
  <2>5. CASE UNCHANGED pending
    BY <1>a, <2>1, <2>2, <2>5
  <2> QED
    BY <1>8, <1>a, <2>1, <2>4, <2>5, Insertion
<1>10. ASSUME NEW t \in Indicators, TakeHead(t) PROVE Goal
  <2>1. /\ pending # <<>> /\ pending' = Tail(pending) /\ pc[t] = "loop"
        /\ pc' = [pc EXCEPT ![t] = "up"] /\ frame' = [frame EXCEPT ![t] = pending[1]]
        /\ UNCHANGED <<out, winO>>
    BY <1>10, SessionTypes, TailElements DEF TakeHead, Goto, At, peer
  <2>2. /\ Len(pending) >= 1 /\ Len(pending') = Len(pending) - 1
        /\ \A i \in 1 .. Len(pending') : pending'[i] = pending[i + 1]
    BY <2>1, SessionTypes, TailElements
  <2>3. /\ pc'[t] = "up" /\ frame'[t] = pending[1]
        /\ \A u \in Indicators : u # t => pc'[u] = pc[u] /\ pc[u] # "up" /\ frame'[u] = frame[u]
    BY <2>1 DEF TypeOK, PcOK, LocalOK, Threads, MutualExclusion
  <2>4. /\ Early' \/ pc'["rx"] \in {"slide", "insert"} =>
             (Early \/ pc["rx"] \in {"slide", "insert"}) /\ frame'["rx"] = frame["rx"]
        /\ Early' => Early
        /\ pc'["rx"] # "insert"
    BY <2>1, <2>3 DEF MutualExclusion, Early
  <2>5. Kept
    BY <2>1, <2>4, SessionTypes DEF Sent, Ahead, Newest
  <2>6. 1 \in 1 .. Len(pending)
        /\ \A i \in 1 .. Len(pending') : i + 1 \in 1 .. Len(pending) /\ pending[1] < pending[i + 1]
    BY <2>2, SessionTypes DEF Sorted
  <2> HIDE DEF SentN, AheadN
  <2>7. Queue
    BY <1>a, <2>2, <2>5, <2>6
  <2>8. Up(t)
    BY <1>a, <2>2, <2>3, <2>5, <2>6
  <2> QED
    BY <1>a, <2>1, <2>3, <2>4, <2>7, <2>8
<1>11. ASSUME NEW t \in Indicators, IndicateHead(t) PROVE Goal
  <2>1. /\ pc[t] = "up" /\ pc'[t] = "loop" /\ frame[t] \in Int
        /\ \A u \in Indicators : pc'[u] # "up" /\ (u # t => frame'[u] = frame[u])
        /\ pc'["rx"] # "insert"
        /\ Early' \/ pc'["rx"] = "slide" =>
             (Early \/ pc["rx"] = "slide") /\ frame'["rx"] = frame["rx"]
        /\ Early' => Early
    BY <1>11, Indication DEF TypeOK, PcOK, LocalOK, Threads, MutualExclusion, Early
  <2>2. UNCHANGED <<pending, winO>> /\ out' # <<>> /\ Newest' = frame[t]
    BY <1>11, Indication
  <2>3. ASSUME NEW i \in 1 .. Len(pending) PROVE AheadN(pending[i])
    <3>1. out # <<>>
      BY <1>a, <2>1, <2>3, SessionTypes DEF Fresh
    <3>2. /\ Newest < frame[t] /\ frame[t] < pending[i] /\ pending[i] < Newest + 2048
      BY <1>a, <2>1, <3>1 DEF Ahead
    <3> QED
      BY <1>a, <2>1, <2>2, <3>1, <3>2, SessionTypes
  <2>4. ASSUME NEW i \in 1 .. Len(pending) PROVE SentN(pending[i])
    BY <1>a, <2>1, <2>2 DEF Sent
  <2> HIDE DEF SentN, AheadN
  <2>5. Held
    BY <1>a, <2>1, <2>2
  <2> QED
    BY <2>1, <2>2, <2>3, <2>4, <2>5
<1>12. CASE FreeDrain
  <2>1. /\ pc' = [pc EXCEPT !["free"] = "done"] /\ UNCHANGED <<out, frame, winO>>
        /\ pending' = <<>> /\ Len(pending') = 0
    BY <1>12 DEF FreeDrain, Goto, peer
  <2>2. \A t \in Indicators : pc'[t] = pc[t]
    BY <2>1 DEF TypeOK, PcOK, Threads
  <2>3. Early' = Early
    BY <2>2 DEF Early
  <2>4. Kept
    BY <2>1, <2>3, SessionTypes DEF Sent, Ahead, Newest
  <2> HIDE DEF SentN, AheadN
  <2> QED
    BY <1>a, <2>1, <2>2, <2>3, <2>4
<1> QED
  BY <1>1, <1>2, <1>4, <1>6, <1>7, <1>8, <1>10, <1>11, <1>12, SessionSteps

LEMMA OutputGrows ==
    ASSUME TypeOK, Quiet, [Next]_vars
    PROVE  out' = out \/ \E t \in Indicators : IndicateHead(t)
BY QueueFrame DEF QueueWrites, Quiet, DirectProcess, FreeDrain, InsertSorted, TakeHead,
                  Goto, At

LEMMA FreshStep ==
    ASSUME Session, TypeOK, MutualExclusion, InReach, SInv, [Next]_vars PROVE Fresh'
<1>1. CASE out # <<>>
  <2>1. out' # <<>>
    BY <1>1, OutputGrows, Indication DEF SInv
  <2> QED
    BY <2>1 DEF Fresh
<1>2. CASE out = <<>>
  <2>1. /\ ~timer /\ pc["timer"] = "idle"
        /\ \/ pc["rx"] \in {"idle", "enable", "lock", "init"}
                /\ pending = <<>> /\ indicate_seq = Unset
           \/ pc["rx"] \in {"drop", "slide"}
                /\ pending = <<>> /\ indicate_seq = Sn(frame["rx"])
           \/ pc["rx"] \in {"insert", "up"}
                /\ pending = <<>> /\ indicate_seq = Sn(frame["rx"] + 1)
           \/ pc["rx"] = "loop" /\ Len(pending) = 1 /\ indicate_seq = Sn(pending[1] + 1)
    BY <1>2 DEF SInv, Fresh
  <2>2. enable /\ frame["rx"] \in Int
    BY SessionTypes DEF SInv, Quiet
  <2> USE DEF Goto, At, TypeOK, PcOK, LocalOK, Threads, Indicators, ctrl
  <2>3. CASE UNCHANGED vars \/ PeerAdvances
    BY <2>1, <2>3 DEF vars, PeerAdvances, Fresh
  <2>4. CASE TestEnable \/ RxLock
    <3>1. /\ pc["rx"] \in {"enable", "lock"} /\ pc'["rx"] \in {"lock", "init"}
          /\ pc'["timer"] = pc["timer"] /\ UNCHANGED <<timer, pending, indicate_seq>>
      <4>1. CASE TestEnable
        BY <2>2, <4>1 DEF TestEnable
      <4>2. CASE RxLock
        BY <4>2 DEF RxLock
      <4> QED
        BY <2>4, <4>1, <4>2
    <3> QED
      BY <2>1, <3>1 DEF Fresh
  <2>5. ~EndLoop("rx")
    <3> SUFFICES ASSUME EndLoop("rx") PROVE FALSE
      OBVIOUS
    <3>1. pc["rx"] = "loop" /\ Len(pending) = 1 /\ indicate_seq = (pending[1] + 1) % 4096
      BY <2>1 DEF EndLoop, Sn
    <3>2. pending # <<>> /\ Head(pending) = pending[1] /\ pending[1] \in Int
      BY <3>1, SessionTypes, TailElements, OneElement
    <3>3. ~Blocked
      BY <3>1, <3>2, SerialOrder DEF Blocked, Sn
    <3> QED
      BY <3>2, <3>3 DEF EndLoop
  <2>6. ~(RxFinish \/ RxCancelTimer \/ TimerFires \/ TimerEntry \/ TimerLock \/ TimerFinish
            \/ TimerForce \/ EndLoop("timer") \/ TakeHead("timer") \/ IndicateHead("timer"))
    BY <2>1 DEF RxFinish, RxCancelTimer, TimerFires, TimerEntry, TimerLock, TimerFinish,
                TimerForce, EndLoop, TakeHead, IndicateHead
  <2>7. ASSUME NEW n \in Frames, Arrive(n) PROVE Fresh'
    BY <2>1, <2>7 DEF Arrive, Fresh
  <2>8. CASE InitWindow
    BY <2>1, <2>8 DEF InitWindow, rxSn, Fresh
  <2>9. CASE DropOld
    <3>1. pc["rx"] = "drop" /\ indicate_seq = rxSn /\ rxSn \in Int
      BY <2>1, <2>2, <2>9 DEF DropOld, rxSn, Sn
    <3>2. ~SN_LESS(rxSn, indicate_seq)
      BY <3>1 DEF SN_LESS
    <3> QED
      BY <2>1, <2>9, <3>1, <3>2 DEF DropOld, Fresh
  <2>10. CASE SlideWindow
    <3>1. pc["rx"] = "slide" /\ indicate_seq = rxSn /\ rxSn = (frame["rx"] % 4096)
      BY <2>1, <2>10 DEF SlideWindow, rxSn, Sn
    <3>2. indicate_seq' = ((frame["rx"] % 4096) + 1) % 4096
      BY <2>10, <3>1 DEF SlideWindow
    <3>3. indicate_seq' = (frame["rx"] + 1) % 4096
      BY <2>2, <3>2, SerialNext
    <3> QED
      BY <2>1, <2>10, <3>1, <3>3 DEF SlideWindow, Fresh, Sn
  <2>11. CASE InsertSorted
    <3>1. pc["rx"] = "insert" /\ pending = <<>> /\ Len(pending) = 0
      BY <2>1, <2>11 DEF InsertSorted
    <3>2. PICK i \in 1 .. Len(pending) + 1 : Inserted(i)
      BY <2>11, <3>1, Insertion DEF SInv
    <3>3. Len(pending') = 1 /\ pending'[1] = frame["rx"]
      BY <3>1, <3>2 DEF Inserted
    <3> QED
      BY <2>1, <2>11, <3>1, <3>2, <3>3 DEF InsertSorted, Inserted, Fresh
  <2>12. CASE TakeHead("rx")
    <3>1. pc["rx"] = "loop" /\ Len(pending) = 1 /\ indicate_seq = Sn(pending[1] + 1)
      BY <2>1, <2>12 DEF TakeHead
    <3>2. Head(pending) = pending[1] /\ Tail(pending) = <<>>
      BY <3>1, SessionTypes, OneElement
    <3> QED
      BY <2>1, <2>12, <3>1, <3>2 DEF TakeHead, Fresh
  <2>13. CASE IndicateHead("rx")
    BY <2>13, Indication DEF Fresh
  <2>14. CASE FreeUnhash \/ FreeLock \/ Stop
    <3>1. /\ pc'["rx"] = pc["rx"] /\ pc'["timer"] = pc["timer"]
          /\ UNCHANGED <<timer, pending, indicate_seq, frame>>
      BY <2>14 DEF FreeUnhash, FreeLock, Stop
    <3> QED
      BY <2>1, <3>1 DEF Fresh
  <2>15. CASE FreeCancelTimer
    <3>1. /\ pc'["rx"] = pc["rx"] /\ pc'["timer"] = pc["timer"] /\ ~timer'
          /\ UNCHANGED <<pending, indicate_seq, frame>>
      BY <2>15 DEF FreeCancelTimer
    <3> QED
      BY <2>1, <3>1 DEF Fresh
  <2>16. CASE FreeDrain
    <3>1. pc["rx"] # "loop" /\ pc'["rx"] = pc["rx"] /\ pc'["timer"] = pc["timer"]
      BY <2>16 DEF FreeDrain, MutualExclusion
    <3>2. pending' = pending /\ UNCHANGED <<timer, indicate_seq, frame>>
      BY <2>1, <2>16, <3>1 DEF FreeDrain
    <3> QED
      BY <2>1, <3>1, <3>2 DEF Fresh
  <2> QED
    BY <2>3, <2>4, <2>5, <2>6, <2>7, <2>8, <2>9, <2>10, <2>11, <2>12, <2>13, <2>14, <2>15,
       <2>16, SessionSteps DEF Moves, SInv
<1> QED
  BY <1>1, <1>2

LEMMA WindowStep ==
    ASSUME Session, TypeOK, MutualExclusion, InReach, SInv, [Next]_vars PROVE Window'
<1> DEFINE StartsN(I) ==
             /\ indicate_seq' = (I % 4096)
             /\ Newest' < I /\ I <= Newest' + 2048
             /\ I <= winO' + WSize /\ (Early' => I <= frame'["rx"] + WSize)
             /\ pc'["rx"] \in {"drop", "slide"} => wend' = (I + WSize - 1) % 4096
             /\ pc'["rx"] = "slide" => I <= frame'["rx"]
             /\ \A t \in Indicators : pc'[t] = "up" => frame'[t] <= I
           Goal == \E I \in Int : StartsN(I)
<1> SUFFICES ASSUME out' # <<>> PROVE Goal
  BY DEF Window, StartsAt
<1>a. Buffered /\ Fresh /\ Window /\ Quiet
  BY DEF SInv
<1>t. /\ winO \in Int /\ WSize \in Int /\ WSize >= 1 /\ WSize <= 2048
      /\ frame["rx"] \in Int /\ frame["timer"] \in Int
      /\ indicate_seq \in Int /\ wend \in Int
      /\ out # <<>> => Newest \in Int
  BY SessionTypes
<1>1. CASE out = <<>>
  <2>1. IndicateHead("rx")
    <3>1. PICK t \in Indicators : IndicateHead(t)
      BY <1>1, <1>a, OutputGrows
    <3>2. pc[t] = "up" /\ pc["timer"] = "idle"
      BY <1>1, <1>a, <3>1, Indication DEF Fresh
    <3> QED
      BY <3>1, <3>2 DEF Indicators
  <2> DEFINE f == frame["rx"]
  <2>2. "rx" \in Indicators
    BY DEF Indicators
  <2>3. f \in Int /\ pc["rx"] = "up" /\ Newest' = f /\ winO' = winO
    BY <2>1, <2>2, Indication
  <2>4. indicate_seq = ((f + 1) % 4096)
    BY <1>1, <1>a, <2>3 DEF Fresh, Sn
  <2>5. indicate_seq' = ((f + 1) % 4096)
    <3>1. (f + 1) % 4096 # f % 4096
      BY <2>3, SerialOrder
    <3> QED
      BY <2>1, <2>2, <2>4, <3>1, Indication DEF Sn
  <2>6. f < winO + WSize
    BY <1>a, <2>2, <2>3 DEF Buffered, Sent
  <2>7. pc'["rx"] = "loop" /\ pc'["timer"] # "up" /\ ~Early'
    BY <1>1, <1>a, <2>1, <2>2, Indication DEF Fresh, TypeOK, PcOK, Threads, Early
  <2>8. StartsN(f + 1)
    BY <1>t, <2>3, <2>5, <2>6, <2>7 DEF Indicators
  <2> QED
    BY <2>3, <2>8
<1>2. CASE out # <<>>
  <2>0. PICK I \in Int : StartsAt(I)
    BY <1>2, <1>a DEF Window
  <2>n. Newest \in Int
    BY <1>2, <1>t
  <2>i. /\ indicate_seq = (I % 4096)
        /\ Newest < I /\ I <= Newest + 2048
        /\ I <= winO + WSize /\ (Early => I <= frame["rx"] + WSize)
        /\ pc["rx"] \in {"drop", "slide"} => wend = (I + WSize - 1) % 4096
        /\ pc["rx"] = "slide" => I <= frame["rx"]
        /\ \A t \in Indicators : pc[t] = "up" => frame[t] <= I
    BY <2>0 DEF StartsAt
  <2>1. CASE Moves
    <3>1. UNCHANGED <<out, frame, winO, wend, indicate_seq>> /\ Newest' = Newest
      BY <1>a, <2>1, MovesKeep DEF Newest
    <3>2. /\ Early' <=> Early
          /\ \A t \in Indicators : pc'[t] = "up" => pc[t] = "up"
          /\ pc'["rx"] \in {"drop", "slide"} => pc'["rx"] = pc["rx"]
      BY <1>a, <2>1, MovesKeep
    <3>3. StartsN(I)
      BY <2>i, <3>1, <3>2
    <3> QED
      BY <3>3
  <2>2. CASE UNCHANGED vars \/ PeerAdvances
    <3>1. UNCHANGED <<out, frame, wend, indicate_seq, pc>>
      BY <2>2 DEF vars, ctrl, peer, PeerAdvances
    <3>2. Newest' = Newest /\ Early' = Early
      BY <3>1 DEF Newest, Early
    <3>3. I <= winO' + WSize
      <4>1. winO' = winO \/ winO' = winO + 1
        BY <2>2 DEF vars, peer, PeerAdvances
      <4>2. I <= winO + WSize /\ I \in Int /\ winO \in Int /\ WSize \in Int
        BY <1>t, <2>i
      <4> QED
        BY <4>1, <4>2
    <3>4. StartsN(I)
      BY <2>i, <3>1, <3>2, <3>3
    <3> QED
      BY <3>4
  <2>3. ASSUME NEW n \in Frames, Arrive(n) PROVE Goal
    <3>1. /\ pc'["rx"] = "enable" /\ pc'["timer"] = pc["timer"]
          /\ frame'["rx"] = n /\ frame'["timer"] = frame["timer"]
          /\ UNCHANGED <<out, winO, wend, indicate_seq>>
      BY <2>3 DEF Arrive, At, peer, ctrl, TypeOK, PcOK, Threads, LocalOK, Indicators
    <3>2. n \in Int /\ winO <= n
      BY <1>t, <2>3 DEF Arrive
    <3>3. Newest' = Newest /\ I <= n + WSize
      BY <1>t, <2>i, <3>1, <3>2 DEF Newest
    <3>4. StartsN(I)
      BY <2>i, <3>1, <3>3 DEF Indicators
    <3> QED
      BY <3>4
  <2>4. CASE InitWindow
    <3>1. /\ pc["rx"] = "init" /\ pc'["rx"] = "drop" /\ pc'["timer"] = pc["timer"]
          /\ UNCHANGED <<out, winO, frame>>
      BY <2>4 DEF InitWindow, Goto, At, peer, TypeOK, PcOK, Threads
    <3>2. indicate_seq' = indicate_seq
      <4>1. indicate_seq # Unset
        BY <2>i DEF Unset
      <4> QED
        BY <2>4, <4>1 DEF InitWindow
    <3>3. wend' = (I + WSize - 1) % 4096
      <4> DEFINE w == WSize - 1
      <4>1. w \in Nat
        BY <1>t
      <4>2. wend' = ((I % 4096) + w) % 4096
        BY <1>t, <2>4, <2>i DEF InitWindow
      <4>3. wend' = (I + w) % 4096
        <5> HIDE DEF w
        <5> QED
          BY <4>1, <4>2, SerialSum
      <4> QED
        BY <1>t, <4>3
    <3>4. Newest' = Newest /\ Early
      BY <3>1 DEF Newest, Early
    <3>5. StartsN(I)
      BY <2>i, <3>1, <3>2, <3>3, <3>4 DEF Indicators
    <3> QED
      BY <3>5
  <2>5. CASE DropOld
    <3>1. /\ pc["rx"] = "drop" /\ pc'["rx"] \in {"idle", "slide"} /\ pc'["timer"] = pc["timer"]
          /\ frame'["timer"] = frame["timer"] /\ ~Early' /\ Early
          /\ UNCHANGED <<out, winO, wend, indicate_seq>>
      BY <2>5 DEF DropOld, Goto, At, peer, ctrl, TypeOK, PcOK, LocalOK, Threads, Drops,
                  Indicators, Early
    <3>2. Newest' = Newest
      BY <3>1 DEF Newest
    <3>3. ASSUME pc'["rx"] = "slide" PROVE I <= frame["rx"] /\ frame' = frame
      <4>1. ~SN_LESS(frame["rx"] % 4096, I % 4096) /\ frame' = frame
        BY <2>5, <2>i, <3>1, <3>3 DEF DropOld, Goto, At, TypeOK, PcOK, Threads, rxSn, Sn
      <4>2. -2048 <= frame["rx"] - I /\ frame["rx"] - I <= 2047
        BY <1>2, <1>t, <2>n, <2>i, <3>1 DEF InReach
      <4>3. ~(frame["rx"] < I)
        BY <1>t, <4>1, <4>2, SerialOrder
      <4> QED
        BY <1>t, <4>1, <4>3
    <3>4. StartsN(I)
      BY <2>i, <3>1, <3>2, <3>3 DEF Indicators
    <3> QED
      BY <3>4
  <2>6. CASE SlideWindow
    <3> DEFINE f == frame["rx"]
    <3>1. /\ pc["rx"] = "slide" /\ pc'["rx"] = "insert" /\ pc'["timer"] = pc["timer"]
          /\ UNCHANGED <<out, winO, frame>> /\ ~Early'
      BY <2>6 DEF SlideWindow, Goto, At, peer, TypeOK, PcOK, Threads, Early
    <3>2. /\ I <= f /\ f < winO + WSize /\ f - Newest < 2048
      BY <1>2, <1>a, <2>i, <3>1 DEF InReach, Buffered
    <3>3. Newest' = Newest /\ f \in Int
      BY <1>t, <3>1 DEF Newest
    <3>4. f % 4096 = indicate_seq <=> f = I
      <4>1. -2048 <= f - I /\ f - I <= 2047
        BY <2>n, <2>i, <3>2, <3>3
      <4> QED
        BY <2>i, <3>3, <4>1, SerialOrder
    <3>5. SN_LESS(wend, f % 4096) <=> I + WSize - 1 < f
      <4> DEFINE e == I + WSize - 1
      <4>1. e \in Int /\ -2048 <= e - f /\ e - f <= 2047 /\ wend = (e % 4096)
        BY <1>t, <2>n, <2>i, <3>1, <3>2, <3>3
      <4> HIDE DEF e
      <4>2. SN_LESS(e % 4096, f % 4096) <=> e < f
        BY <3>3, <4>1, SerialOrder
      <4> QED
        BY <4>1, <4>2 DEF e
    <3> DEFINE J == IF f = I THEN I + 1 ELSE IF I + WSize - 1 < f THEN f + 1 - WSize ELSE I
    <3>6. indicate_seq' = (J % 4096)
      <4>1. CASE f = I
        BY <2>6, <2>i, <3>3, <3>4, <4>1, SerialNext DEF SlideWindow, rxSn, Sn
      <4>2. CASE f # I /\ I + WSize - 1 < f
        BY <2>6, <3>3, <3>4, <3>5, <4>2, SerialSlide DEF SlideWindow, rxSn, Sn
      <4>3. CASE f # I /\ ~(I + WSize - 1 < f)
        BY <2>6, <2>i, <3>4, <3>5, <4>3 DEF SlideWindow, rxSn, Sn
      <4> QED
        BY <4>1, <4>2, <4>3
    <3>7. J \in Int /\ I <= J /\ J <= Newest + 2048 /\ J <= winO + WSize
      BY <1>t, <2>n, <2>i, <3>2, <3>3
    <3> HIDE DEF J
    <3>8. Newest < J
      BY <2>n, <2>i, <3>7
    <3>9. pc["timer"] = "up" => frame["timer"] <= J
      BY <1>t, <2>i, <3>7 DEF Indicators
    <3>10. StartsN(J)
      BY <3>1, <3>3, <3>6, <3>7, <3>8, <3>9 DEF Indicators
    <3> QED
      BY <3>7, <3>10
  <2>7. CASE InsertSorted
    <3>1. /\ pc'["timer"] = pc["timer"] /\ pc'["rx"] \in {"idle", "loop"}
          /\ frame'["timer"] = frame["timer"] /\ ~Early'
          /\ UNCHANGED <<out, winO, indicate_seq>>
      BY <2>7 DEF InsertSorted, Goto, At, peer, ctrl, TypeOK, PcOK, LocalOK, Threads, Drops,
                  Indicators, Early
    <3>2. StartsN(I)
      BY <2>i, <3>1 DEF Indicators, Newest
    <3> QED
      BY <3>2
  <2>8. CASE TimerForce
    <3>1. /\ pc["timer"] = "force" /\ pc'["timer"] # "up" /\ pc'["rx"] = pc["rx"]
          /\ UNCHANGED <<out, winO, frame, wend>>
          /\ pc["rx"] \notin {"drop", "slide", "up"}
      BY <2>8 DEF TimerForce, Goto, At, peer, TypeOK, PcOK, Threads, MutualExclusion
    <3>2. Newest' = Newest /\ Early' = Early
      BY <3>1 DEF Newest, Early
    <3>3. CASE pending = <<>>
      <4>1. indicate_seq' = indicate_seq
        BY <2>8, <3>3 DEF TimerForce
      <4>2. StartsN(I)
        BY <2>i, <3>1, <3>2, <4>1 DEF Indicators
      <4> QED
        BY <4>2
    <3>4. CASE pending # <<>>
      <4> DEFINE p == pending[1]
      <4>1. p \in Int /\ indicate_seq' = (p % 4096) /\ 1 \in 1 .. Len(pending)
        BY <2>8, <3>4, SessionTypes, TailElements DEF TimerForce, Sn
      <4>2. /\ Newest < p /\ p < Newest + 2048 /\ p < winO + WSize
            /\ Early => p < frame["rx"] + WSize
        BY <1>2, <1>a, <4>1 DEF Buffered, Sent, Ahead
      <4> HIDE DEF p
      <4>3. p <= Newest + 2048 /\ p <= winO + WSize /\ (Early => p <= frame["rx"] + WSize)
        BY <1>t, <2>n, <4>1, <4>2
      <4>4. StartsN(p)
        BY <3>1, <3>2, <4>1, <4>2, <4>3 DEF Indicators
      <4> QED
        BY <4>1, <4>4
    <3> QED
      BY <3>3, <3>4
  <2>9. ASSUME NEW t \in Indicators, TakeHead(t) PROVE Goal
    <3> DEFINE p == pending[1]
    <3>1. /\ pending # <<>> /\ pc[t] = "loop" /\ ~SN_LESS(indicate_seq, Sn(p))
          /\ pc' = [pc EXCEPT ![t] = "up"] /\ frame' = [frame EXCEPT ![t] = p]
          /\ UNCHANGED <<out, winO, wend, indicate_seq>>
      BY <2>9, SessionTypes, TailElements DEF TakeHead, Blocked, Goto, At, peer, ctrl
    <3>2. p \in Int /\ 1 \in 1 .. Len(pending)
      BY <3>1, SessionTypes, TailElements
    <3>3. p <= I
      <4>1. Newest < p /\ p < Newest + 2048
        BY <1>2, <1>a, <3>2 DEF Buffered, Ahead
      <4>2. -2048 <= I - p /\ I - p <= 2047
        BY <2>n, <2>i, <3>2, <4>1
      <4>3. ~(I < p)
        <5>1. SN_LESS(I % 4096, p % 4096) <=> I < p
          BY <3>2, <4>2, SerialOrder
        <5> QED
          BY <2>i, <3>1, <5>1 DEF Sn
      <4> QED
        BY <3>2, <4>3
    <3> HIDE DEF p
    <3>4. /\ pc'[t] = "up" /\ frame'[t] = p
          /\ \A u \in Indicators : u # t => pc'[u] = pc[u] /\ pc[u] # "up" /\ frame'[u] = frame[u]
          /\ Early' => Early /\ frame'["rx"] = frame["rx"]
          /\ pc'["rx"] \notin {"drop", "slide"}
      BY <3>1 DEF TypeOK, PcOK, LocalOK, Threads, MutualExclusion, Early, Indicators
    <3>5. Newest' = Newest
      BY <3>1 DEF Newest
    <3>6. StartsN(I)
      BY <2>i, <3>1, <3>3, <3>4, <3>5
    <3> QED
      BY <3>6
  <2>10. ASSUME NEW t \in Indicators, IndicateHead(t) PROVE Goal
    <3> DEFINE f == frame[t]
    <3>1. /\ pc[t] = "up" /\ f \in Int /\ Newest' = f /\ winO' = winO
      BY <2>10, Indication
    <3>2. /\ \A u \in Indicators : pc'[u] # "up"
          /\ Early' => Early /\ frame'["rx"] = frame["rx"]
          /\ pc'["rx"] \notin {"drop", "slide"}
      BY <2>10, Indication DEF TypeOK, PcOK, LocalOK, Threads, MutualExclusion, Early,
                               Indicators
    <3>3. /\ f < winO + WSize /\ (Early => f < frame["rx"] + WSize)
          /\ Newest < f /\ f <= I
      BY <1>2, <1>a, <2>i, <3>1 DEF Buffered, Sent, Ahead
    <3>4. indicate_seq = f % 4096 <=> I = f
      <4>1. -2048 <= I - f /\ I - f <= 2047
        BY <2>n, <2>i, <3>1, <3>3
      <4> QED
        BY <2>i, <3>1, <4>1, SerialOrder
    <3> DEFINE J == IF I = f THEN I + 1 ELSE I
    <3>5. indicate_seq' = (J % 4096)
      <4>1. indicate_seq' = IF indicate_seq = f % 4096 THEN (indicate_seq + 1) % 4096
                                                       ELSE indicate_seq
        BY <2>10, Indication DEF Sn
      <4> QED
        BY <2>i, <3>4, <4>1, SerialNext
    <3>6. /\ J \in Int /\ f < J /\ J <= f + 2048 /\ J <= winO + WSize
      BY <1>t, <2>n, <2>i, <3>1, <3>3
    <3>7. Early => J <= frame["rx"] + WSize
      BY <1>t, <2>i, <3>1, <3>3
    <3> HIDE DEF J, f
    <3>8. StartsN(J)
      BY <3>1, <3>2, <3>5, <3>6, <3>7
    <3> QED
      BY <3>6, <3>8
  <2>11. CASE FreeDrain
    <3>1. /\ \A t \in Indicators : pc'[t] = pc[t]
          /\ UNCHANGED <<out, frame, winO, wend, indicate_seq>>
      BY <2>11 DEF FreeDrain, Goto, peer, ctrl, TypeOK, PcOK, Threads, Indicators
    <3>2. Newest' = Newest /\ Early' = Early /\ pc'["rx"] = pc["rx"]
      BY <3>1 DEF Newest, Early, Indicators
    <3>3. StartsN(I)
      BY <2>i, <3>1, <3>2
    <3> QED
      BY <3>3
  <2> HIDE DEF Goal
  <2> QED
    BY <1>a, <2>1, <2>2, <2>3, <2>4, <2>5, <2>6, <2>7, <2>8, <2>9, <2>10, <2>11, SessionSteps
<1> QED
  BY <1>1, <1>2

-----------------------------------------------------------------------------
(* The theorems.                                                           *)

LEMMA InitSession == ASSUME Session, Init PROVE SInv /\ MutualExclusion
<1>1. pending = <<>> /\ out = <<>> /\ Len(pending) = 0 /\ Len(out) = 0
  BY DEF Init
<1>2. Sorted /\ Grown /\ Window
  BY <1>1 DEF Sorted, Grown, Window
<1>3. \A t \in Threads : pc[t] = "idle"
  BY DEF Init
<1>4. Quiet
  BY <1>3 DEF Quiet, Init, Session, Threads, Exchanges
<1>5. Buffered
  BY <1>1, <1>3 DEF Buffered, Early, Indicators, Threads
<1>6. Fresh
  BY <1>1, <1>3 DEF Fresh, Init, Threads
<1>7. MutualExclusion
  BY <1>3 DEF MutualExclusion, Threads
<1> QED
  BY <1>2, <1>4, <1>5, <1>6, <1>7 DEF SInv

LEMMA SInvStep ==
    ASSUME Session, TypeOK, MutualExclusion, InReach, SInv, [Next]_vars
    PROVE  SInv' /\ MutualExclusion'
<1>1. Quiet' /\ Sorted' /\ Grown' /\ Buffered' /\ Fresh' /\ Window'
  BY QuietStep, SortedGrows, GrownStep, BufferedStep, FreshStep, WindowStep DEF SInv
<1> QED
  BY <1>1, LockStep DEF SInv

\* What is queued or in hand, element by element.
LEMMA BufElements ==
    ASSUME TypeOK
    PROVE  /\ \A n : n \in Range(pending) <=> \E i \in 1 .. Len(pending) : n = pending[i]
           /\ \A n : n \in InHand <=> \E t \in Indicators : pc[t] = "up" /\ n = frame[t]
<1>1. DOMAIN pending = 1 .. Len(pending)
  BY SessionTypes
<1> QED
  BY <1>1 DEF Range, InHand, At

LEMMA InOrderHolds == ASSUME TypeOK, SInv PROVE DeliversInOrder
<1>1. DOMAIN out = 1 .. Len(out)
  BY SessionTypes
<1>2. ASSUME NEW n \in Int, Ahead(n), NEW i \in 1 .. Len(out) PROVE out[i] < n
  <2>1. out # <<>> /\ out[i] <= Newest /\ out[i] \in Int /\ Newest \in Int
    BY SessionTypes, NewestIsGreatest DEF SInv
  <2>2. Newest < n
    BY <1>2, <2>1 DEF Ahead
  <2> QED
    BY <2>1, <2>2
<1>3. ASSUME NEW n \in Range(pending) \cup InHand PROVE n \in Int /\ Ahead(n)
  <2>1. CASE n \in Range(pending)
    BY <2>1, BufElements, SessionTypes DEF SInv, Buffered
  <2>2. CASE n \in InHand
    BY <2>2, BufElements, SessionTypes DEF SInv, Buffered, Indicators
  <2> QED
    BY <1>3, <2>1, <2>2
<1>4. \A i, j \in DOMAIN out : i < j => out[i] < out[j]
  BY <1>1 DEF SInv, Grown
<1>5. \A n \in Range(pending) \cup InHand : RB!After(n)
  BY <1>1, <1>2, <1>3 DEF RB!After
<1> QED
  BY <1>4, <1>5 DEF DeliversInOrder, RB!InOrder

\* What the other steps leave in the hands of rx and the timer.
LEMMA UpStays ==
    ASSUME Session, TypeOK, Quiet, [Next]_vars,
           \A t \in Indicators : ~TakeHead(t) /\ ~IndicateHead(t)
    PROVE  \A t \in Indicators : /\ pc'[t] = "up" <=> pc[t] = "up"
                                 /\ pc[t] = "up" => frame'[t] = frame[t]
<1> USE DEF Goto, At, TypeOK, PcOK, LocalOK, Threads, Indicators, ctrl, peer, Drops
<1>1. CASE UNCHANGED vars \/ PeerAdvances
  BY <1>1 DEF vars, PeerAdvances
<1>2. CASE TestEnable \/ RxLock
  BY <1>2 DEF TestEnable, RxLock
<1>3. CASE RxFinish
  BY <1>3 DEF RxFinish
<1>4. CASE RxCancelTimer \/ TimerFires \/ TimerEntry
  BY <1>4 DEF RxCancelTimer, TimerFires, TimerEntry
<1>5. CASE TimerLock \/ TimerFinish
  BY <1>5 DEF TimerLock, TimerFinish
<1>6. CASE \E t \in Indicators : EndLoop(t)
  BY <1>6 DEF EndLoop
<1>7. CASE \E n \in Frames : Arrive(n)
  BY <1>7 DEF Arrive
<1>8. CASE InitWindow
  BY <1>8 DEF InitWindow
<1>9. CASE DropOld
  BY <1>9 DEF DropOld
<1>10. CASE SlideWindow
  BY <1>10 DEF SlideWindow
<1>11. CASE InsertSorted
  BY <1>11 DEF InsertSorted
<1>12. CASE TimerForce
  BY <1>12 DEF TimerForce
<1>13. CASE FreeUnhash \/ FreeCancelTimer \/ FreeLock
  BY <1>13 DEF FreeUnhash, FreeCancelTimer, FreeLock
<1>14. CASE FreeDrain \/ Stop
  BY <1>14 DEF FreeDrain, Stop
<1> HIDE DEF Goto, At, TypeOK, PcOK, LocalOK, Threads, Indicators, ctrl, peer, Drops
<1> QED
  BY <1>1, <1>2, <1>3, <1>4, <1>5, <1>6, <1>7, <1>8, <1>9, <1>10, <1>11, <1>12,
     <1>13, <1>14, SessionSteps DEF Moves

\* A step of the driver buffers the frame it inserts, indicates the frame it
\* hands up, and is no step of the buffer otherwise.
LEMMA BufStep ==
    ASSUME Session, ~CanFree, TypeOK, TypeOK', MutualExclusion, InReach, SInv, [Next]_vars
    PROVE  [RB!Next]_(RB!vars)
<1> DEFINE Buf == Range(pending) \cup InHand
<1>a. /\ \A n : n \in Range(pending) <=> \E i \in 1 .. Len(pending) : n = pending[i]
      /\ \A n : n \in InHand <=> \E t \in Indicators : pc[t] = "up" /\ n = frame[t]
  BY BufElements
<1>b. /\ \A n : n \in Range(pending') <=> \E i \in 1 .. Len(pending') : n = pending'[i]
      /\ \A n : n \in InHand' <=> \E t \in Indicators : pc'[t] = "up" /\ n = frame'[t]
  <2>1. (TypeOK => /\ \A n : n \in Range(pending)
                              <=> \E i \in 1 .. Len(pending) : n = pending[i]
                   /\ \A n : n \in InHand
                              <=> \E t \in Indicators : pc[t] = "up" /\ n = frame[t])'
    BY BufElements, PTL
  <2> QED
    BY <2>1
<1>q. Quiet /\ Buffered /\ Fresh /\ Sorted
  BY DEF SInv
<1>1. ASSUME NEW t \in Indicators, TakeHead(t) PROVE UNCHANGED RB!vars
  <2>1. /\ pending # <<>> /\ pending' = Tail(pending) /\ pc[t] = "loop" /\ UNCHANGED out
        /\ pc' = [pc EXCEPT ![t] = "up"] /\ frame' = [frame EXCEPT ![t] = pending[1]]
    BY <1>1, SessionTypes, TailElements DEF TakeHead, Goto, At
  <2>2. /\ Len(pending) \in Nat /\ Len(pending) >= 1 /\ Len(pending') = Len(pending) - 1
        /\ \A i \in 1 .. Len(pending') : pending'[i] = pending[i + 1]
    BY <2>1, SessionTypes, TailElements
  <2>3. /\ pc'[t] = "up" /\ frame'[t] = pending[1]
        /\ \A u \in Indicators : pc[u] # "up" /\ (u # t => pc'[u] # "up")
    BY <2>1 DEF TypeOK, PcOK, LocalOK, Threads, MutualExclusion, Indicators
  <2>4. InHand = {} /\ InHand' = {pending[1]}
    BY <1>a, <1>b, <2>3
  <2>5. Range(pending) = Range(pending') \cup {pending[1]}
    <3>1. ASSUME NEW i \in 1 .. Len(pending)
          PROVE  i = 1 \/ (i - 1 \in 1 .. Len(pending') /\ pending'[i - 1] = pending[i])
      BY <2>2
    <3>2. ASSUME NEW i \in 1 .. Len(pending') PROVE i + 1 \in 1 .. Len(pending)
      BY <2>2
    <3>3. 1 \in 1 .. Len(pending)
      BY <2>2
    <3>4. \A n : n \in Range(pending) => n \in Range(pending') \cup {pending[1]}
      BY <1>a, <1>b, <3>1
    <3>5. \A n : n \in Range(pending') \cup {pending[1]} => n \in Range(pending)
      BY <1>a, <1>b, <2>2, <3>2, <3>3
    <3> QED
      BY <3>4, <3>5
  <2> QED
    BY <2>1, <2>4, <2>5 DEF RB!vars
<1>2. ASSUME NEW t \in Indicators, IndicateHead(t) PROVE RB!Next
  <2> DEFINE f == frame[t]
  <2>1. /\ f \in Frames /\ f \in Int /\ pc[t] = "up" /\ UNCHANGED pending
        /\ pc' = [pc EXCEPT ![t] = "loop"]
    BY <1>2, Indication
  <2>2. out' = Append(out, f)
    BY <1>2 DEF IndicateHead
  <2>3. \A u \in Indicators : pc'[u] # "up" /\ (u # t => pc[u] # "up")
    BY <2>1 DEF TypeOK, PcOK, Threads, MutualExclusion, Indicators
  <2>4. InHand = {f} /\ InHand' = {}
    BY <1>a, <1>b, <2>1, <2>3
  <2>5. \A n \in Range(pending) : n \in Int /\ f < n
    <3>1. \A i \in 1 .. Len(pending) : f < pending[i]
      BY <1>q, <2>1 DEF Buffered
    <3>2. \A i \in 1 .. Len(pending) : pending[i] \in Int
      BY SessionTypes
    <3> QED
      BY <1>a, <3>1, <3>2
  <2>6. f \in Buf /\ \A m \in Buf : f <= m
    BY <2>1, <2>4, <2>5
  <2>7. Buf' = Buf \ {f}
    <3>1. Buf' = Range(pending)
      BY <2>1, <2>4
    <3>2. f \notin Range(pending)
      BY <2>1, <2>5
    <3> QED
      BY <2>4, <3>1, <3>2
  <2> QED
    BY <2>1, <2>2, <2>6, <2>7 DEF RB!Next, RB!Indicate
<1>3. ASSUME \A t \in Indicators : ~TakeHead(t) /\ ~IndicateHead(t),
             UNCHANGED pending
      PROVE  UNCHANGED RB!vars
  <2>1. UNCHANGED out
    BY <1>3, <1>q, OutputGrows
  <2>2. InHand' = InHand
    <3>1. \A t \in Indicators : /\ pc'[t] = "up" <=> pc[t] = "up"
                                /\ pc[t] = "up" => frame'[t] = frame[t]
      BY <1>3, <1>q, UpStays
    <3>2. \A n : n \in InHand' <=> n \in InHand
      BY <1>a, <1>b, <3>1
    <3> QED
      BY <3>2
  <2> QED
    BY <1>3, <2>1, <2>2 DEF RB!vars
<1>4. ASSUME \A t \in Indicators : ~TakeHead(t) /\ ~IndicateHead(t),
             NEW i \in 1 .. Len(pending) + 1, Inserted(i), InsertSorted
      PROVE  RB!Next
  <2> DEFINE f == frame["rx"]
  <2>1. /\ pc["rx"] = "insert" /\ UNCHANGED out
        /\ f \in Frames /\ f \in Int
    BY <1>4, RxSnType, SessionTypes DEF InsertSorted, Goto, At
  <2>2. InHand = {} /\ InHand' = {}
    <3>1. \A t \in Indicators : pc[t] # "up" /\ pc'[t] # "up"
      BY <1>4, <2>1 DEF Inserted, MutualExclusion, Indicators, TypeOK, PcOK, Threads
    <3> QED
      BY <1>a, <1>b, <3>1
  <2>3. f \notin Range(pending)
    <3>1. \A j \in 1 .. Len(pending) : pending[j] < f \/ f < pending[j]
      BY <1>4, SessionTypes DEF Inserted
    <3>2. \A j \in 1 .. Len(pending) : pending[j] \in Int /\ pending[j] # f
      BY <2>1, <3>1, SessionTypes
    <3> HIDE DEF f
    <3> QED
      BY <1>a, <3>2
  <2>4. Range(pending') = Range(pending) \cup {f}
    <3>1. \A k \in 1 .. Len(pending') :
             \/ pending'[k] = f
             \/ \E j \in 1 .. Len(pending) : pending'[k] = pending[j]
      BY <1>4, SessionTypes DEF Inserted
    <3>2. ASSUME NEW j \in 1 .. Len(pending)
          PROVE  \E k \in 1 .. Len(pending') : pending'[k] = pending[j]
      <4>0. /\ Len(pending) \in Nat /\ Len(pending') = Len(pending) + 1
            /\ \A k \in 1 .. Len(pending) + 1 :
                 pending'[k] = IF k < i THEN pending[k]
                               ELSE IF k = i THEN f ELSE pending[k - 1]
        BY <1>4, SessionTypes DEF Inserted
      <4>1. CASE j < i
        <5>1. j \in 1 .. Len(pending') /\ pending'[j] = pending[j]
          BY <4>0, <4>1
        <5> QED
          BY <5>1
      <4>2. CASE j >= i
        <5>1. j + 1 \in 1 .. Len(pending') /\ pending'[j + 1] = pending[j]
          BY <4>0, <4>2
        <5> QED
          BY <5>1
      <4> QED
        BY <4>1, <4>2, SessionTypes
    <3>3. i \in 1 .. Len(pending') /\ pending'[i] = f
      BY <1>4, SessionTypes DEF Inserted
    <3>4. \A n : n \in Range(pending') => n \in Range(pending) \cup {f}
      BY <1>a, <1>b, <3>1
    <3>5. \A n : n \in Range(pending) \cup {f} => n \in Range(pending')
      BY <1>a, <1>b, <3>2, <3>3
    <3> QED
      BY <3>4, <3>5
  <2>5. RB!After(f)
    <3>1. Ahead(f)
      BY <1>q, <2>1 DEF Buffered
    <3>2. ASSUME NEW j \in 1 .. Len(out) PROVE out[j] < f
      <4>1. out # <<>> /\ out[j] <= Newest /\ out[j] \in Int /\ Newest \in Int
        BY SessionTypes, NewestIsGreatest DEF SInv
      <4>2. Newest < f
        BY <3>1, <4>1 DEF Ahead
      <4> QED
        BY <2>1, <4>1, <4>2
    <3>3. DOMAIN out = 1 .. Len(out)
      BY SessionTypes
    <3> QED
      BY <3>2, <3>3 DEF RB!After
  <2>6. f \notin Buf /\ Buf' = Buf \cup {f}
    BY <2>2, <2>3, <2>4
  <2> QED
    BY <2>1, <2>5, <2>6 DEF RB!Next, RB!Buffer
<1>5. UNCHANGED pending \/ InsertSorted \/ \E t \in Indicators : TakeHead(t) \/ IndicateHead(t)
  BY <1>q, QueueFrame DEF QueueWrites, Quiet, DirectProcess, FreeDrain, Goto, At
<1> QED
  BY <1>1, <1>2, <1>3, <1>4, <1>5, Insertion DEF SInv

\* With a session established the steps of the driver, with their 12-bit
\* numbers, locks and reordering timer, are steps of the buffer over the
\* originator's unbounded stream: check_indicate_seq, enqueue_reorder_recvframe
\* and recv_indicatepkts_in_order lose, repeat and reorder nothing, provided no
\* frame arrives from 2048 or more beyond the last one indicated and
\* rtw_free_stainfo, which throws away what is queued, does not run.
THEOREM SessionRefines == ASSUME Session, ~CanFree PROVE Spec /\ []InReach => RB!Spec
<1>1. Init => SInv /\ MutualExclusion
  BY InitSession
<1>2. TypeOK /\ MutualExclusion /\ InReach /\ SInv /\ [Next]_vars => SInv' /\ MutualExclusion'
  BY SInvStep
<1>3. Init => RB!Init
  <2> SUFFICES ASSUME Init PROVE RB!Init
    OBVIOUS
  <2>1. TypeOK
    BY InitType
  <2>2. /\ pending = <<>> /\ Len(pending) = 0 /\ out = <<>>
        /\ \A t \in Indicators : pc[t] # "up"
    BY DEF Init, Indicators, Threads
  <2>3. Range(pending) = {} /\ InHand = {}
    BY <2>1, <2>2, BufElements
  <2> QED
    BY <2>2, <2>3 DEF RB!Init
<1>4. TypeOK /\ TypeOK' /\ MutualExclusion /\ InReach /\ SInv /\ [Next]_vars
        => [RB!Next]_(RB!vars)
  BY BufStep
<1> QED
  BY <1>1, <1>2, <1>3, <1>4, TypeCorrect, PTL DEF Spec, RB!Spec

\* Under the same condition frames reach the network stack in stream order, each
\* at most once, and none that is queued or about to be indicated was overtaken,
\* also when rtw_free_stainfo empties the queue under them or the driver stops.
THEOREM SessionDelivers == ASSUME Session PROVE Spec /\ []InReach => []DeliversInOrder
<1>1. Init => SInv /\ MutualExclusion
  BY InitSession
<1>2. TypeOK /\ MutualExclusion /\ InReach /\ SInv /\ [Next]_vars => SInv' /\ MutualExclusion'
  BY SInvStep
<1>3. TypeOK /\ SInv => DeliversInOrder
  BY InOrderHolds
<1> QED
  BY <1>1, <1>2, <1>3, TypeCorrect, PTL DEF Spec

\* A frame that leaves the queue is later in the stream than all the network stack
\* has, as the comment at rtw_recv.c:3235 wants: with the session up it is so, and
\* what breaks it needs a tear-down, a set-up or a BAR.
THEOREM SessionLeaves == ASSUME Session PROVE Spec /\ []InReach => LeavesInOrder
<1>1. ASSUME TypeOK, DeliversInOrder, NEW t \in Indicators, IndicateHead(t),
             NEW i \in DOMAIN out
      PROVE  out[i] < frame[t]
  <2>1. pc[t] = "up"
    BY <1>1 DEF IndicateHead, Goto, At
  <2>2. frame[t] \in InHand
    BY <1>1, <2>1, BufElements
  <2> QED
    BY <1>1, <2>2 DEF DeliversInOrder, RB!InOrder, RB!After
<1>2. TypeOK /\ DeliversInOrder
        => [\A t \in Indicators : IndicateHead(t) => \A i \in DOMAIN out : out[i] < frame[t]]_vars
  BY <1>1
<1> QED
  BY <1>2, SessionDelivers, TypeCorrect, PTL DEF LeavesInOrder

\* A stream of at most 2048 frames, wherever in the 12-bit numbers it starts,
\* needs no condition on the behaviour.
THEOREM ShortStreamDelivers ==
    ASSUME Session, LastFrame - FirstFrame < 2048 PROVE Spec => []DeliversInOrder
<1>1. TypeOK => InReach
  <2> SUFFICES ASSUME TypeOK, out # <<>> PROVE frame["rx"] - Newest < 2048
    BY DEF InReach
  <2>1. Newest \in Frames
    BY SessionTypes
  <2>2. frame["rx"] \in Frames \cup {-1}
    BY DEF TypeOK, LocalOK, Indicators, NoFrame
  <2> QED
    BY <2>1, <2>2, StreamAssumption DEF Frames
<1> QED
  BY <1>1, SessionDelivers, TypeCorrect, PTL
=============================================================================
