---------------------------- MODULE TxPathProofs ----------------------------
(***************************************************************************)
(* Theorems about the transmit path: who owns a buffer, who wakes the two  *)
(* threads, and whose report answers a waiting sender, for every number of *)
(* senders, buffers, tries and calls.                                      *)
(***************************************************************************)
EXTENDS TxPath, SequenceTheorems, WellFoundedInduction, TLAPS

-----------------------------------------------------------------------------
\* The pending queue as a list without repetition.
Distinct(q) == \A i, j \in DOMAIN q : q[i] = q[j] => i = j

LEMMA AppendOne ==
    ASSUME NEW S, NEW q \in Seq(S), NEW b \in S, b \notin ToSet(q), Distinct(q)
    PROVE  /\ Append(q, b) \in Seq(S) /\ Append(q, b) # <<>>
           /\ ToSet(Append(q, b)) = ToSet(q) \cup {b} /\ Distinct(Append(q, b))
<1> DEFINE r == Append(q, b)
<1>1. /\ r \in Seq(S) /\ r # <<>> /\ DOMAIN r = 1..(Len(q) + 1)
      /\ DOMAIN q = 1..Len(q) /\ Len(q) \in Nat
      /\ \A i \in 1..Len(q) : r[i] = q[i]
      /\ r[Len(q) + 1] = b
  BY AppendProperties, LenProperties
<1>2. ToSet(r) \subseteq ToSet(q) \cup {b}
  BY <1>1 DEF ToSet
<1>3. ToSet(q) \cup {b} \subseteq ToSet(r)
  BY <1>1 DEF ToSet
<1>4. Distinct(r)
  BY <1>1 DEF ToSet, Distinct
<1> QED
  BY <1>1, <1>2, <1>3, <1>4

LEMMA PutFirst ==
    ASSUME NEW S, NEW q \in Seq(S), NEW b \in S, b \notin ToSet(q), Distinct(q)
    PROVE  /\ <<b>> \o q \in Seq(S)
           /\ ToSet(<<b>> \o q) = ToSet(q) \cup {b} /\ Distinct(<<b>> \o q)
<1> DEFINE r == <<b>> \o q
<1>0. <<b>> \in Seq(S) /\ Len(<<b>>) = 1 /\ <<b>>[1] = b
  OBVIOUS
<1>1. /\ r \in Seq(S) /\ DOMAIN r = 1..(1 + Len(q))
      /\ DOMAIN q = 1..Len(q) /\ Len(q) \in Nat
      /\ r[1] = b
      /\ \A i \in 2..(1 + Len(q)) : r[i] = q[i - 1]
  BY <1>0, ConcatProperties, LenProperties
<1>2. ToSet(r) \subseteq ToSet(q) \cup {b}
  BY <1>1 DEF ToSet
<1>3. ToSet(q) \cup {b} \subseteq ToSet(r)
  <2> HIDE DEF r
  <2>1. \A i \in DOMAIN q : i + 1 \in DOMAIN r /\ r[i + 1] = q[i]
    <3> SUFFICES ASSUME NEW i \in 1..Len(q)
                 PROVE  i + 1 \in DOMAIN r /\ r[i + 1] = q[i]
      BY <1>1
    <3>1. i + 1 \in 2..(1 + Len(q)) /\ (i + 1) - 1 = i
      BY <1>1
    <3> QED
      BY <1>1, <3>1
  <2> QED
    BY <1>1, <2>1 DEF ToSet
<1>4. Distinct(r)
  BY <1>1 DEF ToSet, Distinct
<1> QED
  BY <1>1, <1>2, <1>3, <1>4

LEMMA RemoveOne ==
    ASSUME NEW S, NEW q \in Seq(S), NEW k \in DOMAIN q, Distinct(q)
    PROVE  /\ RemoveAt(q, k) \in Seq(S)
           /\ ToSet(RemoveAt(q, k)) = ToSet(q) \ {q[k]} /\ Distinct(RemoveAt(q, k))
<1> DEFINE r == RemoveAt(q, k)
           u == SubSeq(q, 1, k - 1)
           v == SubSeq(q, k + 1, Len(q))
<1>1. DOMAIN q = 1..Len(q) /\ Len(q) \in Nat /\ k \in 1..Len(q)
      /\ \A i \in 1..Len(q) : q[i] \in S
  BY LenProperties, ElementOfSeq
<1>2. /\ u \in Seq(S) /\ Len(u) = k - 1
      /\ \A i \in 1..(k - 1) : u[i] = q[i]
  <2>1. \A i \in 1..(k - 1) : q[i] \in S
    BY <1>1
  <2> QED
    BY <1>1, <2>1, SubSeqProperties
<1>3. /\ v \in Seq(S) /\ Len(v) = Len(q) - k
      /\ \A i \in 1..(Len(q) - k) : v[i] = q[k + i]
  <2>1. \A i \in (k + 1)..Len(q) : q[i] \in S
    BY <1>1
  <2> QED
    BY <1>1, <2>1, SubSeqProperties
<1>4. /\ r \in Seq(S) /\ DOMAIN r = 1..(Len(q) - 1)
      /\ \A i \in 1..(k - 1) : r[i] = q[i]
      /\ \A i \in k..(Len(q) - 1) : r[i] = q[i + 1]
  <2> HIDE DEF u, v
  <2>0. Len(u) + Len(v) = Len(q) - 1
    BY <1>1, <1>2, <1>3
  <2>1. /\ u \o v \in Seq(S) /\ Len(u \o v) = Len(q) - 1
        /\ \A i \in 1..(Len(q) - 1) :
                (u \o v)[i] = IF i <= k - 1 THEN u[i] ELSE v[i - (k - 1)]
    <3>1. /\ u \o v \in Seq(S) /\ Len(u \o v) = Len(u) + Len(v)
          /\ \A i \in 1..(Len(u) + Len(v)) :
                 (u \o v)[i] = IF i <= Len(u) THEN u[i] ELSE v[i - Len(u)]
      BY <1>2, <1>3, ConcatProperties
    <3>2. Len(u) = k - 1
      BY <1>2
    <3> QED
      BY <2>0, <3>1, <3>2
  <2>2. r = u \o v
    BY DEF RemoveAt, u, v
  <2>3. DOMAIN r = 1..(Len(q) - 1)
    BY <2>1, <2>2, LenProperties
  <2> HIDE DEF r
  <2>4. ASSUME NEW i \in 1..(k - 1) PROVE r[i] = q[i]
    BY <1>1, <1>2, <2>1, <2>2
  <2>5. ASSUME NEW i \in k..(Len(q) - 1) PROVE r[i] = q[i + 1]
    <3>1. i \in 1..(Len(q) - 1) /\ ~(i <= k - 1) /\ i - (k - 1) \in 1..(Len(q) - k)
          /\ k + (i - (k - 1)) = i + 1
      BY <1>1
    <3>2. r[i] = v[i - (k - 1)]
      BY <2>1, <2>2, <3>1
    <3> QED
      BY <1>3, <3>1, <3>2
  <2> QED
    BY <2>1, <2>2, <2>3, <2>4, <2>5
<1> HIDE DEF r, u, v
<1>5. ToSet(r) \subseteq ToSet(q) \ {q[k]}
  BY <1>1, <1>4 DEF ToSet, Distinct
<1>6. ToSet(q) \ {q[k]} \subseteq ToSet(r)
  <2> SUFFICES ASSUME NEW i \in 1..Len(q), i # k PROVE q[i] \in ToSet(r)
    BY <1>1 DEF ToSet
  <2>1. CASE i < k
    BY <1>1, <1>4, <2>1 DEF ToSet
  <2>2. CASE i > k
    <3>1. i - 1 \in k..(Len(q) - 1) /\ i - 1 \in DOMAIN r /\ (i - 1) + 1 = i
      BY <1>1, <1>4, <2>2
    <3> QED
      BY <1>4, <3>1 DEF ToSet
  <2> QED
    BY <1>1, <2>1, <2>2
<1>7. Distinct(r)
  <2> DEFINE from(i) == IF i < k THEN i ELSE i + 1
  <2>1. \A i \in DOMAIN r : from(i) \in DOMAIN q /\ r[i] = q[from(i)]
    BY <1>1, <1>4
  <2>2. \A i, j \in DOMAIN r : from(i) = from(j) => i = j
    BY <1>1, <1>4
  <2> HIDE DEF from
  <2> QED
    BY <2>1, <2>2 DEF Distinct
<1> QED
  BY <1>4, <1>5, <1>6, <1>7 DEF r

\* A set of positions has a first one.
LEMMA FirstIsFirst ==
    ASSUME NEW I \in SUBSET Nat, I # {}
    PROVE  FirstOf(I) \in I /\ \A j \in I : FirstOf(I) <= j
<1>1. \E i \in I : \A j \in I : ~ (<<j, i>> \in OpToRel(<, Nat))
  BY NatLessThanWellFounded, WFMin
<1>2. PICK i \in I : \A j \in I : <<j, i>> \notin OpToRel(<, Nat)
  BY <1>1
<1>3. OpToRel(<, Nat) = {ss \in Nat \X Nat : ss[1] < ss[2]}
  BY DEF OpToRel
<1>4. ASSUME NEW j \in I PROVE i <= j
  <2>1. <<j, i>> \in Nat \X Nat /\ <<j, i>>[1] = j /\ <<j, i>>[2] = i
    OBVIOUS
  <2>2. ~ (j < i)
    BY <1>2, <1>3, <2>1
  <2> QED
    BY <2>2
<1> QED
  BY <1>4 DEF FirstOf

\* An allocated buffer was free.
LEMMA AllocFree ==
    ASSUME NEW pool, free \cap pool # {}
    PROVE  Alloc(pool) \in free \cap pool
BY DEF Alloc

-----------------------------------------------------------------------------
\* Where the threads are, and what is counted.
Places ==
    /\ spc \in [Senders -> SenderPlaces] /\ xpc \in XmitPlaces /\ dpc \in FillPlaces
    /\ sema \in 0..SemaMax /\ sdio_sema \in 0..SemaMax

\* A buffer in hand is in hand at the places of the code that use it.
InHand ==
    /\ free \subseteq Bufs /\ pending \in Seq(Bufs)
    /\ xbuf \in Bufs \cup {Nothing} /\ (xbuf # Nothing <=> xpc \in {"poll", "free"})
    /\ dbuf \in DataBufs \cup {Nothing} /\ (dbuf # Nothing <=> dpc \in {"full", "put"})
    /\ sbuf \in [Senders -> ExtBufs \cup {Nothing}]
    /\ \A s \in Senders : sbuf[s] # Nothing <=> spc[s] \in {"dump", "lock", "init", "put"}

\* A semaphore at zero, a thread that sleeps on it or is about to: nothing to do,
\* or somebody comes.  A thread that saw a survey may not have seen its end.
Wakeups ==
    /\ xpc = "probe" /\ sema = 0 /\ ~stopped /\ ~survey /\ pending # <<>> => SomebodyWakes
    /\ xpc = "down" /\ sema = 0 /\ ~stopped /\ ~survey /\ pending # <<>> => SomebodyWakes
    /\ xpc = "down" /\ sema = 0 /\ ~stopped /\ survey /\ Passing # {} => SomebodyWakes
    /\ dpc \in {"down", "put", "up"} /\ sdio_sema = 0 /\ ~stopped => acq = <<>>

\* Calls of issue_xxx are numbered by their tries and told once.
Progress ==
    /\ calls \in Nat /\ try \in [Senders -> Nat]
    /\ told \in [Senders -> {"none", "success", "fail"}]
    /\ \A s \in Senders : /\ told[s] # "none" => spc[s] = "idle"
                          /\ told[s] = "none" /\ spc[s] = "idle" => try[s] = 0

\* ack_tx_mutex is held from the lock to the end of the wait, and ack_tx with it.
Locking ==
    /\ mutex \in Senders \cup {Nothing} /\ (ack_tx <=> mutex # Nothing)
    /\ \A s \in Senders : spc[s] \in {"lock", "init", "wait"} => s \in Waits
    /\ \A s \in Waits : mutex = s <=> spc[s] \in {"init", "put", "up", "wait"}
    /\ mutex \in Waits \cup {Nothing}

Numbered == (Senders \cup {Net}) \X Nat

\* A buffer in the hand of a sender holds the frame of its present try, data
\* frames are the network stack's.
Contents ==
    /\ load \in [Bufs -> Seq(Numbered)] /\ acq \in Seq(Numbered)
    /\ \A i \in DOMAIN acq : acq[i][1] = Net
    /\ \A s \in Senders : sbuf[s] # Nothing => ToSet(load[sbuf[s]]) = {<<s, try[s]>>}

\* A frame that has left its sender's hand is of its present try, and the sender is
\* past the queue with the mutex in hand, or it is of a try that is over.
Launched(f) == Over(f) \/ (f[2] = try[f[1]] /\ spc[f[1]] \in {"up", "wait"})
FromHand ==
    \A b \in Bufs : (\A s \in Senders : sbuf[s] # b) =>
        \A f \in ToSet(load[b]) : f[1] \in Waits => Launched(f)
FromDriver ==
    /\ chip \subseteq Numbered /\ reports \subseteq Numbered /\ acked \subseteq Numbered
    /\ \A f \in chip \cup reports \cup acked : f[1] \in Waits => Launched(f)
    /\ \A f \in reports \cup acked : f[1] \in Waits

\* What completes a wait with success is acknowledged, and the waiter's own or over.
Credit(s) == credit[s] \in acked /\ (credit[s][1] = s \/ Over(credit[s]))
Answers ==
    /\ credit \in [Senders -> Numbered \cup {Nothing}]
    /\ \A s \in Senders : /\ mutex = s /\ spc[s] \in {"put", "up", "wait"}
                          /\ done /\ status = "success"
                          => Credit(s)

IInv == /\ Places /\ InHand /\ OneOwner /\ Wakeups /\ Progress /\ Locking
        /\ Contents /\ FromHand /\ FromDriver /\ Answers /\ SuccessHasItsReport

-----------------------------------------------------------------------------
\* Nobody has anything in hand at the start.
LEMMA InitInv == Init => IInv
<1> SUFFICES ASSUME Init PROVE IInv
  OBVIOUS
<1>1. <<>> \in Seq(Bufs) /\ <<>> \in Seq(Numbered) /\ DOMAIN <<>> = {} /\ ToSet(<<>>) = {}
  BY DEF ToSet
<1>2. Places /\ Progress /\ Wakeups /\ Answers /\ SuccessHasItsReport
  BY <1>1, LimitsAssumption
     DEF Init, Places, SenderPlaces, XmitPlaces, FillPlaces, Progress, Wakeups, Answers,
         SuccessHasItsReport, Acknowledged, Passing
<1>3. InHand /\ Locking
  BY <1>1, SendersAssumption, BuffersAssumption DEF Init, InHand, Bufs, Locking
<1>4. OneOwner
  <2>1. \A s \in Senders : sbuf[s] = Nothing /\ xbuf = Nothing /\ dbuf = Nothing
    BY DEF Init
  <2>2. free = Bufs /\ ToSet(pending) = {} /\ DOMAIN pending = {}
    BY <1>1 DEF Init
  <2> QED
    BY <2>1, <2>2, BuffersAssumption DEF Init, OneOwner, NothingLost, NothingShared, Bufs
<1>5. Contents /\ FromHand /\ FromDriver
  BY <1>1 DEF Init, Contents, FromHand, FromDriver
<1> QED
  BY <1>2, <1>3, <1>4, <1>5 DEF IInv

\* The helpers of the actions are expanded everywhere below.
USE DEF bufVars, xmitVars, fillVars, sendVars, ackVars, chipVars, surveyVars, stopVars,
        Goto, Called
USE SendersAssumption, BuffersAssumption, LimitsAssumption

\* The two kinds of buffers are different, and none is NULL.
LEMMA Tags == Nothing \notin Bufs /\ \A b \in ExtBufs, d \in DataBufs : b # d
BY DEF Bufs

\* Only buffers are pending.
LEMMA Listed == ASSUME IInv PROVE ToSet(pending) \subseteq Bufs
BY DEF IInv, InHand, ToSet

\* A buffer with one frame, and an empty one.
LEMMA Single == \A f : ToSet(<<f>>) = {f} /\ (\A S : f \in S => <<f>> \in Seq(S))
BY DEF ToSet

LEMMA Empty == ToSet(<<>>) = {} /\ \A S : <<>> \in Seq(S)
BY DEF ToSet

\* Whatever is in a buffer is a numbered frame.
LEMMA LoadTypes == ASSUME IInv, NEW b \in Bufs PROVE ToSet(load[b]) \subseteq Numbered
BY DEF IInv, Contents, ToSet

\* The pending queue gains a buffer, at either end, and keeps its buffers apart.
LEMMA Queued ==
    ASSUME IInv, NEW b \in Bufs, b \notin ToSet(pending), Enqueue(b) \/ EnqueueToHead(b)
    PROVE  /\ pending' \in Seq(Bufs) /\ ToSet(pending') = ToSet(pending) \cup {b}
           /\ Distinct(pending')
<1>1. pending \in Seq(Bufs) /\ Distinct(pending)
  BY DEF IInv, InHand, OneOwner, NothingShared, Distinct
<1>2. CASE Enqueue(b)
  BY <1>1, <1>2, AppendOne DEF Enqueue
<1>3. CASE EnqueueToHead(b)
  BY <1>1, <1>3, PutFirst DEF EnqueueToHead
<1> QED
  BY <1>2, <1>3

\* What XmitTake does: nothing to take, or one pending buffer taken out.
LEMMA Taken ==
    ASSUME IInv, XmitTake
    PROVE  \/ xpc' = "down" /\ UNCHANGED <<pending, xbuf>>
           \/ /\ xpc' = "poll" /\ xbuf' \in ToSet(pending) /\ xbuf' \in Bufs
              /\ pending' \in Seq(Bufs) /\ ToSet(pending') = ToSet(pending) \ {xbuf'}
              /\ Distinct(pending')
<1>1. pending \in Seq(Bufs) /\ Distinct(pending)
  BY DEF IInv, InHand, OneOwner, NothingShared, Distinct
<1>2. DOMAIN pending \in SUBSET Nat
  BY <1>1
<1>3. Passing \subseteq DOMAIN pending /\ Sendable \subseteq DOMAIN pending
  BY DEF Passing, Sendable, Management
<1>4. PICK I \in SUBSET (DOMAIN pending) : Take(I)
  BY <1>3 DEF XmitTake
<1>5. CASE I # {}
  <2>1. FirstOf(I) \in DOMAIN pending
    BY <1>2, <1>5, FirstIsFirst
  <2>2. pending[FirstOf(I)] \in Bufs /\ pending[FirstOf(I)] \in ToSet(pending)
    BY <1>1, <2>1 DEF ToSet
  <2>3. xpc' = "poll" /\ xbuf' = pending[FirstOf(I)]
        /\ pending' = RemoveAt(pending, FirstOf(I))
    BY <1>4, <1>5 DEF Take
  <2> QED
    BY <1>1, <2>1, <2>2, <2>3, RemoveOne
<1> QED
  BY <1>4, <1>5 DEF Take

\* What Fill does: no buffer, or a free one filled with frames of the network stack.
LEMMA Filled ==
    ASSUME IInv, Fill
    PROVE  \/ /\ dpc' = "next" /\ sdio_sema' = Up(sdio_sema)
              /\ UNCHANGED <<free, load, acq, dbuf>>
           \/ \E b \in free \cap DataBufs, q \in Seq(Numbered) :
                /\ free' = free \ {b} /\ load' = [load EXCEPT ![b] = q] /\ dbuf' = b
                /\ acq' \in Seq(Numbered) /\ dpc' \in {"full", "put"}
                /\ dpc' = "put" => acq' = <<>>
                /\ \A i \in DOMAIN q : q[i][1] = Net
                /\ \A i \in DOMAIN acq' : acq'[i][1] = Net
                /\ UNCHANGED sdio_sema
<1>1. acq \in Seq(Numbered) /\ Len(acq) \in Nat
      /\ \A i \in 1..Len(acq) : acq[i] \in Numbered /\ acq[i][1] = Net
  BY DEF IInv, Contents
<1>2. CASE free \cap DataBufs # {} /\ Pack(Alloc(DataBufs)) /\ UNCHANGED sdio_sema
  <2> DEFINE n == IF Len(acq) < MaxAgg THEN Len(acq) ELSE MaxAgg
             q == SubSeq(acq, 1, n)
             r == SubSeq(acq, n + 1, Len(acq))
  <2>1. Alloc(DataBufs) \in free \cap DataBufs
    BY <1>2, AllocFree
  <2>2. n \in Nat /\ n <= Len(acq) /\ (~(n < Len(acq)) => n + 1 > Len(acq))
    BY <1>1
  <2> HIDE DEF n
  <2>3. q \in Seq(Numbered) /\ \A i \in DOMAIN q : q[i][1] = Net
    <3>1. \A i \in 1..n : acq[i] \in Numbered /\ acq[i][1] = Net
      BY <1>1, <2>2
    <3>2. q \in Seq(Numbered) /\ Len(q) = (IF 1 <= n THEN n - 1 + 1 ELSE 0)
          /\ \A i \in 1..(n - 1 + 1) : q[i] = acq[1 + i - 1]
      BY <2>2, <3>1, SubSeqProperties
    <3>3. DOMAIN q = 1..n
      BY <2>2, <3>2, LenProperties
    <3> QED
      BY <2>2, <3>1, <3>2, <3>3
  <2>4. r \in Seq(Numbered) /\ \A i \in DOMAIN r : r[i][1] = Net
    <3>1. \A i \in (n + 1)..Len(acq) : acq[i] \in Numbered /\ acq[i][1] = Net
      BY <1>1, <2>2
    <3>2. r \in Seq(Numbered)
          /\ Len(r) = (IF n + 1 <= Len(acq) THEN Len(acq) - (n + 1) + 1 ELSE 0)
          /\ \A i \in 1..(Len(acq) - (n + 1) + 1) : r[i] = acq[n + 1 + i - 1]
      BY <1>1, <2>2, <3>1, SubSeqProperties
    <3>3. DOMAIN r = 1..(Len(acq) - n)
      BY <1>1, <2>2, <3>2, LenProperties
    <3>4. ASSUME NEW i \in 1..(Len(acq) - n) PROVE r[i][1] = Net
      <4>1. n + 1 + i - 1 \in (n + 1)..Len(acq) /\ i \in 1..(Len(acq) - (n + 1) + 1)
        BY <1>1, <2>2
      <4> QED
        BY <3>1, <3>2, <4>1
    <3> QED
      BY <3>2, <3>3, <3>4
  <2>5. ~(n < Len(acq)) => r = <<>>
    BY <1>1, <2>2, SubSeqEmpty
  <2>6. /\ free' = free \ {Alloc(DataBufs)} /\ load' = [load EXCEPT ![Alloc(DataBufs)] = q]
        /\ acq' = r /\ dbuf' = Alloc(DataBufs)
        /\ dpc' = (IF n < Len(acq) THEN "full" ELSE "put") /\ UNCHANGED sdio_sema
    BY <1>2 DEF Pack, n
  <2>7. dpc' \in {"full", "put"} /\ (dpc' = "put" => acq' = <<>>)
    BY <2>5, <2>6
  <2> HIDE DEF q, r
  <2> QED
    BY <2>1, <2>3, <2>4, <2>6, <2>7
<1>3. CASE Retry /\ UNCHANGED <<free, load, acq, dbuf>>
  BY <1>3 DEF Retry
<1> QED
  BY <1>2, <1>3 DEF Fill

\* Every step goes from one place of the code to another.
LEMMA PlacesStep == ASSUME IInv, [Next]_vars PROVE Places'
<1>1. ASSUME NEW s \in Senders, AllocMgt(s) PROVE Places'
  BY <1>1 DEF IInv, Places, SenderPlaces, XmitPlaces, FillPlaces, Up, AllocMgt, Return
<1>2. ASSUME NEW s \in Senders, Dump(s) PROVE Places'
  BY <1>2 DEF IInv, Places, SenderPlaces, XmitPlaces, FillPlaces, Up, Dump, Return,
     FreeBuf
<1>3. CASE Fill
  <2>1. dpc' \in {"next", "full", "put"} /\ sdio_sema' \in {sdio_sema, Up(sdio_sema)}
    BY <1>3, Filled
  <2> QED
    BY <1>3, <2>1 DEF IInv, Places, FillPlaces, Fill, Up
<1>4. CASE UNCHANGED vars \/ (\E s \in Senders : Issue(s)) \/ (\E s \in Senders :
           LockAck(s)) \/ (\E s \in Senders : InitSctx(s))
  BY <1>4 DEF IInv, Places, SenderPlaces, XmitPlaces, FillPlaces, Up, vars, Issue,
     LockAck, InitSctx
<1>5. CASE (\E s \in Senders : PutMgnt(s)) \/ (\E s \in Senders : UpMgnt(s)) \/ (\E s
           \in Senders : WaitOver(s)) \/ (\E s \in Senders : WaitTimeout(s))
  BY <1>5 DEF IInv, Places, SenderPlaces, XmitPlaces, FillPlaces, Up, PutMgnt, Enqueue,
     UpMgnt, Return, WaitOver, Release, WaitTimeout
<1>6. CASE NetXmit \/ FillDown \/ FillNext \/ FillBusy
  BY <1>6 DEF IInv, Places, SenderPlaces, XmitPlaces, FillPlaces, Up, NetXmit, Packing,
     FillDown, FillNext, FillBusy, Retry
<1>7. CASE FillPut \/ FillUp \/ XmitDown \/ XmitCheck
  BY <1>7 DEF IInv, Places, SenderPlaces, XmitPlaces, FillPlaces, Up, FillPut, Enqueue,
     FillUp, XmitDown, XmitCheck
<1>8. CASE XmitSelect \/ XmitTake \/ XmitWrite \/ XmitDrop
  BY <1>8 DEF IInv, Places, SenderPlaces, XmitPlaces, FillPlaces, Up, XmitSelect,
     XmitTake, Take, XmitWrite, XmitDrop
<1>9. CASE XmitPutBack \/ XmitFree \/ (\E f \in chip : ChipSends(f)) \/ (\E f \in
           reports : Report(f))
  BY <1>9 DEF IInv, Places, SenderPlaces, XmitPlaces, FillPlaces, Up, XmitPutBack,
     EnqueueToHead, XmitFree, FreeBuf, ChipSends, Report, AckTxDone
<1>10. CASE SurveyHolds \/ SurveyLetsGo \/ Schedule \/ SetStopped
  BY <1>10 DEF IInv, Places, SenderPlaces, XmitPlaces, FillPlaces, Up, SurveyHolds,
     SurveyLetsGo, Schedule, SetStopped
<1>11. CASE StopAck \/ JoinCmd \/ JoinXmit \/ JoinFill
  BY <1>11 DEF IInv, Places, SenderPlaces, XmitPlaces, FillPlaces, Up, StopAck,
     AckTxDone, JoinCmd, JoinXmit, JoinFill
<1> QED
  BY <1>1, <1>2, <1>3, <1>4, <1>5, <1>6, <1>7, <1>8, <1>9, <1>10, <1>11 DEF Next, Call,
     FillThread, XmitThread, Others, Begin, Stop

\* What a step takes in hand, it has at the places that use it.
LEMMA InHandStep == ASSUME IInv, [Next]_vars PROVE InHand'
<1>1. ASSUME NEW s \in Senders, AllocMgt(s) PROVE InHand'
  <2>1. CASE free \cap ExtBufs = {}
    BY <1>1, <2>1 DEF IInv, InHand, Places, SenderPlaces, Bufs, AllocMgt, Return
  <2>2. CASE free \cap ExtBufs # {}
    <3>1. Alloc(ExtBufs) \in free \cap ExtBufs
      BY <2>2, AllocFree
    <3> QED
      BY <1>1, <2>2, <3>1 DEF IInv, InHand, Places, SenderPlaces, Bufs, AllocMgt
  <2> QED
    BY <2>1, <2>2
<1>2. ASSUME NEW s \in Senders, PutMgnt(s) PROVE InHand'
  <2>1. sbuf[s] \in Bufs /\ sbuf[s] \notin ToSet(pending)
    BY <1>2 DEF IInv, InHand, OneOwner, NothingShared, PutMgnt, Bufs
  <2>2. pending' \in Seq(Bufs)
    BY <1>2, <2>1, Queued DEF PutMgnt
  <2> QED
    BY <1>2, <2>2 DEF IInv, InHand, Places, SenderPlaces, PutMgnt
<1>3. CASE Fill
  BY <1>3, Filled DEF IInv, InHand, FillPlaces, Fill
<1>4. CASE FillPut
  <2>1. dbuf \in Bufs /\ dbuf \notin ToSet(pending)
    BY <1>4 DEF IInv, InHand, OneOwner, NothingShared, FillPut, Bufs
  <2>2. pending' \in Seq(Bufs)
    BY <1>4, <2>1, Queued DEF FillPut
  <2> QED
    BY <1>4, <2>2 DEF IInv, InHand, FillPut
<1>5. CASE XmitTake
  BY <1>5, Taken DEF IInv, InHand, XmitTake, Bufs
<1>6. CASE XmitPutBack
  <2>1. xbuf \in Bufs /\ xbuf \notin ToSet(pending)
    BY <1>6 DEF IInv, InHand, OneOwner, NothingShared, XmitPutBack
  <2>2. pending' \in Seq(Bufs)
    BY <1>6, <2>1, Queued DEF XmitPutBack
  <2> QED
    BY <1>6, <2>2 DEF IInv, InHand, XmitPutBack
<1>7. CASE XmitFree
  BY <1>7 DEF IInv, InHand, Places, SenderPlaces, XmitPlaces, FillPlaces, Bufs,
     XmitFree, FreeBuf
<1>8. CASE UNCHANGED vars \/ (\E s \in Senders : Issue(s)) \/ (\E s \in Senders :
           Dump(s)) \/ (\E s \in Senders : LockAck(s))
  BY <1>8 DEF IInv, InHand, Places, SenderPlaces, XmitPlaces, FillPlaces, Bufs, vars,
     Issue, Dump, Return, FreeBuf, LockAck
<1>9. CASE (\E s \in Senders : InitSctx(s)) \/ (\E s \in Senders : UpMgnt(s)) \/ (\E s
           \in Senders : WaitOver(s)) \/ (\E s \in Senders : WaitTimeout(s))
  BY <1>9 DEF IInv, InHand, Places, SenderPlaces, XmitPlaces, FillPlaces, Bufs,
     InitSctx, UpMgnt, Return, WaitOver, Release, WaitTimeout
<1>10. CASE NetXmit \/ FillDown \/ FillNext \/ FillBusy
  BY <1>10 DEF IInv, InHand, Places, SenderPlaces, XmitPlaces, FillPlaces, Bufs,
     NetXmit, Packing, FillDown, FillNext, FillBusy, Retry
<1>11. CASE FillUp \/ XmitDown \/ XmitCheck \/ XmitSelect
  BY <1>11 DEF IInv, InHand, Places, SenderPlaces, XmitPlaces, FillPlaces, Bufs, FillUp,
     XmitDown, XmitCheck, XmitSelect
<1>12. CASE XmitWrite \/ XmitDrop \/ (\E f \in chip : ChipSends(f)) \/ (\E f \in reports
           : Report(f))
  BY <1>12 DEF IInv, InHand, Places, SenderPlaces, XmitPlaces, FillPlaces, Bufs,
     XmitWrite, XmitDrop, ChipSends, Report, AckTxDone
<1>13. CASE SurveyHolds \/ SurveyLetsGo \/ Schedule \/ SetStopped
  BY <1>13 DEF IInv, InHand, Places, SenderPlaces, XmitPlaces, FillPlaces, Bufs,
     SurveyHolds, SurveyLetsGo, Schedule, SetStopped
<1>14. CASE StopAck \/ JoinCmd \/ JoinXmit \/ JoinFill
  BY <1>14 DEF IInv, InHand, Places, SenderPlaces, XmitPlaces, FillPlaces, Bufs,
     StopAck, AckTxDone, JoinCmd, JoinXmit, JoinFill
<1> QED
  BY <1>1, <1>2, <1>3, <1>4, <1>5, <1>6, <1>7, <1>8, <1>9, <1>10, <1>11, <1>12, <1>13,
     <1>14 DEF Next, Call, FillThread, XmitThread, Others, Begin, Stop

\* A step moves a buffer from one place to another.
LEMMA OneOwnerStep == ASSUME IInv, [Next]_vars PROVE OneOwner'
<1>1. ASSUME NEW s \in Senders, AllocMgt(s) PROVE OneOwner'
  <2>1. CASE free \cap ExtBufs = {}
    BY <1>1, <2>1 DEF IInv, OneOwner, NothingLost, NothingShared, AllocMgt
  <2>2. CASE free \cap ExtBufs # {}
    <3> DEFINE b == Alloc(ExtBufs)
    <3>1. b \in free \cap ExtBufs
      BY <2>2, AllocFree
    <3>2. free' = free \ {b} /\ sbuf' = [sbuf EXCEPT ![s] = b] /\ sbuf[s] = Nothing
          /\ UNCHANGED <<pending, xbuf, dbuf>>
      BY <1>1, <2>2 DEF IInv, InHand, AllocMgt
    <3> HIDE DEF b
    <3>8. NothingLost'
      BY <3>1, <3>2 DEF IInv, InHand, OneOwner, NothingLost, Bufs
    <3>9. NothingShared'
      BY Tags, Listed, <3>1, <3>2 DEF IInv, InHand, OneOwner, NothingShared, Bufs
    <3> QED
      BY <3>8, <3>9 DEF OneOwner
  <2> QED
    BY <2>1, <2>2
<1>2. ASSUME NEW s \in Senders, Dump(s) PROVE OneOwner'
  <2>1. sbuf[s] \in Bufs
    BY <1>2 DEF IInv, InHand, Dump, Bufs
  <2>2. CASE stopped
    <3>1. free' = free \cup {sbuf[s]} /\ sbuf' = [sbuf EXCEPT ![s] = Nothing]
          /\ UNCHANGED <<pending, xbuf, dbuf>>
      BY <1>2, <2>2 DEF Dump, FreeBuf
    <3>8. NothingLost'
      BY <2>1, <3>1 DEF IInv, InHand, OneOwner, NothingLost, Bufs
    <3>9. NothingShared'
      BY Tags, Listed, <2>1, <3>1 DEF IInv, InHand, OneOwner, NothingShared, Bufs
    <3> QED
      BY <3>8, <3>9 DEF OneOwner
  <2>3. CASE ~stopped
    BY <1>2, <2>3 DEF IInv, OneOwner, NothingLost, NothingShared, Dump
  <2> QED
    BY <2>2, <2>3
<1>3. ASSUME NEW s \in Senders, PutMgnt(s) PROVE OneOwner'
  <2>1. sbuf[s] \in Bufs /\ sbuf[s] \notin ToSet(pending)
    BY <1>3 DEF IInv, InHand, OneOwner, NothingShared, PutMgnt, Bufs
  <2>2. ToSet(pending') = ToSet(pending) \cup {sbuf[s]} /\ Distinct(pending')
    BY <1>3, <2>1, Queued DEF PutMgnt
  <2>3. sbuf' = [sbuf EXCEPT ![s] = Nothing] /\ UNCHANGED <<free, xbuf, dbuf>>
    BY <1>3 DEF PutMgnt
  <2>8. NothingLost'
    BY <2>1, <2>2, <2>3 DEF IInv, InHand, OneOwner, NothingLost, Bufs
  <2>9. NothingShared'
    BY Tags, Listed, <2>1, <2>2, <2>3
       DEF IInv, InHand, OneOwner, NothingShared, Distinct, Bufs
  <2> QED
    BY <2>8, <2>9 DEF OneOwner
<1>4. CASE Fill
  <2>1. UNCHANGED <<pending, xbuf, sbuf>> /\ dbuf = Nothing
    BY <1>4 DEF IInv, InHand, Fill
  <2> QED
    BY <2>1, <1>4, Filled DEF IInv, InHand, OneOwner, NothingLost, NothingShared, Bufs
<1>5. CASE FillPut
  <2>1. dbuf \in Bufs /\ dbuf \notin ToSet(pending)
    BY <1>5 DEF IInv, InHand, OneOwner, NothingShared, FillPut, Bufs
  <2>2. ToSet(pending') = ToSet(pending) \cup {dbuf} /\ Distinct(pending')
    BY <1>5, <2>1, Queued DEF FillPut
  <2>3. dbuf' = Nothing /\ UNCHANGED <<free, xbuf, sbuf>>
    BY <1>5 DEF FillPut
  <2>8. NothingLost'
    BY <2>1, <2>2, <2>3 DEF IInv, InHand, OneOwner, NothingLost, Bufs
  <2>9. NothingShared'
    BY Tags, Listed, <2>1, <2>2, <2>3
       DEF IInv, InHand, OneOwner, NothingShared, Distinct, Bufs
  <2> QED
    BY <2>8, <2>9 DEF OneOwner
<1>6. CASE XmitTake
  <2>1. xbuf = Nothing /\ UNCHANGED <<free, dbuf, sbuf>>
    BY <1>6 DEF IInv, InHand, XmitTake
  <2>2. CASE UNCHANGED <<pending, xbuf>>
    BY <2>1, <2>2 DEF IInv, OneOwner, NothingLost, NothingShared
  <2>3. CASE /\ xbuf' \in ToSet(pending) /\ xbuf' \in Bufs
             /\ ToSet(pending') = ToSet(pending) \ {xbuf'} /\ Distinct(pending')
    BY <2>1, <2>3 DEF IInv, InHand, OneOwner, NothingLost, NothingShared, Distinct, Bufs
  <2> QED
    BY <1>6, <2>2, <2>3, Taken
<1>7. CASE XmitPutBack
  <2>1. xbuf \in Bufs /\ xbuf \notin ToSet(pending)
    BY <1>7 DEF IInv, InHand, OneOwner, NothingShared, XmitPutBack
  <2>2. ToSet(pending') = ToSet(pending) \cup {xbuf} /\ Distinct(pending')
    BY <1>7, <2>1, Queued DEF XmitPutBack
  <2>3. xbuf' = Nothing /\ UNCHANGED <<free, dbuf, sbuf>>
    BY <1>7 DEF XmitPutBack
  <2>8. NothingLost'
    BY <2>1, <2>2, <2>3 DEF IInv, InHand, OneOwner, NothingLost, Bufs
  <2>9. NothingShared'
    BY Tags, Listed, <2>1, <2>2, <2>3
       DEF IInv, InHand, OneOwner, NothingShared, Distinct, Bufs
  <2> QED
    BY <2>8, <2>9 DEF OneOwner
<1>8. CASE XmitFree
  <2>1. xbuf \in Bufs /\ free' = free \cup {xbuf} /\ xbuf' = Nothing
        /\ UNCHANGED <<pending, dbuf, sbuf>>
    BY <1>8 DEF IInv, InHand, XmitFree, FreeBuf
  <2>8. NothingLost'
    BY <2>1 DEF IInv, InHand, OneOwner, NothingLost, Bufs
  <2>9. NothingShared'
    BY Tags, Listed, <2>1 DEF IInv, InHand, OneOwner, NothingShared, Bufs
  <2> QED
    BY <2>8, <2>9 DEF OneOwner
<1>9. CASE UNCHANGED vars \/ (\E s \in Senders : Issue(s)) \/ (\E s \in Senders :
           LockAck(s)) \/ (\E s \in Senders : InitSctx(s))
  BY <1>9 DEF IInv, OneOwner, NothingLost, NothingShared, vars, Issue, LockAck, InitSctx
<1>10. CASE (\E s \in Senders : UpMgnt(s)) \/ (\E s \in Senders : WaitOver(s)) \/ (\E s
           \in Senders : WaitTimeout(s)) \/ NetXmit
  BY <1>10 DEF IInv, OneOwner, NothingLost, NothingShared, UpMgnt, Return, WaitOver,
     Release, WaitTimeout, NetXmit, Packing
<1>11. CASE FillDown \/ FillNext \/ FillBusy \/ FillUp
  BY <1>11 DEF IInv, OneOwner, NothingLost, NothingShared, FillDown, FillNext, FillBusy,
     Retry, FillUp
<1>12. CASE XmitDown \/ XmitCheck \/ XmitSelect \/ XmitWrite
  BY <1>12 DEF IInv, OneOwner, NothingLost, NothingShared, XmitDown, XmitCheck,
     XmitSelect, XmitWrite
<1>13. CASE XmitDrop \/ (\E f \in chip : ChipSends(f)) \/ (\E f \in reports : Report(f))
           \/ SurveyHolds
  BY <1>13 DEF IInv, OneOwner, NothingLost, NothingShared, XmitDrop, ChipSends, Report,
     AckTxDone, SurveyHolds
<1>14. CASE SurveyLetsGo \/ Schedule \/ SetStopped \/ StopAck
  BY <1>14 DEF IInv, OneOwner, NothingLost, NothingShared, SurveyLetsGo, Schedule,
     SetStopped, StopAck, AckTxDone
<1>15. CASE JoinCmd \/ JoinXmit \/ JoinFill
  BY <1>15 DEF IInv, OneOwner, NothingLost, NothingShared, JoinCmd, JoinXmit, JoinFill
<1> QED
  BY <1>1, <1>2, <1>3, <1>4, <1>5, <1>6, <1>7, <1>8, <1>9, <1>10, <1>11, <1>12, <1>13,
     <1>14, <1>15 DEF Next, Call, FillThread, XmitThread, Others, Begin, Stop

\* Only buffers in nobody's list are filled or emptied.
LEMMA LoadKeptStep ==
    ASSUME IInv, [Next]_vars
    PROVE  \A b \in ToSet(pending) : load'[b] = load[b]
<1>1. ASSUME NEW s \in Senders, AllocMgt(s) PROVE \A b \in ToSet(pending) : load'[b] =
      load[b]
  <2>1. CASE free \cap ExtBufs = {}
    BY <1>1, <2>1 DEF AllocMgt
  <2>2. CASE free \cap ExtBufs # {}
    <3> DEFINE a == Alloc(ExtBufs)
    <3>1. a \in free
      BY <2>2, AllocFree
    <3>2. load' = [load EXCEPT ![a] = <<<<s, try[s]>>>>]
      BY <1>1, <2>2 DEF AllocMgt
    <3> HIDE DEF a
    <3> QED
      BY <3>1, <3>2, Listed DEF IInv, OneOwner, NothingShared, Contents
  <2> QED
    BY <2>1, <2>2
<1>2. ASSUME NEW s \in Senders, Dump(s) PROVE \A b \in ToSet(pending) : load'[b] =
      load[b]
  BY <1>2, Listed DEF IInv, OneOwner, NothingShared, Contents, InHand, Dump, FreeBuf
<1>3. CASE Fill
  <2>1. CASE UNCHANGED load
    BY <2>1
  <2>2. ASSUME NEW b \in free \cap DataBufs, NEW q, load' = [load EXCEPT ![b] = q]
        PROVE  \A a \in ToSet(pending) : load'[a] = load[a]
    BY <2>2, Listed DEF IInv, OneOwner, NothingShared, Contents
  <2> QED
    BY <1>3, <2>1, <2>2, Filled
<1>4. CASE XmitFree
  BY <1>4, Listed DEF IInv, OneOwner, NothingShared, Contents, XmitFree, FreeBuf
<1>5. CASE UNCHANGED vars \/ (\E s \in Senders : Issue(s)) \/ (\E s \in Senders :
           LockAck(s)) \/ (\E s \in Senders : InitSctx(s))
  BY <1>5 DEF IInv, vars, Issue, LockAck, InitSctx
<1>6. CASE (\E s \in Senders : PutMgnt(s)) \/ (\E s \in Senders : UpMgnt(s)) \/ (\E s
           \in Senders : WaitOver(s)) \/ (\E s \in Senders : WaitTimeout(s))
  BY <1>6 DEF IInv, PutMgnt, Enqueue, UpMgnt, Return, WaitOver, Release, WaitTimeout
<1>7. CASE NetXmit \/ FillDown \/ FillNext \/ FillBusy
  BY <1>7 DEF IInv, NetXmit, Packing, FillDown, FillNext, FillBusy, Retry
<1>8. CASE FillPut \/ FillUp \/ XmitDown \/ XmitCheck
  BY <1>8 DEF IInv, FillPut, Enqueue, FillUp, XmitDown, XmitCheck
<1>9. CASE XmitSelect \/ XmitTake \/ XmitWrite \/ XmitDrop
  BY <1>9 DEF IInv, XmitSelect, XmitTake, Take, XmitWrite, XmitDrop
<1>10. CASE XmitPutBack \/ (\E f \in chip : ChipSends(f)) \/ (\E f \in reports :
           Report(f)) \/ SurveyHolds
  BY <1>10 DEF IInv, XmitPutBack, EnqueueToHead, ChipSends, Report, AckTxDone,
     SurveyHolds
<1>11. CASE SurveyLetsGo \/ Schedule \/ SetStopped \/ StopAck
  BY <1>11 DEF IInv, SurveyLetsGo, Schedule, SetStopped, StopAck, AckTxDone
<1>12. CASE JoinCmd \/ JoinXmit \/ JoinFill
  BY <1>12 DEF IInv, JoinCmd, JoinXmit, JoinFill
<1> QED
  BY <1>1, <1>2, <1>3, <1>4, <1>5, <1>6, <1>7, <1>8, <1>9, <1>10, <1>11, <1>12 DEF Next,
     Call, FillThread, XmitThread, Others, Begin, Stop

\* Whoever leaves something to do raises the semaphore afterwards.
LEMMA WakeupsStep == ASSUME IInv, [Next]_vars PROVE Wakeups'
<1>0. (UNCHANGED pending => Passing' = Passing) /\ (pending = <<>> => Passing = {})
  <2>1. ASSUME UNCHANGED pending PROVE Passing' = Passing
    <3>1. \A i \in DOMAIN pending : load'[pending[i]] = load[pending[i]]
      BY LoadKeptStep DEF ToSet
    <3> QED
      BY <2>1, <3>1 DEF Passing, KindOf
  <2>2. pending = <<>> => Passing = {}
    BY DEF Passing
  <2> QED
    BY <2>1, <2>2
<1>1. ASSUME NEW s \in Senders, PutMgnt(s) PROVE Wakeups'
  BY <1>1, <1>0 DEF IInv, Places, Wakeups, SomebodyWakes, Up, PutMgnt, Enqueue
<1>2. ASSUME NEW s \in Senders, UpMgnt(s) PROVE Wakeups'
  BY <1>2, <1>0 DEF IInv, Places, Wakeups, SomebodyWakes, Up, UpMgnt, Return
<1>3. CASE NetXmit
  BY <1>3, <1>0 DEF IInv, Places, Wakeups, SomebodyWakes, Up, NetXmit, Packing
<1>4. CASE Fill
  <2>1. CASE dpc' = "next"
    BY <1>4, <1>0, <2>1 DEF IInv, Places, Wakeups, SomebodyWakes, Fill
  <2>2. CASE dpc' = "full"
    BY <1>4, <1>0, <2>2 DEF IInv, Places, Wakeups, SomebodyWakes, Fill
  <2>3. CASE dpc' = "put" /\ acq' = <<>>
    BY <1>4, <1>0, <2>3 DEF IInv, Places, Wakeups, SomebodyWakes, Fill
  <2> QED
    BY <1>4, <2>1, <2>2, <2>3, Filled
<1>5. CASE FillPut
  BY <1>5, <1>0 DEF IInv, Places, Wakeups, SomebodyWakes, Up, FillPut, Enqueue
<1>6. CASE FillUp
  BY <1>6, <1>0 DEF IInv, Places, Wakeups, SomebodyWakes, Up, FillUp
<1>7. CASE XmitTake
  <2>1. UNCHANGED <<sema, sdio_sema, acq, dpc, kick, spc, stopped, survey>>
    BY <1>7 DEF XmitTake
  <2>2. CASE xpc' = "down" /\ UNCHANGED pending
    <3>1. (xpc = "probe" /\ Passing = {}) \/ (xpc = "any" /\ pending = <<>>)
      <4>1. (xpc = "probe" /\ Passing = {}) \/ (xpc = "any" /\ Sendable = {})
        BY <1>7, <2>2 DEF XmitTake, Take
      <4>2. Sendable = {} => DOMAIN pending = {}
        BY DEF Sendable
      <4>3. pending \in Seq(Bufs)
        BY DEF IInv, InHand
      <4> QED
        BY <4>1, <4>2, <4>3
    <3>2. Passing' = Passing
      BY <1>0, <2>2
    <3>3. pending = <<>> => Passing = {}
      BY DEF Passing
    <3> QED
      BY <2>1, <2>2, <3>1, <3>2, <3>3 DEF IInv, Wakeups, SomebodyWakes
  <2>3. CASE xpc' = "poll"
    BY <2>1, <2>3 DEF IInv, Wakeups
  <2> QED
    BY <1>7, <2>2, <2>3, Taken
<1>8. CASE XmitPutBack
  BY <1>8, <1>0 DEF IInv, Places, Wakeups, SomebodyWakes, Up, XmitPutBack, EnqueueToHead
<1>9. CASE XmitCheck
  BY <1>9, <1>0 DEF IInv, Places, Wakeups, SomebodyWakes, Up, XmitCheck
<1>10. CASE XmitSelect
  BY <1>10, <1>0 DEF IInv, Places, Wakeups, SomebodyWakes, Up, XmitSelect
<1>11. CASE SurveyHolds
  BY <1>11, <1>0 DEF IInv, Places, Wakeups, SomebodyWakes, Up, SurveyHolds
<1>12. CASE Schedule
  BY <1>12, <1>0 DEF IInv, Places, Wakeups, SomebodyWakes, Up, Schedule
<1>13. CASE UNCHANGED vars \/ (\E s \in Senders : Issue(s)) \/ (\E s \in Senders :
           AllocMgt(s)) \/ (\E s \in Senders : Dump(s))
  BY <1>13, <1>0 DEF IInv, Places, Wakeups, SomebodyWakes, Up, vars, Issue, AllocMgt,
     Return, Dump, FreeBuf
<1>14. CASE (\E s \in Senders : LockAck(s)) \/ (\E s \in Senders : InitSctx(s)) \/ (\E s
           \in Senders : WaitOver(s)) \/ (\E s \in Senders : WaitTimeout(s))
  BY <1>14, <1>0 DEF IInv, Places, Wakeups, SomebodyWakes, Up, LockAck, InitSctx,
     WaitOver, Release, Return, WaitTimeout
<1>15. CASE FillDown \/ FillNext \/ FillBusy \/ XmitDown
  BY <1>15, <1>0 DEF IInv, Places, Wakeups, SomebodyWakes, Up, FillDown, FillNext,
     FillBusy, Retry, XmitDown
<1>16. CASE XmitWrite \/ XmitDrop \/ XmitFree \/ (\E f \in chip : ChipSends(f))
  BY <1>16, <1>0 DEF IInv, Places, Wakeups, SomebodyWakes, Up, XmitWrite, XmitDrop,
     XmitFree, FreeBuf, ChipSends
<1>17. CASE (\E f \in reports : Report(f)) \/ SurveyLetsGo \/ SetStopped \/ StopAck
  BY <1>17, <1>0 DEF IInv, Places, Wakeups, SomebodyWakes, Up, Report, AckTxDone,
     SurveyLetsGo, SetStopped, StopAck
<1>18. CASE JoinCmd \/ JoinXmit \/ JoinFill
  BY <1>18, <1>0 DEF IInv, Places, Wakeups, SomebodyWakes, Up, JoinCmd, JoinXmit,
     JoinFill
<1> QED
  BY <1>1, <1>2, <1>3, <1>4, <1>5, <1>6, <1>7, <1>8, <1>9, <1>10, <1>11, <1>12, <1>13,
     <1>14, <1>15, <1>16, <1>17, <1>18 DEF Next, Call, FillThread, XmitThread, Others,
     Begin, Stop

\* A call is told once, when it is over, and counts its tries until then.
LEMMA ProgressStep == ASSUME IInv, [Next]_vars PROVE Progress'
<1>1. ASSUME NEW s \in Senders, Issue(s) PROVE Progress'
  BY <1>1 DEF IInv, Progress, Places, Issue
<1>2. ASSUME NEW s \in Senders, AllocMgt(s) PROVE Progress'
  BY <1>2 DEF IInv, Progress, Places, AllocMgt, Return
<1>3. ASSUME NEW s \in Senders, Dump(s) PROVE Progress'
  BY <1>3 DEF IInv, Progress, Places, Dump, Return, FreeBuf
<1>4. ASSUME NEW s \in Senders, UpMgnt(s) PROVE Progress'
  BY <1>4 DEF IInv, Progress, Places, UpMgnt, Return
<1>5. ASSUME NEW s \in Senders, WaitOver(s) PROVE Progress'
  BY <1>5 DEF IInv, Progress, Places, WaitOver, Release, Return
<1>6. ASSUME NEW s \in Senders, WaitTimeout(s) PROVE Progress'
  BY <1>6 DEF IInv, Progress, Places, WaitTimeout, Release, Return
<1>7. CASE UNCHANGED vars \/ (\E s \in Senders : LockAck(s)) \/ (\E s \in Senders :
           InitSctx(s)) \/ (\E s \in Senders : PutMgnt(s))
  BY <1>7 DEF IInv, Progress, Places, vars, LockAck, InitSctx, PutMgnt, Enqueue
<1>8. CASE NetXmit \/ FillDown \/ FillNext \/ FillBusy
  BY <1>8 DEF IInv, Progress, Places, NetXmit, Packing, FillDown, FillNext, FillBusy,
     Retry
<1>9. CASE Fill \/ FillPut \/ FillUp \/ XmitDown
  BY <1>9 DEF IInv, Progress, Places, Fill, Retry, Pack, FillPut, Enqueue, FillUp,
     XmitDown
<1>10. CASE XmitCheck \/ XmitSelect \/ XmitTake \/ XmitWrite
  BY <1>10 DEF IInv, Progress, Places, XmitCheck, XmitSelect, XmitTake, Take, XmitWrite
<1>11. CASE XmitDrop \/ XmitPutBack \/ XmitFree \/ (\E f \in chip : ChipSends(f))
  BY <1>11 DEF IInv, Progress, Places, XmitDrop, XmitPutBack, EnqueueToHead, XmitFree,
     FreeBuf, ChipSends
<1>12. CASE (\E f \in reports : Report(f)) \/ SurveyHolds \/ SurveyLetsGo \/ Schedule
  BY <1>12 DEF IInv, Progress, Places, Report, AckTxDone, SurveyHolds, SurveyLetsGo,
     Schedule
<1>13. CASE SetStopped \/ StopAck \/ JoinCmd \/ JoinXmit
  BY <1>13 DEF IInv, Progress, Places, SetStopped, StopAck, AckTxDone, JoinCmd, JoinXmit
<1>14. CASE JoinFill
  BY <1>14 DEF IInv, Progress, Places, JoinFill
<1> QED
  BY <1>1, <1>2, <1>3, <1>4, <1>5, <1>6, <1>7, <1>8, <1>9, <1>10, <1>11, <1>12, <1>13,
     <1>14 DEF Next, Call, FillThread, XmitThread, Others, Begin, Stop

\* One waiting sender at a time has the mutex.
LEMMA LockingStep == ASSUME IInv, [Next]_vars PROVE Locking'
<1>1. ASSUME NEW s \in Senders, Issue(s) PROVE Locking'
  BY <1>1 DEF IInv, Locking, Places, Issue
<1>2. ASSUME NEW s \in Senders, AllocMgt(s) PROVE Locking'
  BY <1>2 DEF IInv, Locking, Places, AllocMgt, Return
<1>3. ASSUME NEW s \in Senders, Dump(s) PROVE Locking'
  BY <1>3 DEF IInv, Locking, Places, Dump, Return, FreeBuf
<1>4. ASSUME NEW s \in Senders, LockAck(s) PROVE Locking'
  BY <1>4 DEF IInv, Locking, Places, LockAck
<1>5. ASSUME NEW s \in Senders, InitSctx(s) PROVE Locking'
  BY <1>5 DEF IInv, Locking, Places, InitSctx
<1>6. ASSUME NEW s \in Senders, PutMgnt(s) PROVE Locking'
  BY <1>6 DEF IInv, Locking, Places, PutMgnt, Enqueue
<1>7. ASSUME NEW s \in Senders, UpMgnt(s) PROVE Locking'
  BY <1>7 DEF IInv, Locking, Places, UpMgnt, Return
<1>8. ASSUME NEW s \in Senders, WaitOver(s) PROVE Locking'
  BY <1>8 DEF IInv, Locking, Places, WaitOver, Release, Return
<1>9. ASSUME NEW s \in Senders, WaitTimeout(s) PROVE Locking'
  BY <1>9 DEF IInv, Locking, Places, WaitTimeout, Release, Return
<1>10. CASE Fill
  BY <1>10 DEF IInv, Locking, Places, Fill, Retry, Pack
<1>11. CASE FillPut \/ FillUp \/ FillBusy
  BY <1>11 DEF IInv, Locking, Places, FillPut, Enqueue, FillUp, FillBusy, Retry
<1>12. CASE UNCHANGED vars \/ NetXmit \/ FillDown \/ FillNext
  BY <1>12 DEF IInv, Locking, Places, vars, NetXmit, Packing, FillDown, FillNext
<1>13. CASE XmitDown \/ XmitCheck \/ XmitSelect \/ XmitTake
  BY <1>13 DEF IInv, Locking, Places, XmitDown, XmitCheck, XmitSelect, XmitTake, Take
<1>14. CASE XmitWrite \/ XmitDrop \/ XmitPutBack \/ XmitFree
  BY <1>14 DEF IInv, Locking, Places, XmitWrite, XmitDrop, XmitPutBack, EnqueueToHead,
     XmitFree, FreeBuf
<1>15. CASE (\E f \in chip : ChipSends(f)) \/ (\E f \in reports : Report(f)) \/
           SurveyHolds \/ SurveyLetsGo
  BY <1>15 DEF IInv, Locking, Places, ChipSends, Report, AckTxDone, SurveyHolds,
     SurveyLetsGo
<1>16. CASE Schedule \/ SetStopped \/ StopAck \/ JoinCmd
  BY <1>16 DEF IInv, Locking, Places, Schedule, SetStopped, StopAck, AckTxDone, JoinCmd
<1>17. CASE JoinXmit \/ JoinFill
  BY <1>17 DEF IInv, Locking, Places, JoinXmit, JoinFill
<1> QED
  BY <1>1, <1>2, <1>3, <1>4, <1>5, <1>6, <1>7, <1>8, <1>9, <1>10, <1>11, <1>12, <1>13,
     <1>14, <1>15, <1>16, <1>17 DEF Next, Call, FillThread, XmitThread, Others, Begin,
     Stop

LEMMA ContentsKept ==
    ASSUME IInv, UNCHANGED <<load, acq>>,
           \A r \in Senders : sbuf'[r] # Nothing => sbuf'[r] = sbuf[r] /\ try'[r] = try[r]
    PROVE  Contents'
BY DEF IInv, Contents

\* A sender moves on and keeps its buffer and its try, or has no buffer any more.
LEMMA SenderMoves ==
    ASSUME IInv, NEW s \in Senders, UNCHANGED <<load, acq>>,
           \A r \in Senders : r # s => sbuf'[r] = sbuf[r] /\ try'[r] = try[r],
           sbuf'[s] = Nothing
    PROVE  Contents'
BY ContentsKept

LEMMA TryOfOthers ==
    ASSUME IInv, NEW s \in Senders, NEW ret, Return(s, ret)
    PROVE  \A r \in Senders : r # s => try'[r] = try[r]
BY DEF Return, IInv, Progress

\* What is in a sender's buffer is the frame of its try.
LEMMA ContentsStep == ASSUME IInv, [Next]_vars PROVE Contents'
<1>0. sbuf \in [Senders -> ExtBufs \cup {Nothing}] /\ try \in [Senders -> Nat]
      /\ \A s \in Senders : sbuf[s] # Nothing => spc[s] \in {"dump", "lock", "init", "put"}
  BY DEF IInv, InHand, Progress
<1>1. ASSUME NEW s \in Senders, Issue(s) PROVE Contents'
  <2>1. /\ UNCHANGED <<load, acq, sbuf>> /\ sbuf[s] = Nothing
        /\ \A r \in Senders : r # s => try'[r] = try[r]
    BY <1>0, <1>1 DEF Issue, bufVars, fillVars
  <2> QED
    BY <2>1, SenderMoves
<1>2. ASSUME NEW s \in Senders, AllocMgt(s) PROVE Contents'
  <2>1. CASE free \cap ExtBufs = {}
    <3>1. UNCHANGED <<load, acq, sbuf>> /\ sbuf[s] = Nothing /\ Return(s, "fail")
      BY <1>0, <1>2, <2>1 DEF AllocMgt, fillVars
    <3> QED
      BY <3>1, TryOfOthers, SenderMoves
  <2>2. CASE free \cap ExtBufs # {}
    <3> DEFINE a == Alloc(ExtBufs)
               q == <<<<s, try[s]>>>>
    <3>1. a \in free /\ a \in Bufs /\ \A r \in Senders : sbuf[r] # a
      BY <2>2, AllocFree DEF IInv, OneOwner, NothingShared, Bufs
    <3>2. load' = [load EXCEPT ![a] = q] /\ sbuf' = [sbuf EXCEPT ![s] = a]
          /\ UNCHANGED <<acq, try>>
      BY <1>2, <2>2 DEF AllocMgt
    <3>3. <<s, try[s]>> \in Numbered
      BY DEF IInv, Progress, Numbered
    <3>4. q \in Seq(Numbered) /\ ToSet(q) = {<<s, try[s]>>}
      BY <3>3, Single
    <3> HIDE DEF a, q
    <3> QED
      BY <3>1, <3>2, <3>4 DEF IInv, Contents, InHand, Bufs
  <2> QED
    BY <2>1, <2>2
<1>3. ASSUME NEW s \in Senders, Dump(s) PROVE Contents'
  <2>1. CASE ~stopped
    BY <1>3, <2>1 DEF IInv, Contents, Dump
  <2>2. CASE stopped
    <3>1. sbuf[s] \in Bufs
      BY <1>3 DEF IInv, InHand, Dump, Bufs
    <3>2. \A r \in Senders : r # s => sbuf[r] # sbuf[s]
      BY Tags, <3>1 DEF IInv, OneOwner, NothingShared
    <3>3. load' = [load EXCEPT ![sbuf[s]] = <<>>] /\ sbuf' = [sbuf EXCEPT ![s] = Nothing]
          /\ UNCHANGED acq /\ \A r \in Senders : r # s => try'[r] = try[r]
      BY <1>3, <2>2 DEF Dump, FreeBuf, Return, IInv, Progress
    <3>4. /\ load \in [Bufs -> Seq(Numbered)] /\ acq \in Seq(Numbered)
          /\ \A i \in DOMAIN acq : acq[i][1] = Net
          /\ \A r \in Senders : sbuf[r] # Nothing => ToSet(load[sbuf[r]]) = {<<r, try[r]>>}
      BY DEF IInv, Contents
    <3>5. load' \in [Bufs -> Seq(Numbered)]
      BY <3>1, <3>3, <3>4, Empty
    <3>6. ASSUME NEW r \in Senders, sbuf'[r] # Nothing
          PROVE  ToSet(load'[sbuf'[r]]) = {<<r, try'[r]>>}
      <4>1. r # s /\ sbuf'[r] = sbuf[r] /\ try'[r] = try[r]
        BY <1>0, <3>3, <3>6
      <4>2. sbuf[r] \in Bufs /\ sbuf[r] # sbuf[s]
        BY <1>0, <3>2, <3>6, <4>1 DEF Bufs
      <4>3. load'[sbuf[r]] = load[sbuf[r]]
        BY <3>1, <3>3, <3>4, <4>2
      <4> QED
        BY <3>4, <3>6, <4>1, <4>3
    <3> QED
      BY <3>3, <3>4, <3>5, <3>6 DEF Contents
  <2> QED
    BY <2>1, <2>2
<1>4. ASSUME NEW s \in Senders, PutMgnt(s) PROVE Contents'
  <2>1. /\ UNCHANGED <<load, acq, try>> /\ sbuf' = [sbuf EXCEPT ![s] = Nothing]
    BY <1>4 DEF PutMgnt, fillVars
  <2> QED
    BY <1>0, <2>1, SenderMoves
<1>5. ASSUME NEW s \in Senders, UpMgnt(s) PROVE Contents'
  <2>1. UNCHANGED <<load, acq, sbuf>> /\ sbuf[s] = Nothing
    BY <1>0, <1>5 DEF UpMgnt, fillVars
  <2>2. \A r \in Senders : r # s => try'[r] = try[r]
    BY <1>5, TryOfOthers DEF UpMgnt
  <2> QED
    BY <2>1, <2>2, SenderMoves
<1>6. ASSUME NEW s \in Senders, WaitOver(s) PROVE Contents'
  <2>1. UNCHANGED <<load, acq, sbuf>> /\ sbuf[s] = Nothing
    BY <1>0, <1>6 DEF WaitOver, bufVars, fillVars
  <2>2. \A r \in Senders : r # s => try'[r] = try[r]
    BY <1>6, TryOfOthers DEF WaitOver, Release
  <2> QED
    BY <2>1, <2>2, SenderMoves
<1>7. ASSUME NEW s \in Senders, WaitTimeout(s) PROVE Contents'
  <2>1. UNCHANGED <<load, acq, sbuf>> /\ sbuf[s] = Nothing
    BY <1>0, <1>7 DEF WaitTimeout, bufVars, fillVars
  <2>2. \A r \in Senders : r # s => try'[r] = try[r]
    BY <1>7, TryOfOthers DEF WaitTimeout, Release
  <2> QED
    BY <2>1, <2>2, SenderMoves
<1>8. CASE NetXmit
  <2>1. <<Net, calls'>> \in Numbered /\ acq \in Seq(Numbered)
    BY <1>8 DEF IInv, Progress, Contents, Numbered, NetXmit
  <2>2. acq' = Append(acq, <<Net, calls'>>) /\ UNCHANGED <<load, sbuf, try>>
    BY <1>8 DEF NetXmit
  <2>3. acq' \in Seq(Numbered) /\ \A i \in DOMAIN acq' : acq'[i][1] = Net
    BY <2>1, <2>2 DEF IInv, Contents
  <2> QED
    BY <2>2, <2>3 DEF IInv, Contents
<1>9. CASE Fill
  <2>1. UNCHANGED <<sbuf, try>>
    BY <1>9 DEF Fill
  <2>2. CASE UNCHANGED <<load, acq>>
    BY <2>1, <2>2 DEF IInv, Contents
  <2>3. ASSUME NEW b \in free \cap DataBufs, NEW q \in Seq(Numbered),
               load' = [load EXCEPT ![b] = q], acq' \in Seq(Numbered),
               \A i \in DOMAIN acq' : acq'[i][1] = Net
        PROVE  Contents'
    <3>1. \A r \in Senders : sbuf[r] # b
      BY <2>3 DEF IInv, OneOwner, NothingShared
    <3> QED
      BY <2>1, <2>3, <3>1 DEF IInv, Contents, InHand, Bufs
  <2> QED
    BY <1>9, <2>2, <2>3, Filled
<1>10. CASE XmitFree
  <2>1. xbuf \in Bufs /\ \A r \in Senders : sbuf[r] # xbuf
    BY <1>10 DEF IInv, InHand, OneOwner, NothingShared, XmitFree
  <2>2. load' = [load EXCEPT ![xbuf] = <<>>] /\ UNCHANGED <<sbuf, try, acq>>
    BY <1>10 DEF XmitFree, FreeBuf
  <2> QED
    BY <2>1, <2>2, Empty DEF IInv, Contents, InHand, Bufs
<1>11. CASE UNCHANGED vars \/ (\E s \in Senders : LockAck(s)) \/ (\E s \in Senders :
           InitSctx(s)) \/ FillDown
  BY <1>11 DEF IInv, Contents, InHand, Places, Progress, vars, LockAck, InitSctx,
     FillDown
<1>12. CASE FillNext \/ FillBusy \/ FillPut \/ FillUp
  BY <1>12 DEF IInv, Contents, InHand, Places, Progress, FillNext, FillBusy, Retry,
     FillPut, Enqueue, FillUp
<1>13. CASE XmitDown \/ XmitCheck \/ XmitSelect \/ XmitTake
  BY <1>13 DEF IInv, Contents, InHand, Places, Progress, XmitDown, XmitCheck,
     XmitSelect, XmitTake, Take
<1>14. CASE XmitWrite \/ XmitDrop \/ XmitPutBack \/ (\E f \in chip : ChipSends(f))
  BY <1>14 DEF IInv, Contents, InHand, Places, Progress, XmitWrite, XmitDrop,
     XmitPutBack, EnqueueToHead, ChipSends
<1>15. CASE (\E f \in reports : Report(f)) \/ SurveyHolds \/ SurveyLetsGo \/ Schedule
  BY <1>15 DEF IInv, Contents, InHand, Places, Progress, Report, AckTxDone, SurveyHolds,
     SurveyLetsGo, Schedule
<1>16. CASE SetStopped \/ StopAck \/ JoinCmd \/ JoinXmit
  BY <1>16 DEF IInv, Contents, InHand, Places, Progress, SetStopped, StopAck, AckTxDone,
     JoinCmd, JoinXmit
<1>17. CASE JoinFill
  BY <1>17 DEF IInv, Contents, InHand, Places, Progress, JoinFill
<1> QED
  BY <1>1, <1>2, <1>3, <1>4, <1>5, <1>6, <1>7, <1>8, <1>9, <1>10, <1>11, <1>12, <1>13,
     <1>14, <1>15, <1>16, <1>17 DEF Next, Call, FillThread, XmitThread, Others, Begin,
     Stop

\* A try that is over stays over.
LEMMA OverKeptStep ==
    ASSUME IInv, [Next]_vars, NEW k \in Senders, NEW n \in Nat, Over(<<k, n>>)
    PROVE  Over(<<k, n>>)'
<1>0. n < try[k] \/ told[k] # "none"
  BY DEF Over
<1>1. ASSUME NEW s \in Senders, Issue(s) PROVE Over(<<k, n>>)'
  BY <1>1, <1>0 DEF IInv, Progress, Places, Over, Issue
<1>2. ASSUME NEW s \in Senders, AllocMgt(s) PROVE Over(<<k, n>>)'
  BY <1>2, <1>0 DEF IInv, Progress, Places, Over, AllocMgt, Return
<1>3. ASSUME NEW s \in Senders, Dump(s) PROVE Over(<<k, n>>)'
  BY <1>3, <1>0 DEF IInv, Progress, Places, Over, Dump, Return, FreeBuf
<1>4. ASSUME NEW s \in Senders, UpMgnt(s) PROVE Over(<<k, n>>)'
  BY <1>4, <1>0 DEF IInv, Progress, Places, Over, UpMgnt, Return
<1>5. ASSUME NEW s \in Senders, WaitOver(s) PROVE Over(<<k, n>>)'
  BY <1>5, <1>0 DEF IInv, Progress, Places, Over, WaitOver, Release, Return
<1>6. ASSUME NEW s \in Senders, WaitTimeout(s) PROVE Over(<<k, n>>)'
  BY <1>6, <1>0 DEF IInv, Progress, Places, Over, WaitTimeout, Release, Return
<1>7. CASE UNCHANGED vars \/ (\E s \in Senders : LockAck(s)) \/ (\E s \in Senders :
           InitSctx(s)) \/ (\E s \in Senders : PutMgnt(s))
  BY <1>7, <1>0 DEF IInv, Progress, Places, Over, vars, LockAck, InitSctx, PutMgnt,
     Enqueue
<1>8. CASE NetXmit \/ FillDown \/ FillNext \/ FillBusy
  BY <1>8, <1>0 DEF IInv, Progress, Places, Over, NetXmit, Packing, FillDown, FillNext,
     FillBusy, Retry
<1>9. CASE Fill \/ FillPut \/ FillUp \/ XmitDown
  BY <1>9, <1>0 DEF IInv, Progress, Places, Over, Fill, Retry, Pack, FillPut, Enqueue,
     FillUp, XmitDown
<1>10. CASE XmitCheck \/ XmitSelect \/ XmitTake \/ XmitWrite
  BY <1>10, <1>0 DEF IInv, Progress, Places, Over, XmitCheck, XmitSelect, XmitTake,
     Take, XmitWrite
<1>11. CASE XmitDrop \/ XmitPutBack \/ XmitFree \/ (\E f \in chip : ChipSends(f))
  BY <1>11, <1>0 DEF IInv, Progress, Places, Over, XmitDrop, XmitPutBack, EnqueueToHead,
     XmitFree, FreeBuf, ChipSends
<1>12. CASE (\E f \in reports : Report(f)) \/ SurveyHolds \/ SurveyLetsGo \/ Schedule
  BY <1>12, <1>0 DEF IInv, Progress, Places, Over, Report, AckTxDone, SurveyHolds,
     SurveyLetsGo, Schedule
<1>13. CASE SetStopped \/ StopAck \/ JoinCmd \/ JoinXmit
  BY <1>13, <1>0 DEF IInv, Progress, Places, Over, SetStopped, StopAck, AckTxDone,
     JoinCmd, JoinXmit
<1>14. CASE JoinFill
  BY <1>14, <1>0 DEF IInv, Progress, Places, Over, JoinFill
<1> QED
  BY <1>1, <1>2, <1>3, <1>4, <1>5, <1>6, <1>7, <1>8, <1>9, <1>10, <1>11, <1>12, <1>13,
     <1>14 DEF Next, Call, FillThread, XmitThread, Others, Begin, Stop

\* A frame that has left its sender's hand stays so.
LEMMA LaunchedKeptStep ==
    ASSUME IInv, [Next]_vars, NEW k \in Waits, NEW n \in Nat, Launched(<<k, n>>)
    PROVE  Launched(<<k, n>>)'
<1>0. n < try[k] \/ told[k] # "none" \/ (n = try[k] /\ spc[k] \in {"up", "wait"})
  BY DEF Launched, Over
<1>1. ASSUME NEW s \in Senders, Issue(s) PROVE Launched(<<k, n>>)'
  BY <1>1, <1>0 DEF IInv, Progress, Places, Locking, Launched, Over, Issue
<1>2. ASSUME NEW s \in Senders, AllocMgt(s) PROVE Launched(<<k, n>>)'
  BY <1>2, <1>0 DEF IInv, Progress, Places, Locking, Launched, Over, AllocMgt, Return
<1>3. ASSUME NEW s \in Senders, Dump(s) PROVE Launched(<<k, n>>)'
  BY <1>3, <1>0 DEF IInv, Progress, Places, Locking, Launched, Over, Dump, Return,
     FreeBuf
<1>4. ASSUME NEW s \in Senders, UpMgnt(s) PROVE Launched(<<k, n>>)'
  BY <1>4, <1>0 DEF IInv, Progress, Places, Locking, Launched, Over, UpMgnt, Return
<1>5. ASSUME NEW s \in Senders, WaitOver(s) PROVE Launched(<<k, n>>)'
  BY <1>5, <1>0 DEF IInv, Progress, Places, Locking, Launched, Over, WaitOver, Release,
     Return
<1>6. ASSUME NEW s \in Senders, WaitTimeout(s) PROVE Launched(<<k, n>>)'
  BY <1>6, <1>0 DEF IInv, Progress, Places, Locking, Launched, Over, WaitTimeout,
     Release, Return
<1>7. ASSUME NEW s \in Senders, LockAck(s) PROVE Launched(<<k, n>>)'
  BY <1>7, <1>0 DEF IInv, Progress, Places, Locking, Launched, Over, LockAck
<1>8. ASSUME NEW s \in Senders, InitSctx(s) PROVE Launched(<<k, n>>)'
  BY <1>8, <1>0 DEF IInv, Progress, Places, Locking, Launched, Over, InitSctx
<1>9. ASSUME NEW s \in Senders, PutMgnt(s) PROVE Launched(<<k, n>>)'
  BY <1>9, <1>0 DEF IInv, Progress, Places, Locking, Launched, Over, PutMgnt, Enqueue
<1>10. CASE UNCHANGED vars \/ NetXmit \/ FillDown \/ FillNext
  BY <1>10, <1>0 DEF IInv, Progress, Places, Locking, Launched, Over, vars, NetXmit,
     Packing, FillDown, FillNext
<1>11. CASE FillBusy \/ Fill \/ FillPut \/ FillUp
  BY <1>11, <1>0 DEF IInv, Progress, Places, Locking, Launched, Over, FillBusy, Retry,
     Fill, Pack, FillPut, Enqueue, FillUp
<1>12. CASE XmitDown \/ XmitCheck \/ XmitSelect \/ XmitTake
  BY <1>12, <1>0 DEF IInv, Progress, Places, Locking, Launched, Over, XmitDown,
     XmitCheck, XmitSelect, XmitTake, Take
<1>13. CASE XmitWrite \/ XmitDrop \/ XmitPutBack \/ XmitFree
  BY <1>13, <1>0 DEF IInv, Progress, Places, Locking, Launched, Over, XmitWrite,
     XmitDrop, XmitPutBack, EnqueueToHead, XmitFree, FreeBuf
<1>14. CASE (\E f \in chip : ChipSends(f)) \/ (\E f \in reports : Report(f)) \/
           SurveyHolds \/ SurveyLetsGo
  BY <1>14, <1>0 DEF IInv, Progress, Places, Locking, Launched, Over, ChipSends, Report,
     AckTxDone, SurveyHolds, SurveyLetsGo
<1>15. CASE Schedule \/ SetStopped \/ StopAck \/ JoinCmd
  BY <1>15, <1>0 DEF IInv, Progress, Places, Locking, Launched, Over, Schedule,
     SetStopped, StopAck, AckTxDone, JoinCmd
<1>16. CASE JoinXmit \/ JoinFill
  BY <1>16, <1>0 DEF IInv, Progress, Places, Locking, Launched, Over, JoinXmit, JoinFill
<1> QED
  BY <1>1, <1>2, <1>3, <1>4, <1>5, <1>6, <1>7, <1>8, <1>9, <1>10, <1>11, <1>12, <1>13,
     <1>14, <1>15, <1>16 DEF Next, Call, FillThread, XmitThread, Others, Begin, Stop

\* What is over, or has left the driver's hands, stays so.
LEMMA Kept ==
    ASSUME IInv, [Next]_vars, NEW f \in Numbered, f[1] \in Waits
    PROVE  (Over(f) => Over(f)') /\ (Launched(f) => Launched(f)')
<1>1. f = <<f[1], f[2]>> /\ f[1] \in Senders /\ f[2] \in Nat
  BY DEF Numbered
<1>2. PICK k, n : f = <<k, n>> /\ k \in Waits /\ k \in Senders /\ n \in Nat
  BY <1>1
<1>3. Over(<<k, n>>) => Over(<<k, n>>)'
  BY <1>2, OverKeptStep
<1>4. Launched(<<k, n>>) => Launched(<<k, n>>)'
  BY <1>2, LaunchedKeptStep
<1> QED
  BY <1>2, <1>3, <1>4

\* A frame leaves its sender's hand at the end of the pending queue.
LEMMA FromHandStep == ASSUME IInv, [Next]_vars PROVE FromHand'
<1>0. \A f \in Numbered : f[1] \in Waits /\ Launched(f) => Launched(f)'
  BY Kept
<1>1. ASSUME NEW s \in Senders, AllocMgt(s) PROVE FromHand'
  <2>1. CASE free \cap ExtBufs = {}
    <3>1. UNCHANGED <<load, sbuf>>
      BY <1>1, <2>1 DEF AllocMgt
    <3> QED
      BY <3>1, <1>0, LoadTypes DEF IInv, FromHand
  <2>2. CASE free \cap ExtBufs # {}
    <3> DEFINE a == Alloc(ExtBufs)
               q == <<<<s, try[s]>>>>
    <3>1. sbuf' = [sbuf EXCEPT ![s] = a] /\ sbuf[s] = Nothing
      BY <1>1, <2>2 DEF IInv, InHand, AllocMgt
    <3>2. load' = [load EXCEPT ![a] = q]
      BY <1>1, <2>2 DEF AllocMgt
    <3> HIDE DEF a, q
    <3> SUFFICES ASSUME NEW b \in Bufs, \A r \in Senders : sbuf'[r] # b,
                        NEW f \in ToSet(load'[b]), f[1] \in Waits
                 PROVE  Launched(f)'
      BY DEF FromHand
    <3>3. load'[b] = load[b] /\ \A r \in Senders : sbuf[r] # b
      BY <3>1, <3>2, Tags DEF IInv, InHand, Contents
    <3> QED
      BY <3>3, <1>0, LoadTypes DEF IInv, FromHand
  <2> QED
    BY <2>1, <2>2
<1>2. ASSUME NEW s \in Senders, Dump(s) PROVE FromHand'
  <2>1. CASE ~stopped
    <3>1. UNCHANGED <<load, sbuf>>
      BY <1>2, <2>1 DEF Dump
    <3> QED
      BY <3>1, <1>0, LoadTypes DEF IInv, FromHand
  <2>2. CASE stopped
    <3>1. load' = [load EXCEPT ![sbuf[s]] = <<>>] /\ sbuf' = [sbuf EXCEPT ![s] = Nothing]
      BY <1>2, <2>2 DEF Dump, FreeBuf
    <3> SUFFICES ASSUME NEW b \in Bufs, \A r \in Senders : sbuf'[r] # b,
                        NEW f \in ToSet(load'[b]), f[1] \in Waits
                 PROVE  Launched(f)'
      BY DEF FromHand
    <3>2. b # sbuf[s] /\ load'[b] = load[b] /\ \A r \in Senders : sbuf[r] # b
      BY <3>1, Empty DEF IInv, InHand, Contents
    <3> QED
      BY <3>2, <1>0, LoadTypes DEF IInv, FromHand
  <2> QED
    BY <2>1, <2>2
<1>3. ASSUME NEW s \in Senders, PutMgnt(s) PROVE FromHand'
  <2>1. sbuf' = [sbuf EXCEPT ![s] = Nothing] /\ UNCHANGED <<load, try>> /\ spc'[s] = "up"
    BY <1>3 DEF IInv, Places, PutMgnt
  <2> SUFFICES ASSUME NEW b \in Bufs, \A r \in Senders : sbuf'[r] # b,
                      NEW f \in ToSet(load'[b]), f[1] \in Waits
               PROVE  Launched(f)'
    BY DEF FromHand
  <2>2. CASE b = sbuf[s]
    <3>1. f = <<s, try[s]>>
      BY <2>1, <2>2, Tags DEF IInv, Contents
    <3> QED
      BY <2>1, <3>1 DEF Launched
  <2>3. CASE b # sbuf[s]
    <3>1. load'[b] = load[b] /\ \A r \in Senders : sbuf[r] # b
      BY <2>1, <2>3 DEF IInv, InHand
    <3> QED
      BY <3>1, <1>0, LoadTypes DEF IInv, FromHand
  <2> QED
    BY <2>2, <2>3
<1>4. CASE Fill
  <2>1. UNCHANGED sbuf
    BY <1>4 DEF Fill
  <2>2. CASE UNCHANGED load
    BY <2>1, <2>2, <1>0, LoadTypes DEF IInv, FromHand
  <2>3. ASSUME NEW c \in free \cap DataBufs, NEW q \in Seq(Numbered),
               load' = [load EXCEPT ![c] = q], \A i \in DOMAIN q : q[i][1] = Net,
               NEW b \in Bufs, \A r \in Senders : sbuf'[r] # b,
               NEW f \in ToSet(load'[b]), f[1] \in Waits
        PROVE  Launched(f)'
    <3>1. CASE b = c
      <4>1. load'[b] = q
        BY <2>3, <3>1 DEF IInv, Contents, Bufs
      <4> QED
        BY <2>3, <4>1 DEF ToSet
    <3>2. CASE b # c
      BY <2>1, <2>3, <3>2, <1>0, LoadTypes DEF IInv, FromHand, Contents
    <3> QED
      BY <3>1, <3>2
  <2> QED
    BY <1>4, <2>2, <2>3, Filled DEF FromHand
<1>5. CASE XmitFree
  <2>1. load' = [load EXCEPT ![xbuf] = <<>>] /\ UNCHANGED sbuf
    BY <1>5 DEF XmitFree, FreeBuf
  <2> SUFFICES ASSUME NEW b \in Bufs, \A r \in Senders : sbuf'[r] # b,
                      NEW f \in ToSet(load'[b]), f[1] \in Waits
               PROVE  Launched(f)'
    BY DEF FromHand
  <2>2. load'[b] = load[b]
    BY <2>1, Empty DEF IInv, Contents
  <2> QED
    BY <2>1, <2>2, <1>0, LoadTypes DEF IInv, FromHand
<1>6. CASE UNCHANGED vars \/ (\E s \in Senders : Issue(s)) \/ (\E s \in Senders :
           LockAck(s)) \/ (\E s \in Senders : InitSctx(s))
  BY <1>6, <1>0, LoadTypes DEF IInv, FromHand, vars, Issue, LockAck, InitSctx
<1>7. CASE (\E s \in Senders : UpMgnt(s)) \/ (\E s \in Senders : WaitOver(s)) \/ (\E s
           \in Senders : WaitTimeout(s)) \/ NetXmit
  BY <1>7, <1>0, LoadTypes DEF IInv, FromHand, UpMgnt, Return, WaitOver, Release,
     WaitTimeout, NetXmit, Packing
<1>8. CASE FillDown \/ FillNext \/ FillBusy \/ FillPut
  BY <1>8, <1>0, LoadTypes DEF IInv, FromHand, FillDown, FillNext, FillBusy, Retry,
     FillPut, Enqueue
<1>9. CASE FillUp \/ XmitDown \/ XmitCheck \/ XmitSelect
  BY <1>9, <1>0, LoadTypes DEF IInv, FromHand, FillUp, XmitDown, XmitCheck, XmitSelect
<1>10. CASE XmitTake \/ XmitWrite \/ XmitDrop \/ XmitPutBack
  BY <1>10, <1>0, LoadTypes DEF IInv, FromHand, XmitTake, Take, XmitWrite, XmitDrop,
     XmitPutBack, EnqueueToHead
<1>11. CASE (\E f \in chip : ChipSends(f)) \/ (\E f \in reports : Report(f)) \/
           SurveyHolds \/ SurveyLetsGo
  BY <1>11, <1>0, LoadTypes DEF IInv, FromHand, ChipSends, Report, AckTxDone,
     SurveyHolds, SurveyLetsGo
<1>12. CASE Schedule \/ SetStopped \/ StopAck \/ JoinCmd
  BY <1>12, <1>0, LoadTypes DEF IInv, FromHand, Schedule, SetStopped, StopAck,
     AckTxDone, JoinCmd
<1>13. CASE JoinXmit \/ JoinFill
  BY <1>13, <1>0, LoadTypes DEF IInv, FromHand, JoinXmit, JoinFill
<1> QED
  BY <1>1, <1>2, <1>3, <1>4, <1>5, <1>6, <1>7, <1>8, <1>9, <1>10, <1>11, <1>12, <1>13
     DEF Next, Call, FillThread, XmitThread, Others, Begin, Stop

\* A frame enters the chip from a buffer in nobody's hand.
LEMMA FromDriverStep == ASSUME IInv, [Next]_vars PROVE FromDriver'
<1>0. \A f \in Numbered : f[1] \in Waits /\ Launched(f) => Launched(f)'
  BY Kept
<1>1. CASE XmitWrite
  <2>1. xbuf \in Bufs /\ \A s \in Senders : sbuf[s] # xbuf
    BY <1>1 DEF IInv, InHand, OneOwner, NothingShared, XmitWrite
  <2>2. ToSet(load[xbuf]) \subseteq Numbered
    BY <2>1, LoadTypes
  <2>3. \A f \in ToSet(load[xbuf]) : f[1] \in Waits => Launched(f)
    BY <2>1 DEF IInv, FromHand
  <2>4. chip' = chip \cup ToSet(load[xbuf]) /\ UNCHANGED <<reports, acked>>
    BY <1>1 DEF XmitWrite
  <2> QED
    BY <2>2, <2>3, <2>4, <1>0 DEF IInv, FromDriver
<1>2. ASSUME NEW f \in chip, ChipSends(f) PROVE FromDriver'
  BY <1>2, <1>0 DEF IInv, FromDriver, ChipSends
<1>3. ASSUME NEW f \in reports, Report(f) PROVE FromDriver'
  BY <1>3, <1>0 DEF IInv, FromDriver, Report, AckTxDone
<1>4. CASE JoinFill
  BY <1>4, <1>0 DEF IInv, FromDriver, JoinFill
<1>5. CASE UNCHANGED vars \/ (\E s \in Senders : Issue(s)) \/ (\E s \in Senders :
           AllocMgt(s)) \/ (\E s \in Senders : Dump(s))
  BY <1>5, <1>0 DEF IInv, FromDriver, vars, Issue, AllocMgt, Return, Dump, FreeBuf
<1>6. CASE (\E s \in Senders : LockAck(s)) \/ (\E s \in Senders : InitSctx(s)) \/ (\E s
           \in Senders : PutMgnt(s)) \/ (\E s \in Senders : UpMgnt(s))
  BY <1>6, <1>0 DEF IInv, FromDriver, LockAck, InitSctx, PutMgnt, Enqueue, UpMgnt,
     Return
<1>7. CASE (\E s \in Senders : WaitOver(s)) \/ (\E s \in Senders : WaitTimeout(s)) \/
           NetXmit \/ FillDown
  BY <1>7, <1>0 DEF IInv, FromDriver, WaitOver, Release, Return, WaitTimeout, NetXmit,
     Packing, FillDown
<1>8. CASE FillNext \/ FillBusy \/ Fill \/ FillPut
  BY <1>8, <1>0 DEF IInv, FromDriver, FillNext, FillBusy, Retry, Fill, Pack, FillPut,
     Enqueue
<1>9. CASE FillUp \/ XmitDown \/ XmitCheck \/ XmitSelect
  BY <1>9, <1>0 DEF IInv, FromDriver, FillUp, XmitDown, XmitCheck, XmitSelect
<1>10. CASE XmitTake \/ XmitDrop \/ XmitPutBack \/ XmitFree
  BY <1>10, <1>0 DEF IInv, FromDriver, XmitTake, Take, XmitDrop, XmitPutBack,
     EnqueueToHead, XmitFree, FreeBuf
<1>11. CASE SurveyHolds \/ SurveyLetsGo \/ Schedule \/ SetStopped
  BY <1>11, <1>0 DEF IInv, FromDriver, SurveyHolds, SurveyLetsGo, Schedule, SetStopped
<1>12. CASE StopAck \/ JoinCmd \/ JoinXmit
  BY <1>12, <1>0 DEF IInv, FromDriver, StopAck, AckTxDone, JoinCmd, JoinXmit
<1> QED
  BY <1>1, <1>2, <1>3, <1>4, <1>5, <1>6, <1>7, <1>8, <1>9, <1>10, <1>11, <1>12 DEF Next,
     Call, FillThread, XmitThread, Others, Begin, Stop

\* What is acknowledged stays acknowledged.
LEMMA AckedKeptStep == ASSUME IInv, [Next]_vars PROVE acked \subseteq acked'
<1>1. CASE UNCHANGED vars \/ (\E s \in Senders : Issue(s)) \/ (\E s \in Senders :
           AllocMgt(s)) \/ (\E s \in Senders : Dump(s))
  BY <1>1 DEF vars, Issue, AllocMgt, Return, Dump, FreeBuf
<1>2. CASE (\E s \in Senders : LockAck(s)) \/ (\E s \in Senders : InitSctx(s)) \/ (\E s
           \in Senders : PutMgnt(s)) \/ (\E s \in Senders : UpMgnt(s))
  BY <1>2 DEF LockAck, InitSctx, PutMgnt, Enqueue, UpMgnt, Return
<1>3. CASE (\E s \in Senders : WaitOver(s)) \/ (\E s \in Senders : WaitTimeout(s)) \/
           NetXmit \/ FillDown
  BY <1>3 DEF WaitOver, Release, Return, WaitTimeout, NetXmit, Packing, FillDown
<1>4. CASE FillNext \/ FillBusy \/ Fill \/ FillPut
  BY <1>4 DEF FillNext, FillBusy, Retry, Fill, Pack, FillPut, Enqueue
<1>5. CASE FillUp \/ XmitDown \/ XmitCheck \/ XmitSelect
  BY <1>5 DEF FillUp, XmitDown, XmitCheck, XmitSelect
<1>6. CASE XmitTake \/ XmitWrite \/ XmitDrop \/ XmitPutBack
  BY <1>6 DEF XmitTake, Take, XmitWrite, XmitDrop, XmitPutBack, EnqueueToHead
<1>7. CASE XmitFree \/ (\E f \in chip : ChipSends(f)) \/ (\E f \in reports : Report(f))
           \/ SurveyHolds
  BY <1>7 DEF XmitFree, FreeBuf, ChipSends, Report, AckTxDone, SurveyHolds
<1>8. CASE SurveyLetsGo \/ Schedule \/ SetStopped \/ StopAck
  BY <1>8 DEF SurveyLetsGo, Schedule, SetStopped, StopAck, AckTxDone
<1>9. CASE JoinCmd \/ JoinXmit \/ JoinFill
  BY <1>9 DEF JoinCmd, JoinXmit, JoinFill
<1> QED
  BY <1>1, <1>2, <1>3, <1>4, <1>5, <1>6, <1>7, <1>8, <1>9 DEF Next, Call, FillThread,
     XmitThread, Others, Begin, Stop

\* A report that completes a wait is for the waiter or for somebody who gave up.
LEMMA AnswersStep == ASSUME IInv, [Next]_vars PROVE Answers'
<1>0. \A s \in Senders : Credit(s) /\ credit'[s] = credit[s] => Credit(s)'
  <2>1. \A f \in acked : f \in acked' /\ f \in Numbered /\ f[1] \in Waits
    BY AckedKeptStep DEF IInv, FromDriver
  <2>2. \A f \in acked : Over(f) => Over(f)'
    BY <2>1, Kept
  <2> QED
    BY <2>1, <2>2 DEF Credit
<1>1. ASSUME NEW s \in Senders, InitSctx(s) PROVE Answers'
  BY <1>1, <1>0 DEF IInv, Answers, InitSctx
<1>2. ASSUME NEW s \in Senders, LockAck(s) PROVE Answers'
  <2>1. /\ UNCHANGED credit /\ spc'[s] = "init" /\ mutex' = s
    BY <1>2 DEF IInv, Places, LockAck
  <2> QED
    BY <2>1 DEF IInv, Answers
<1>3. ASSUME NEW s \in Senders, PutMgnt(s) PROVE Answers'
  <2>1. /\ UNCHANGED <<credit, mutex, done, status>> /\ spc[s] = "put"
        /\ \A r \in Senders : r # s => spc'[r] = spc[r]
    BY <1>3 DEF IInv, Places, PutMgnt
  <2> QED
    BY <2>1, <1>0 DEF IInv, Answers
<1>4. ASSUME NEW s \in Senders, UpMgnt(s) PROVE Answers'
  <2>1. /\ UNCHANGED <<credit, mutex, done, status>> /\ spc[s] = "up"
        /\ \A r \in Senders : r # s => spc'[r] = spc[r]
    BY <1>4 DEF IInv, Places, UpMgnt, Return
  <2> QED
    BY <2>1, <1>0 DEF IInv, Answers
<1>5. ASSUME NEW s \in Senders, Issue(s) PROVE Answers'
  <2>1. /\ UNCHANGED <<credit, mutex, done, status>> /\ spc'[s] = "alloc"
        /\ \A r \in Senders : r # s => spc'[r] = spc[r]
    BY <1>5 DEF IInv, Places, Issue
  <2> QED
    BY <2>1, <1>0 DEF IInv, Answers
<1>6. ASSUME NEW s \in Senders, AllocMgt(s) PROVE Answers'
  <2>1. /\ UNCHANGED <<credit, mutex, done, status>>
        /\ spc'[s] \in {"alloc", "idle", "dump"}
        /\ \A r \in Senders : r # s => spc'[r] = spc[r]
    BY <1>6 DEF IInv, Places, AllocMgt, Return
  <2> QED
    BY <2>1, <1>0 DEF IInv, Answers
<1>7. ASSUME NEW s \in Senders, Dump(s) PROVE Answers'
  <2>1. /\ UNCHANGED <<credit, mutex, done, status>> /\ spc[s] = "dump"
        /\ \A r \in Senders : r # s => spc'[r] = spc[r]
    BY <1>7 DEF IInv, Places, Dump, Return
  <2>2. s \in Waits => spc'[s] \in {"alloc", "idle", "lock"}
    BY <1>7 DEF IInv, Places, Dump, Return
  <2>3. mutex = s => s \in Waits
    BY DEF IInv, Locking
  <2> QED
    BY <2>1, <2>2, <2>3, <1>0 DEF IInv, Answers
<1>8. ASSUME NEW s \in Senders, WaitOver(s) PROVE Answers'
  BY <1>8 DEF IInv, Answers, WaitOver, Release
<1>9. ASSUME NEW s \in Senders, WaitTimeout(s) PROVE Answers'
  BY <1>9 DEF IInv, Answers, WaitTimeout, Release
<1>10. ASSUME NEW f \in reports, Report(f) PROVE Answers'
  <2>1. UNCHANGED <<spc, mutex, acked>> /\ f \in reports /\ f \in Numbered /\ f[1] \in Waits
    BY <1>10 DEF IInv, FromDriver, Report
  <2>2. CASE ~ack_tx
    BY <1>10, <2>1, <2>2, <1>0 DEF IInv, Answers, Report, AckTxDone
  <2>3. CASE ack_tx
    <3>1. /\ credit' = [credit EXCEPT ![mutex] = f] /\ mutex \in Senders
          /\ status' = (IF f \in acked THEN "success" ELSE "pkt_fail")
      BY <1>10, <2>3 DEF IInv, Locking, Report, AckTxDone
    <3>2. credit' \in [Senders -> Numbered \cup {Nothing}] /\ credit'[mutex] = f
      BY <2>1, <3>1 DEF IInv, Answers
    <3>3. Over(f)' \/ f[1] = mutex
      BY <2>1, Kept DEF IInv, FromDriver, Launched, Locking
    <3>4. status' = "success" => f \in acked'
      BY <2>1, <3>1
    <3> QED
      BY <2>1, <3>1, <3>2, <3>3, <3>4 DEF Answers, Credit
  <2> QED
    BY <2>2, <2>3
<1>11. CASE Fill
  <2>1. UNCHANGED <<spc, mutex, credit, done, status>>
    BY <1>11 DEF Fill
  <2> QED
    BY <2>1, <1>0 DEF IInv, Answers
<1>12. CASE StopAck
  <2>1. UNCHANGED <<spc, mutex, credit>> /\ (UNCHANGED <<done, status>> \/ status' = "drv_stop")
    BY <1>12 DEF StopAck, AckTxDone
  <2> QED
    BY <2>1, <1>0 DEF IInv, Answers
<1>13. CASE UNCHANGED vars \/ NetXmit \/ FillDown \/ FillNext
  BY <1>13, <1>0 DEF IInv, Answers, vars, NetXmit, Packing, FillDown, FillNext
<1>14. CASE FillBusy \/ FillPut \/ FillUp \/ XmitDown
  BY <1>14, <1>0 DEF IInv, Answers, FillBusy, Retry, FillPut, Enqueue, FillUp, XmitDown
<1>15. CASE XmitCheck \/ XmitSelect \/ XmitTake \/ XmitWrite
  BY <1>15, <1>0 DEF IInv, Answers, XmitCheck, XmitSelect, XmitTake, Take, XmitWrite
<1>16. CASE XmitDrop \/ XmitPutBack \/ XmitFree \/ (\E f \in chip : ChipSends(f))
  BY <1>16, <1>0 DEF IInv, Answers, XmitDrop, XmitPutBack, EnqueueToHead, XmitFree,
     FreeBuf, ChipSends
<1>17. CASE SurveyHolds \/ SurveyLetsGo \/ Schedule \/ SetStopped
  BY <1>17, <1>0 DEF IInv, Answers, SurveyHolds, SurveyLetsGo, Schedule, SetStopped
<1>18. CASE JoinCmd \/ JoinXmit \/ JoinFill
  BY <1>18, <1>0 DEF IInv, Answers, JoinCmd, JoinXmit, JoinFill
<1> QED
  BY <1>1, <1>2, <1>3, <1>4, <1>5, <1>6, <1>7, <1>8, <1>9, <1>10, <1>11, <1>12, <1>13,
     <1>14, <1>15, <1>16, <1>17, <1>18 DEF Next, Call, FillThread, XmitThread, Others,
     Begin, Stop

\* A waiting sender is told success at the end of a wait.
LEMMA SuccessHasItsReportStep == ASSUME IInv, [Next]_vars PROVE SuccessHasItsReport'
<1>0. \A s \in Senders : Credit(s) /\ credit'[s] = credit[s] => Credit(s)'
  <2>1. \A f \in acked : f \in acked' /\ f \in Numbered /\ f[1] \in Waits
    BY AckedKeptStep DEF IInv, FromDriver
  <2>2. \A f \in acked : Over(f) => Over(f)'
    BY <2>1, Kept
  <2> QED
    BY <2>1, <2>2 DEF Credit
<1>1. ASSUME NEW s \in Senders, Issue(s) PROVE SuccessHasItsReport'
  BY <1>1, <1>0 DEF IInv, SuccessHasItsReport, Acknowledged, Credit, Issue
<1>2. ASSUME NEW s \in Senders, AllocMgt(s) PROVE SuccessHasItsReport'
  <2>1. UNCHANGED <<credit, stopped>> /\ \A r \in Senders : told'[r] = told[r] \/ told'[r] = "fail"
    BY <1>2 DEF IInv, Progress, AllocMgt, Return
  <2> QED
    BY <2>1, <1>0 DEF IInv, SuccessHasItsReport, Acknowledged, Credit
<1>3. ASSUME NEW s \in Senders, Dump(s) PROVE SuccessHasItsReport'
  <2>1. UNCHANGED <<credit, stopped>> /\ (~stopped => UNCHANGED told)
    BY <1>3 DEF Dump
  <2> QED
    BY <2>1, <1>0 DEF IInv, SuccessHasItsReport, Acknowledged, Credit
<1>4. ASSUME NEW s \in Senders, UpMgnt(s) PROVE SuccessHasItsReport'
  <2>1. UNCHANGED <<credit, stopped>> /\ \A r \in Waits : told'[r] = told[r]
    BY <1>4 DEF IInv, Progress, UpMgnt, Return
  <2> QED
    BY <2>1, <1>0 DEF IInv, SuccessHasItsReport, Acknowledged, Credit
<1>5. ASSUME NEW s \in Senders, WaitOver(s) PROVE SuccessHasItsReport'
  <2>1. /\ UNCHANGED <<credit, stopped>> /\ spc[s] = "wait" /\ done
        /\ \A r \in Senders : r # s => told'[r] = told[r]
        /\ told'[s] = "success" => told[s] = "success" \/ status = "success"
    BY <1>5 DEF IInv, Progress, WaitOver, Release, Return
  <2>2. mutex = s
    BY <2>1 DEF IInv, Locking
  <2>3. told'[s] = "success" => Credit(s)'
    BY <2>1, <2>2, <1>0 DEF IInv, Answers, Progress
  <2> QED
    BY <2>1, <2>3, <1>0 DEF IInv, SuccessHasItsReport, Acknowledged, Credit
<1>6. ASSUME NEW s \in Senders, WaitTimeout(s) PROVE SuccessHasItsReport'
  <2>1. UNCHANGED <<credit, stopped>> /\ \A r \in Senders : told'[r] = told[r] \/ told'[r] = "fail"
    BY <1>6 DEF IInv, Progress, WaitTimeout, Release, Return
  <2> QED
    BY <2>1, <1>0 DEF IInv, SuccessHasItsReport, Acknowledged, Credit
<1>7. ASSUME NEW f \in reports, Report(f) PROVE SuccessHasItsReport'
  <2>1. UNCHANGED <<told, stopped>>
    BY <1>7 DEF Report
  <2>2. ASSUME NEW r \in Senders, told[r] = "success", r \in Waits PROVE credit'[r] = credit[r]
    <3>1. mutex # r
      BY <2>2 DEF IInv, Locking, Progress
    <3> QED
      BY <1>7, <3>1 DEF IInv, Answers, Report
  <2> QED
    BY <2>1, <2>2, <1>0 DEF IInv, SuccessHasItsReport, Acknowledged, Credit
<1>8. CASE Fill
  <2>1. UNCHANGED <<told, stopped, credit>>
    BY <1>8 DEF Fill
  <2> QED
    BY <2>1, <1>0 DEF IInv, SuccessHasItsReport, Acknowledged, Credit
<1>9. CASE UNCHANGED vars \/ (\E s \in Senders : LockAck(s)) \/ (\E s \in Senders :
           InitSctx(s)) \/ (\E s \in Senders : PutMgnt(s))
  BY <1>9, <1>0 DEF IInv, SuccessHasItsReport, Acknowledged, Credit, vars, LockAck,
     InitSctx, PutMgnt, Enqueue
<1>10. CASE NetXmit \/ FillDown \/ FillNext \/ FillBusy
  BY <1>10, <1>0 DEF IInv, SuccessHasItsReport, Acknowledged, Credit, NetXmit, Packing,
     FillDown, FillNext, FillBusy, Retry
<1>11. CASE FillPut \/ FillUp \/ XmitDown \/ XmitCheck
  BY <1>11, <1>0 DEF IInv, SuccessHasItsReport, Acknowledged, Credit, FillPut, Enqueue,
     FillUp, XmitDown, XmitCheck
<1>12. CASE XmitSelect \/ XmitTake \/ XmitWrite \/ XmitDrop
  BY <1>12, <1>0 DEF IInv, SuccessHasItsReport, Acknowledged, Credit, XmitSelect,
     XmitTake, Take, XmitWrite, XmitDrop
<1>13. CASE XmitPutBack \/ XmitFree \/ (\E f \in chip : ChipSends(f)) \/ SurveyHolds
  BY <1>13, <1>0 DEF IInv, SuccessHasItsReport, Acknowledged, Credit, XmitPutBack,
     EnqueueToHead, XmitFree, FreeBuf, ChipSends, SurveyHolds
<1>14. CASE SurveyLetsGo \/ Schedule \/ SetStopped \/ StopAck
  BY <1>14, <1>0 DEF IInv, SuccessHasItsReport, Acknowledged, Credit, SurveyLetsGo,
     Schedule, SetStopped, StopAck, AckTxDone
<1>15. CASE JoinCmd \/ JoinXmit \/ JoinFill
  BY <1>15, <1>0 DEF IInv, SuccessHasItsReport, Acknowledged, Credit, JoinCmd, JoinXmit,
     JoinFill
<1> QED
  BY <1>1, <1>2, <1>3, <1>4, <1>5, <1>6, <1>7, <1>8, <1>9, <1>10, <1>11, <1>12, <1>13,
     <1>14, <1>15 DEF Next, Call, FillThread, XmitThread, Others, Begin, Stop
-----------------------------------------------------------------------------
LEMMA InvStep == ASSUME IInv, [Next]_vars PROVE IInv'
<1>1. Places' /\ InHand' /\ OneOwner' /\ Wakeups'
  BY PlacesStep, InHandStep, OneOwnerStep, WakeupsStep
<1>2. Progress' /\ Locking' /\ Contents' /\ FromHand' /\ FromDriver'
  BY ProgressStep, LockingStep, ContentsStep, FromHandStep, FromDriverStep
<1>3. Answers' /\ SuccessHasItsReport'
  BY AnswersStep, SuccessHasItsReportStep
<1> QED
  BY <1>1, <1>2, <1>3 DEF IInv

\* The inductive invariant holds in every reachable state.
THEOREM Invariance == Spec => []IInv
BY InitInv, InvStep, PTL DEF Spec

\* Every xmit_buf is in exactly one place, whatever rtw_alloc_xmitbuf_ext,
\* rtw_free_xmitbuf, the put-back of dequeue_writeport and the stop interleave to.
THEOREM BufferOwnership == Spec => []OneOwner
<1>1. IInv => OneOwner
  BY DEF IInv
<1> QED
  BY <1>1, Invariance, PTL

\* Neither transmit thread sleeps on its semaphore over something it might send,
\* though select_and_dequeue_pending_xmitbuf reads the scan state before it locks
\* the pending queue and rtw_os_xmit_schedule runs after the survey let go.
THEOREM WakeupSafety == Spec => []NoLostWakeup
<1>1. IInv => NoLostWakeup
  <2> SUFFICES ASSUME IInv PROVE NoLostWakeup
    OBVIOUS
  <2>1. survey \/ ~survey
    OBVIOUS
  <2>2. Passing # {} => pending # <<>>
    BY DEF Passing
  <2> QED
    BY <2>1, <2>2 DEF IInv, Wakeups, NoLostWakeup, SomebodyWakes
<1> QED
  BY <1>1, Invariance, PTL

\* dump_mgntframe_and_wait_ack_timeout tells success only after c2h_ccx_rpt has
\* seen a good report, of the caller's own frame or of one whose sender gave up.
THEOREM ReportSafety == Spec => []SuccessHasItsReport
<1>1. IInv => SuccessHasItsReport
  BY DEF IInv
<1> QED
  BY <1>1, Invariance, PTL

\* A waiting sender that is told success had a frame acknowledged, as the log of
\* issue_nulldata says, if no other sender waits for a report: the confusion of
\* c2h_ccx_rpt, which does not compare sequence numbers, takes two.
THEOREM LoneWaiterAcked ==
    ASSUME \A s, r \in Waits : s = r PROVE Spec => []SuccessMeansAcked
<1>1. IInv => SuccessMeansAcked
  <2> SUFFICES ASSUME IInv, NEW s \in Senders, Acknowledged(s), ~stopped
               PROVE  \E f \in acked : f[1] = s
    BY DEF SuccessMeansAcked
  <2>1. credit[s] \in acked
    BY DEF IInv, SuccessHasItsReport
  <2>2. credit[s][1] \in Waits /\ s \in Waits
    BY <2>1 DEF IInv, FromDriver, Acknowledged
  <2> QED
    BY <2>1, <2>2
<1> QED
  BY <1>1, Invariance, PTL
=============================================================================
