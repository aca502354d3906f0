------------------------ MODULE ReorderBufferProofs ------------------------
(***************************************************************************)
(* What the promise of the receive reordering gives the network stack, for *)
(* every stream of frames.                                                 *)
(***************************************************************************)
EXTENDS ReorderBuffer, TLAPS

LEMMA TypeStep == TypeOK /\ [Next]_vars => TypeOK'
BY DEF TypeOK, Next, Buffer, Indicate, vars

LEMMA OrderStep ==
    ASSUME Frames \subseteq Nat, TypeOK, InOrder, [Next]_vars
    PROVE  InOrder'
<1>1. ASSUME NEW n \in Frames, Buffer(n) PROVE InOrder'
  BY <1>1 DEF InOrder, Buffer, After
<1>2. ASSUME NEW n \in Frames, Indicate(n) PROVE InOrder'
  <2>1. /\ out' \in Seq(Frames) /\ Len(out') = Len(out) + 1
        /\ out'[Len(out) + 1] = n
        /\ \A i \in 1 .. Len(out) : out'[i] = out[i]
    BY <1>2 DEF Indicate, TypeOK
  <2>2. DOMAIN out = 1 .. Len(out) /\ DOMAIN out' = 1 .. Len(out) + 1
    BY <2>1 DEF TypeOK
  <2>3. \A i \in 1 .. Len(out) : out[i] < n
    BY <1>2, <2>2 DEF Indicate, InOrder, After
  <2>4. ASSUME NEW i \in DOMAIN out', NEW j \in DOMAIN out', i < j
        PROVE  out'[i] < out'[j]
    <3>1. CASE j = Len(out) + 1
      BY <2>1, <2>2, <2>3, <2>4, <3>1 DEF TypeOK
    <3>2. CASE j # Len(out) + 1
      BY <2>1, <2>2, <2>4, <3>2 DEF InOrder, TypeOK
    <3> QED BY <3>1, <3>2
  <2>5. ASSUME NEW m \in buf' PROVE After(m)'
    <3>1. m \in buf /\ m # n /\ m \in Nat /\ n \in Nat /\ n <= m
      BY <1>2, <2>5 DEF Indicate, TypeOK
    <3>2. \A i \in 1 .. Len(out) : out[i] < m
      BY <2>2, <3>1 DEF InOrder, After
    <3> QED BY <2>1, <2>2, <3>1, <3>2 DEF After
  <2> QED BY <2>4, <2>5 DEF InOrder
<1>3. CASE UNCHANGED vars
  BY <1>3 DEF InOrder, After, vars
<1> QED BY <1>1, <1>2, <1>3 DEF Next

\* The stack receives the stream in order, each frame at most once, and a
\* frame that is still buffered has not been overtaken.
THEOREM InOrderDelivery == ASSUME Frames \subseteq Nat PROVE Spec => []InOrder
<1>1. Init => TypeOK /\ InOrder
  BY DEF Init, TypeOK, InOrder
<1>2. TypeOK /\ InOrder /\ [Next]_vars => TypeOK' /\ InOrder'
  BY TypeStep, OrderStep
<1> QED BY <1>1, <1>2, PTL DEF Spec
=============================================================================
