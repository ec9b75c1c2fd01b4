------------------------- MODULE UartReceive_proofs -------------------------
(***************************************************************************)
(* Theorems about the receiver and uart_in, for any frame, baud rate, FIFO *)
(* and gap between frames or none, any phase of the baud counter and any   *)
(* clock of the sender within the tolerance; and about the FIFO itself, at *)
(* every depth and for every set of data. The receiver's rx_fifo is the    *)
(* queue that prim_fifo_sync is shown to implement.                        *)
(***************************************************************************)
EXTENDS UartReceive, PrimFifoSync, SequenceTheorems, TLAPS

-----------------------------------------------------------------------------
(* The inductive invariant.                                                *)

C == ClocksPerBaud
Half == C \div 2

\* The level of a signal s cycles after it began, and how long it takes.
LevelAt(sig, s) ==
  IF sig.kind = "glitch" THEN IF s <= GlitchCycles THEN 0 ELSE 1
  ELSE LET slot == (s - 1) \div sig.clocks
       IN IF slot = 0 \/ (sig.kind = "bad_stop" /\ slot = NumBits + 1) THEN 0
          ELSE IF slot \in 1 .. NumBits THEN sig.byte[slot] ELSE 1
Rest(sig) == IF sig.kind = "bad_stop" /\ MinGap = 0 THEN 1 ELSE MinGap
Length(sig) == (IF sig.kind = "glitch" THEN 1 ELSE NumBits + 2) * sig.clocks + Rest(sig)

\* Cycles to the next tick, and what the receiver will sample then if the tick is near.
Left == C - 1 - rx_baud_counter_q
Next3 == IF Left = 0 THEN rx_q[3] ELSE IF Left = 1 THEN rx_q[2] ELSE rx_q[1]

\* The synchroniser delays the line; what it still holds of the signal before only rises.
SyncInv ==
  /\ t > 1 => rx_q[1] = LevelAt(signal, t - 1)
  /\ t > 2 => rx_q[2] = LevelAt(signal, t - 2)
  /\ t > 3 => rx_q[3] = LevelAt(signal, t - 3)
  /\ t = 0 => rx_q[2] <= rx_q[1] /\ rx_q[3] <= rx_q[2]
  /\ t = 1 => rx_q[1] = 1 /\ rx_q[3] <= rx_q[2]
  /\ t = 2 => rx_q[2] = 1
  /\ t = 3 => rx_q[3] = 1
  /\ t <= Length(signal)

\* The bit of the frame the receiver is in, and the cycles it is ahead of the line's bits.
Slot == IF rx_state_q = "START" THEN 0 ELSE IF rx_state_q = "PROC" THEN rx_bit_counter_q + 1 ELSE NumBits + 1
At(c, slot, b) == slot * c + b
Offset == IF coincided THEN 0 ELSE Half

\* In step with the signal on the line, which it has seen for a cycle or more ...
InStep ==
  /\ t + Offset = 4 + At(C, Slot, rx_baud_counter_q)
  /\ coincided => C <= signal.clocks
  /\ signal.kind = "glitch" => rx_state_q = "START"
  /\ rx_state_q = "PROC" =>
       \A i \in 1 .. rx_bit_counter_q : rx_current_byte_q[NumBits - rx_bit_counter_q + i] = signal.byte[i]
  /\ rx_state_q = "STOP" => rx_current_byte_q = signal.byte

\* ... or at the end of the one before.
Closing ==
  /\ rx_state_q \in {"START", "STOP"} /\ Left <= 2 /\ t # 3
  /\ t # 0 => Left <= 1
  /\ t = 2 => Left = 0
  /\ rx_state_q = "START" => Next3 = 1

\* Out of a frame: the line does not fall before the next signal.
Passed == t - 3 > IF signal.kind = "glitch" THEN GlitchCycles ELSE At(signal.clocks, NumBits + 1, 0)

PhaseInv ==
  IF rx_state_q = "IDLE" THEN t > 3 => Passed
  ELSE IF t > 3 THEN InStep ELSE Closing

\* The sound bytes that have not arrived: the one before, and the one on the line.
Before == IF t <= 3 /\ rx_state_q = "STOP" /\ Next3 = 1 THEN <<rx_current_byte_q>> ELSE << >>
Current ==
  IF signal.kind = "frame" /\ (t \in 1 .. 3 \/ (t > 3 /\ rx_state_q # "IDLE")) THEN <<signal.byte>> ELSE << >>
OrderInv == sent = arrived \o Before \o Current

\* uart_in fetches only a byte that is there.
FetchInv ==
  /\ pc = "fetch" => rx_fifo # << >>
  /\ pc # "take" => res = << >>

LineInv == TypeOK /\ SyncInv /\ (slipped \/ (PhaseInv /\ OrderInv)) /\ FetchInv /\ ReadOnceInOrder

-----------------------------------------------------------------------------
(* Slots and levels.                                                       *)

LEMMA Numbers ==
  /\ C \in Nat /\ C >= 4 /\ Half \in Nat /\ 1 <= Half /\ Half + Half <= C
  /\ NumBits \in Nat /\ NumBits >= 1 /\ RxFifoDepth \in Nat /\ RxFifoDepth >= 1
  /\ MinGap \in Nat /\ MaxFrames \in Nat
  /\ GlitchCycles \in Nat /\ GlitchCycles >= 1 /\ GlitchCycles < C - Half
<1>1. /\ C \in Nat \ {0, 1} /\ C > 3 /\ Half = C \div 2
      /\ NumBits \in Nat \ {0} /\ RxFifoDepth \in Nat \ {0} /\ MinGap \in Nat /\ MaxFrames \in Nat
      /\ GlitchCycles \in Nat \ {0} /\ GlitchCycles < C - Half
  BY UartRxAssumption, UartReceiveAssumption, Zenon DEF C, Half
<1>2. \A c \in Nat : c > 3 => c \div 2 \in Nat /\ 1 <= c \div 2 /\ c \div 2 + c \div 2 <= c
  BY Z3
<1>3. C \in Nat
  BY <1>1
<1>4. Half \in Nat /\ 1 <= Half /\ Half + Half <= C
  BY <1>1, <1>2, <1>3, Zenon
<1> QED BY <1>1, <1>4

\* Cycles count through a slot of c cycles and on to the next one.
LEMMA Slots ==
  ASSUME NEW c \in Nat, NEW k \in Nat, NEW b \in 0 .. c - 1
  PROVE  /\ At(c, k, b) \in Nat /\ At(c, k, b) \div c = k /\ At(c, k, b) = At(c, k, 0) + b /\ At(c, 0, b) = b
         /\ At(c, k + 1, 0) = At(c, k, 0) + c /\ At(c, k, b + 1) = At(c, k, b) + 1
<1>1. c >= 1
  OBVIOUS
<1>2. (k * c + b) \div c = k
  BY <1>1, Z3
<1>3. k * c \in Nat /\ 0 * c = 0 /\ (k + 1) * c = k * c + c
  BY <1>1, Z3
<1> QED BY <1>1, <1>2, <1>3 DEF At

\* Every cycle is in a slot.
LEMMA InSlot ==
  ASSUME NEW c \in Nat, c >= 1, NEW s \in Nat
  PROVE  s \div c \in Nat /\ \E b \in 0 .. c - 1 : s = At(c, s \div c, b)
<1>1. s \div c \in Nat /\ s % c \in 0 .. c - 1 /\ s = (s \div c) * c + (s % c)
  BY Z3
<1>2. s = At(c, s \div c, s % c)
  BY <1>1, Zenon DEF At
<1> QED BY <1>1, <1>2, Zenon

\* Slots follow each other.
LEMMA SlotOrder ==
  ASSUME NEW c \in Nat, NEW j \in Nat, NEW k \in Nat, j < k
  PROVE  At(c, j, 0) + c <= At(c, k, 0)
<1>1. j * c + c <= k * c
  BY Z3
<1> QED BY <1>1 DEF At

\* The clocks of sender and receiver, in any slot k of a frame with n data bits.
LEMMA Drift ==
  ASSUME NEW n \in Nat, NEW b \in Nat, NEW c \in Nat, NEW h \in Nat, NEW k \in Nat,
         k <= n + 1, 1 <= h, h < c, (n + 1) * b < (n + 2) * c - h, (n + 2) * c - h < (n + 2) * b
  PROVE  k * b + h < (k + 1) * c /\ (k + 1) * c < (k + 1) * b + h
         /\ (c <= b => (k + 1) * c <= (k + 1) * b) /\ (c < b => (k + 1) * c < (k + 1) * b)
<1>1. CASE c <= b
  <2> DEFINE e == b - c
  <2>1. e \in Nat /\ b = c + e
    BY <1>1
  <2> HIDE DEF e
  <2>2. /\ (n + 1) * b = (n + 1) * c + (n + 1) * e /\ (n + 2) * c = (n + 1) * c + c
        /\ k * b = k * c + k * e /\ (k + 1) * b = (k + 1) * c + (k + 1) * e /\ (k + 1) * c = k * c + c
    BY <2>1, Z3
  <2>3. k * e <= (n + 1) * e /\ k * e \in Nat /\ (n + 1) * e \in Nat /\ (k + 1) * e \in Nat
    BY <2>1, Z3
  <2>4. e >= 1 => (k + 1) * e >= 1
    BY <2>1, Z3
  <2>5. k * c \in Nat /\ (k + 1) * c \in Nat /\ (n + 1) * c \in Nat
    BY Z3
  <2> QED BY <2>1, <2>2, <2>3, <2>4, <2>5
<1>2. CASE b < c
  <2> DEFINE e == c - b
  <2>1. e \in Nat /\ c = b + e
    BY <1>2
  <2> HIDE DEF e
  <2>2. /\ (n + 2) * c = (n + 2) * b + (n + 2) * e
        /\ k * c = k * b + k * e /\ (k + 1) * c = (k + 1) * b + (k + 1) * e /\ (k + 1) * c = k * c + c
    BY <2>1, Z3
  <2>3. (k + 1) * e <= (n + 2) * e /\ k * e \in Nat /\ (n + 2) * e \in Nat /\ (k + 1) * e \in Nat
    BY <2>1, Z3
  <2>4. k * b \in Nat /\ (k + 1) * b \in Nat /\ (n + 2) * b \in Nat
    BY Z3
  <2> QED BY <1>2, <2>1, <2>2, <2>3, <2>4
<1> QED BY <1>1, <1>2

LEMMA Clocks ==
  ASSUME NEW sig \in Signals
  PROVE  /\ sig.clocks \in Nat /\ sig.clocks >= 4 /\ C < sig.clocks + Half
         /\ \A k \in Nat : k <= NumBits + 1 =>
              /\ At(sig.clocks, k, 0) + Half < At(C, k + 1, 0)
              /\ At(C, k + 1, 0) < At(sig.clocks, k + 1, 0) + Half
              /\ C <= sig.clocks => At(C, k + 1, 0) <= At(sig.clocks, k + 1, 0)
              /\ C < sig.clocks => At(C, k + 1, 0) < At(sig.clocks, k + 1, 0)
<1> DEFINE b == sig.clocks
<1>1. b \in Nat /\ (NumBits + 1) * b < (NumBits + 2) * C - Half /\ (NumBits + 2) * C - Half < (NumBits + 2) * b
  BY UartReceiveAssumption, Zenon DEF Signals, C, Half
<1> HIDE DEF b
<1>2. Half < C /\ 0 \in Nat /\ 1 \in Nat
  BY Numbers
<1>3. \A k \in Nat : k <= NumBits + 1 =>
        /\ k * b + Half < (k + 1) * C /\ (k + 1) * C < (k + 1) * b + Half
        /\ C <= b => (k + 1) * C <= (k + 1) * b
        /\ C < b => (k + 1) * C < (k + 1) * b
  BY <1>1, <1>2, Numbers, Drift, Zenon
<1>4. \A k \in Nat : k * b + 0 = k * b /\ (k + 1) * C + 0 = (k + 1) * C /\ (k + 1) * b + 0 = (k + 1) * b
  <2>1. \A m, n \in Nat : m * n + 0 = m * n
    BY Z3
  <2>2. \A k \in Nat : k + 1 \in Nat
    OBVIOUS
  <2> QED BY <1>1, <2>1, <2>2, Numbers, Zenon
<1>5. \A k \in Nat : k <= NumBits + 1 =>
        /\ At(b, k, 0) + Half < At(C, k + 1, 0) /\ At(C, k + 1, 0) < At(b, k + 1, 0) + Half
        /\ C <= b => At(C, k + 1, 0) <= At(b, k + 1, 0)
        /\ C < b => At(C, k + 1, 0) < At(b, k + 1, 0)
  <2> SUFFICES ASSUME NEW k \in Nat, k <= NumBits + 1
               PROVE  /\ At(b, k, 0) + Half < At(C, k + 1, 0) /\ At(C, k + 1, 0) < At(b, k + 1, 0) + Half
                      /\ C <= b => At(C, k + 1, 0) <= At(b, k + 1, 0)
                      /\ C < b => At(C, k + 1, 0) < At(b, k + 1, 0)
    OBVIOUS
  <2>1. At(b, k, 0) = k * b /\ At(C, k + 1, 0) = (k + 1) * C /\ At(b, k + 1, 0) = (k + 1) * b
    BY <1>4, Zenon DEF At
  <2> QED BY <1>3, <2>1, Zenon
\* In slot 2 the receiver is three bits on, and still less than half a bit past the sender.
<1>6. C < b + Half /\ b >= 4
  <2>1. 2 <= NumBits + 1 /\ 2 \in Nat
    BY Numbers
  <2>2. (2 + 1) * C < (2 + 1) * b + Half
    BY <1>3, <2>1, Zenon
  <2> QED BY <1>1, <2>2, Numbers
<1> QED BY <1>1, <1>5, <1>6, Zenon DEF b

\* What a frame has on the line in its kth slot.
SlotValue(sig, k) ==
  IF k = 0 \/ (sig.kind = "bad_stop" /\ k = NumBits + 1) THEN 0
  ELSE IF k \in 1 .. NumBits THEN sig.byte[k] ELSE 1

LEMMA LevelInSlot ==
  ASSUME NEW sig \in Signals, sig.kind # "glitch", NEW k \in Nat, NEW b \in 0 .. sig.clocks - 1
  PROVE  LevelAt(sig, At(sig.clocks, k, b) + 1) = SlotValue(sig, k)
<1>0. sig.clocks \in Nat
  BY Clocks, Zenon
<1>1. At(sig.clocks, k, b) \in Nat /\ At(sig.clocks, k, b) \div sig.clocks = k
  BY <1>0, Slots, Zenon
<1>2. (At(sig.clocks, k, b) + 1) - 1 = At(sig.clocks, k, b)
  BY <1>1
<1> QED BY <1>1, <1>2, Zenon DEF LevelAt, SlotValue

\* The slot of a cycle of the signal.
LEMMA SlotOf ==
  ASSUME NEW sig \in Signals, sig.kind # "glitch", NEW s \in Nat, s >= 1
  PROVE  \E k \in Nat : /\ LevelAt(sig, s) = SlotValue(sig, k)
                        /\ At(sig.clocks, k, 0) \in Nat /\ At(sig.clocks, k, 0) < s /\ s <= At(sig.clocks, k, 0) + sig.clocks
<1> DEFINE b == sig.clocks
           r == s - 1
           k == r \div b
<1>1. b \in Nat /\ b >= 1 /\ r \in Nat /\ r + 1 = s /\ 0 \in 0 .. b - 1
  BY Clocks
<1>2. PICK x \in 0 .. b - 1 : r = At(b, k, x)
  BY <1>1, InSlot, Zenon
<1>3. k \in Nat
  BY <1>1, InSlot, Zenon
<1> HIDE DEF k
<1>4. At(b, k, x) = At(b, k, 0) + x /\ At(b, k, 0) \in Nat
  BY <1>1, <1>3, Slots, Zenon
<1>5. LevelAt(sig, At(b, k, x) + 1) = SlotValue(sig, k)
  BY <1>3, LevelInSlot, Zenon
<1>6. LevelAt(sig, s) = SlotValue(sig, k)
  BY <1>1, <1>2, <1>5, Zenon
<1> DEFINE m == At(b, k, 0)
<1>7. m \in Nat /\ r = m + x
  BY <1>2, <1>4, Zenon
<1> HIDE DEF m, b, r
<1>8. m < s /\ s <= m + b
  BY <1>1, <1>7
<1> QED BY <1>3, <1>6, <1>7, <1>8, Zenon DEF m, b

LEMMA SlotValueType ==
  ASSUME NEW sig \in Signals, NEW k \in Nat
  PROVE  SlotValue(sig, k) \in Bit
<1>1. sig.byte \in [1 .. NumBits -> Bit]
  BY DEF Signals, Byte
<1> QED BY <1>1 DEF SlotValue, Bit

LEMMA LevelType ==
  ASSUME NEW sig \in Signals, NEW s \in Nat, s >= 1
  PROVE  LevelAt(sig, s) \in Bit
<1>1. CASE sig.kind = "glitch"
  BY <1>1 DEF LevelAt, Bit
<1>2. CASE sig.kind # "glitch"
  BY <1>2, SlotOf, SlotValueType, Zenon
<1> QED BY <1>1, <1>2

\* How long signals are.
LEMMA Lengths ==
  ASSUME NEW sig \in Signals
  PROVE  /\ Rest(sig) \in Nat /\ (sig.kind = "bad_stop" => Rest(sig) >= 1)
         /\ At(sig.clocks, NumBits + 1, 0) \in Nat
         /\ At(sig.clocks, NumBits + 2, 0) = At(sig.clocks, NumBits + 1, 0) + sig.clocks
         /\ sig.kind = "glitch" => Length(sig) = sig.clocks + Rest(sig)
         /\ sig.kind # "glitch" => Length(sig) = At(sig.clocks, NumBits + 2, 0) + Rest(sig)
         /\ Length(sig) \in Nat /\ Length(sig) >= 4
<1> DEFINE b == sig.clocks
           m == At(b, NumBits + 1, 0)
           e == Rest(sig)
<1>1. b \in Nat /\ b >= 4 /\ 0 \in 0 .. b - 1 /\ NumBits + 1 \in Nat /\ NumBits + 1 + 1 = NumBits + 2
  BY Clocks, Numbers
<1>2. e \in Nat /\ (sig.kind = "bad_stop" => e >= 1)
  BY Numbers DEF Rest
<1>3. m \in Nat /\ At(b, NumBits + 2, 0) = m + b
  <2>1. At(b, NumBits + 1, 0) \in Nat /\ At(b, NumBits + 1 + 1, 0) = At(b, NumBits + 1, 0) + b
    BY <1>1, Slots, Zenon
  <2> QED BY <1>1, <2>1, Zenon
<1>4. At(b, NumBits + 2, 0) = (NumBits + 2) * b /\ 1 * b = b
  <2>1. \A n, c \in Nat : n * c + 0 = n * c /\ 1 * c = c
    BY Z3
  <2>2. NumBits + 2 \in Nat
    BY Numbers
  <2> QED BY <1>1, <2>1, <2>2, Zenon DEF At
<1>5. /\ sig.kind = "glitch" => Length(sig) = b + e
      /\ sig.kind # "glitch" => Length(sig) = At(b, NumBits + 2, 0) + e
  BY <1>4, Zenon DEF Length
<1> HIDE DEF b, m, e
<1>6. Length(sig) \in Nat /\ Length(sig) >= 4
  BY <1>1, <1>2, <1>3, <1>5
<1> QED BY <1>2, <1>3, <1>5, <1>6, Zenon DEF b, m, e

\* Every signal begins low, and leaves the line high.
LEMMA LevelEnds ==
  ASSUME NEW sig \in Signals
  PROVE  /\ LevelAt(sig, 1) = 0 /\ LevelAt(sig, Length(sig)) = 1
         /\ Length(sig) \in Nat /\ Length(sig) >= 4
<1>0. sig.clocks \in Nat /\ sig.clocks >= 4 /\ C < sig.clocks + Half
  BY Clocks, Zenon
<1>1. CASE sig.kind = "glitch"
  <2>1. Length(sig) = sig.clocks + Rest(sig) /\ Rest(sig) \in Nat
    BY <1>1, Lengths, Zenon
  <2>2. ~(Length(sig) <= GlitchCycles) /\ 1 <= GlitchCycles
    BY <1>0, <2>1, Numbers
  <2> QED BY <1>1, <2>2, Lengths, Zenon DEF LevelAt
<1>2. CASE sig.kind # "glitch"
  <2>1. 0 \in Nat /\ 0 \in 0 .. sig.clocks - 1
    BY <1>0
  <2>2. LevelAt(sig, At(sig.clocks, 0, 0) + 1) = SlotValue(sig, 0) /\ At(sig.clocks, 0, 0) = 0
    BY <1>0, <1>2, <2>1, LevelInSlot, Slots, Zenon
  <2>3. LevelAt(sig, 1) = 0
    BY <2>2 DEF SlotValue
  <2> DEFINE b == sig.clocks
             m == At(b, NumBits + 1, 0)
             n == Length(sig)
  <2>4. m \in Nat /\ n = (m + b) + Rest(sig) /\ Rest(sig) \in Nat /\ n \in Nat /\ n >= 1
        /\ (sig.kind = "bad_stop" => Rest(sig) >= 1)
    <3>1. n \in Nat /\ n >= 4
      BY Lengths, Zenon
    <3>2. n >= 1
      <4> HIDE DEF n
      <4> QED BY <3>1
    <3> QED BY <1>2, <3>1, <3>2, Lengths, Zenon
  <2>5. PICK k \in Nat : /\ LevelAt(sig, n) = SlotValue(sig, k)
                         /\ At(b, k, 0) \in Nat /\ At(b, k, 0) < n /\ n <= At(b, k, 0) + b
    BY <1>2, <2>4, SlotOf, Zenon
  <2>6. k < NumBits + 1 => At(b, k, 0) + b <= m
    BY <1>0, <2>5, SlotOrder, Numbers
  <2>7. sig.kind # "bad_stop" \/ k # NumBits + 1
    <3> SUFFICES ASSUME sig.kind = "bad_stop", k = NumBits + 1 PROVE FALSE
      OBVIOUS
    <3>1. At(b, k, 0) = m
      OBVIOUS
    <3>2. n <= m + b /\ Rest(sig) >= 1
      BY <2>4, <2>5, <3>1, Zenon
    <3> HIDE DEF n, m, b
    <3> QED BY <1>0, <2>4, <3>2 DEF b
  <2>8. k >= NumBits + 1
    <3> DEFINE a == At(b, k, 0)
    <3>1. a \in Nat /\ n <= a + b /\ (k < NumBits + 1 => a + b <= m)
      BY <2>5, <2>6, Zenon
    <3> HIDE DEF n, m, a
    <3> QED BY <1>0, <2>4, <2>5, <3>1, Numbers
  <2>9. SlotValue(sig, k) = 1
    BY <2>5, <2>7, <2>8, Numbers DEF SlotValue
  <2> QED BY <2>3, <2>5, <2>9, Lengths, Zenon
<1> QED BY <1>1, <1>2

\* A glitch, and the stop bit and gap of a frame, only rise.
LEMMA LevelRises ==
  ASSUME NEW sig \in Signals, NEW s \in Nat, s >= 1,
         sig.kind # "glitch" => s > At(sig.clocks, NumBits + 1, 0)
  PROVE  LevelAt(sig, s) <= LevelAt(sig, s + 1)
<1>1. CASE sig.kind = "glitch"
  BY <1>1, Numbers DEF LevelAt
<1>2. CASE sig.kind # "glitch"
  <2> DEFINE b == sig.clocks
             m == At(b, NumBits + 1, 0)
  <2>1. b \in Nat /\ m \in Nat /\ s + 1 \in Nat /\ s + 1 >= 1 /\ NumBits + 1 \in Nat
    BY Clocks, Lengths, Numbers
  <2>2. PICK k \in Nat : /\ LevelAt(sig, s) = SlotValue(sig, k)
                         /\ At(b, k, 0) \in Nat /\ At(b, k, 0) < s /\ s <= At(b, k, 0) + b
    BY <1>2, SlotOf, Zenon
  <2>3. PICK l \in Nat : /\ LevelAt(sig, s + 1) = SlotValue(sig, l)
                         /\ At(b, l, 0) \in Nat /\ At(b, l, 0) < s + 1 /\ s + 1 <= At(b, l, 0) + b
    BY <1>2, <2>1, SlotOf, Zenon
  <2>4. /\ k < NumBits + 1 => At(b, k, 0) + b <= m
        /\ l < k => At(b, l, 0) + b <= At(b, k, 0)
    BY <2>1, <2>2, <2>3, SlotOrder, Zenon
  <2>5. s > m
    BY <1>2
  <2>6. k >= NumBits + 1 /\ l >= k
    <3> DEFINE x == At(b, k, 0)
               y == At(b, l, 0)
    <3>1. /\ x \in Nat /\ y \in Nat /\ x < s /\ s <= x + b /\ s + 1 <= y + b
          /\ (k < NumBits + 1 => x + b <= m) /\ (l < k => y + b <= x)
      BY <2>2, <2>3, <2>4, Zenon
    <3> HIDE DEF x, y, m, b
    <3> QED BY <2>1, <2>2, <2>3, <2>5, <3>1
  <2>7. SlotValue(sig, k) <= SlotValue(sig, l)
    BY <2>2, <2>3, <2>6, Numbers DEF SlotValue
  <2> QED BY <2>2, <2>3, <2>7, Zenon
<1> QED BY <1>1, <1>2

-----------------------------------------------------------------------------
(* The line and the synchroniser.                                          *)

\* The signal goes on, or the line is free for the next one.
Same == t > 0 /\ t < Length(signal) /\ t' = t + 1 /\ UNCHANGED <<signal, frames, sent>>
Fresh == (t = 0 \/ t = Length(signal)) /\ t' \in {0, 1}

\* What the sender puts in sent at this edge.
New == IF t' = 1 /\ Fresh /\ signal'.kind = "frame" THEN <<signal'.byte>> ELSE << >>

Lines == /\ signal \in Signals /\ t \in Nat /\ rx_q \in [1 .. 3 -> Bit] /\ sent \in Seq(Byte)
         /\ frames \in 0 .. MaxFrames /\ coincided \in BOOLEAN /\ SyncInv

LEMMA LineType == LineInv => Lines
<1> SUFFICES ASSUME LineInv PROVE Lines
  OBVIOUS
<1>1. SyncInv /\ signal \in Signals /\ frames \in 0 .. MaxFrames /\ coincided \in BOOLEAN
      /\ rx_q \in [1 .. 3 -> Bit]
  BY Zenon DEF LineInv, TypeOK, RxTypeOK
<1>2. t \in Nat
  <2>1. Duration = Length(signal)
    BY Zenon DEF Duration, Gap, Length, Rest
  <2>2. t \in 0 .. Length(signal)
    BY <2>1, Zenon DEF LineInv, TypeOK
  <2>3. Length(signal) \in Nat
    BY <1>1, Lengths, Zenon
  <2> DEFINE n == Length(signal)
  <2>4. n \in Nat /\ t \in 0 .. n
    BY <2>2, <2>3, Zenon
  <2> HIDE DEF n
  <2> QED BY <2>4
<1>3. sent \in Seq(Byte)
  BY DEF LineInv, TypeOK
<1> QED BY <1>1, <1>2, <1>3, Zenon DEF Lines

\* The level the model gives the line is the signal's.
LEMMA LevelNow ==
  ASSUME Lines
  PROVE  Level = IF t = 0 THEN 1 ELSE LevelAt(signal, t)
<1>0. t \in Nat
  BY Zenon DEF Lines
<1>1. CASE t = 0
  BY <1>1 DEF Level
<1>2. CASE t # 0 /\ signal.kind = "glitch"
  <2>1. t > 0
    BY <1>0, <1>2
  <2> QED BY <1>2, <2>1, Zenon DEF Level, LevelAt
<1>3. CASE t # 0 /\ signal.kind # "glitch"
  <2> DEFINE slot == (t - 1) \div signal.clocks
  <2>1. t > 0
    BY <1>0, <1>3
  <2>2. slot \in Nat
    <3>1. t - 1 \in Nat
      BY <1>0, <1>3
    <3>2. signal.clocks \in Nat /\ signal.clocks >= 1
      BY Clocks DEF Lines
    <3> QED BY <3>1, <3>2, InSlot, Zenon
  <2>3. ~(slot = 0 /\ slot \in 1 .. NumBits) /\ ~(slot = 0 /\ slot = NumBits + 1)
        /\ ~(slot \in 1 .. NumBits /\ slot = NumBits + 1)
    <3> HIDE DEF slot
    <3> QED BY <2>2, Numbers
  <2>4. CASE slot = 0
    <3>1. Level = 0
      BY <1>3, <2>1, <2>3, <2>4, Zenon DEF Level
    <3> QED BY <1>3, <2>4, <3>1, Zenon DEF LevelAt
  <2>5. CASE slot \in 1 .. NumBits
    <3>1. Level = signal.byte[slot]
      BY <1>3, <2>1, <2>3, <2>5, Zenon DEF Level
    <3> QED BY <1>3, <2>3, <2>5, <3>1, Zenon DEF LevelAt
  <2>6. CASE slot = NumBits + 1 /\ signal.kind = "bad_stop"
    <3>1. Level = 0
      BY <1>3, <2>1, <2>3, <2>6, Zenon DEF Level
    <3> QED BY <1>3, <2>6, <3>1, Zenon DEF LevelAt
  <2>7. CASE slot # 0 /\ slot \notin 1 .. NumBits /\ ~(slot = NumBits + 1 /\ signal.kind = "bad_stop")
    <3>1. Level = 1
      BY <1>3, <2>1, <2>7, Zenon DEF Level
    <3> QED BY <1>3, <2>7, <3>1, Zenon DEF LevelAt
  <2> QED BY <2>4, <2>5, <2>6, <2>7, Zenon
<1> QED BY <1>1, <1>2, <1>3, Zenon

LEMMA SenderMoves ==
  ASSUME Lines, Sender
  PROVE  /\ Same \/ Fresh
         /\ signal' \in Signals /\ frames' \in 0 .. MaxFrames /\ sent' \in Seq(Byte) /\ sent' = sent \o New
         /\ t' \in Nat /\ t' <= Length(signal')
<1> USE DEF Lines
<1>1. Length(signal) \in Nat /\ Length(signal) >= 4 /\ t <= Length(signal)
  BY LevelEnds DEF SyncInv
<1>2. CASE Continue /\ ~(t = 0 \/ t = Length(signal))
  <2>1. t' = t + 1 /\ UNCHANGED <<signal, frames, sent>>
    BY <1>2, Zenon DEF Continue, Duration, Gap, Length, Rest
  <2>2. Same /\ ~Fresh
    BY <1>1, <1>2, <2>1 DEF Same, Fresh
  <2>3. New = << >>
    BY <2>2, Zenon DEF New
  <2>4. sent' = sent \o New
    BY <2>1, <2>3
  <2>6. t + 1 \in Nat /\ t + 1 <= Length(signal)
    BY <1>1, <2>2 DEF Same
  <2> QED BY <2>1, <2>2, <2>4, <2>6, Zenon
<1>3. CASE Continue /\ (t = 0 \/ t = Length(signal))
  <2>1. t' = 0 /\ UNCHANGED <<signal, frames, sent>>
    BY <1>3, Zenon DEF Continue, Duration, Gap, Length, Rest
  <2>2. Fresh /\ New = << >>
    BY <1>3, <2>1 DEF Fresh, New
  <2>3. sent' = sent \o New
    BY <2>1, <2>2
  <2>4. t' \in Nat /\ 0 <= Length(signal)
    BY <1>1, <2>1
  <2> QED BY <2>1, <2>2, <2>3, <2>4, Zenon
<1>4. ASSUME NEW kind \in {"frame", "bad_stop", "glitch"}, NEW byte \in Byte, NEW clocks \in BitTimes,
             Begin(kind, byte, clocks)
      PROVE  /\ Fresh /\ signal' \in Signals /\ frames' \in 0 .. MaxFrames /\ sent' \in Seq(Byte) /\ sent' = sent \o New
             /\ t' \in Nat /\ t' <= Length(signal')
  <2>1. /\ t = 0 \/ t = Length(signal)
        /\ frames < MaxFrames /\ signal' = [kind |-> kind, byte |-> byte, clocks |-> clocks] /\ t' = 1 /\ frames' = frames + 1
        /\ sent' = IF kind = "frame" THEN Append(sent, byte) ELSE sent
    BY <1>4, Zenon DEF Begin, Duration, Gap, Length, Rest
  <2>2. Fresh /\ signal' \in Signals /\ frames' \in 0 .. MaxFrames
    BY <1>4, <2>1, Numbers DEF Fresh, Signals
  <2>3. New = IF kind = "frame" THEN <<byte>> ELSE << >>
    BY <2>1, <2>2 DEF New
  <2>4. sent' = sent \o New /\ sent' \in Seq(Byte)
    <3>1. CASE kind = "frame"
      <4>1. sent' = Append(sent, byte) /\ New = <<byte>>
        BY <2>1, <2>3, <3>1, Zenon
      <4>2. sent' \in Seq(Byte)
        BY <1>4, <4>1
      <4>3. sent' = sent \o <<byte>>
        BY <1>4, <4>1
      <4> QED BY <2>1, <4>1, <4>2, <4>3
    <3>2. CASE kind # "frame"
      <4>1. sent' = sent /\ New = << >>
        BY <2>1, <2>3, <3>2, Zenon
      <4> QED BY <2>1, <4>1
    <3> QED BY <3>1, <3>2
  <2>5. t' \in Nat /\ t' <= Length(signal')
    <3>1. Length(signal') \in Nat /\ Length(signal') >= 4
      BY <2>2, LevelEnds, Zenon
    <3> QED BY <2>1, <3>1
  <2> QED BY <2>2, <2>4, <2>5, Zenon
<1>5. Zeros \in Byte
  BY DEF Zeros, Byte, Bit
<1> QED BY <1>2, <1>3, <1>4, <1>5, Zenon DEF Sender

\* The synchroniser follows the line.
LEMMA SyncStep ==
  ASSUME Lines, Sender, rx_q' = <<Level, rx_q[1], rx_q[2]>>
  PROVE  SyncInv' /\ rx_q' \in [1 .. 3 -> Bit]
<1>1. /\ Same \/ Fresh
      /\ signal' \in Signals /\ t' \in Nat /\ t' <= Length(signal')
  BY SenderMoves, Zenon
<1>2. Length(signal) \in Nat /\ Length(signal) >= 4 /\ t \in Nat /\ rx_q \in [1 .. 3 -> Bit]
      /\ LevelAt(signal, 1) = 0 /\ LevelAt(signal, Length(signal)) = 1
  BY LevelEnds DEF Lines
<1>3. Level \in Bit /\ Level = IF t = 0 THEN 1 ELSE LevelAt(signal, t)
  <2>1. Level = IF t = 0 THEN 1 ELSE LevelAt(signal, t)
    BY LevelNow, Zenon
  <2>2. t # 0 => t >= 1
    BY <1>2
  <2>3. t # 0 => LevelAt(signal, t) \in Bit
    BY <1>2, <2>2, LevelType, Zenon DEF Lines
  <2>4. 1 \in Bit
    BY DEF Bit
  <2> QED BY <2>1, <2>3, <2>4, Zenon
<1>4. rx_q'[1] = Level /\ rx_q'[2] = rx_q[1] /\ rx_q'[3] = rx_q[2] /\ rx_q' \in [1 .. 3 -> Bit]
  BY <1>2, <1>3
<1>5. SyncInv
  BY DEF Lines
<1>6. CASE Same
  <2>1. t > 0 /\ t' = t + 1 /\ signal' = signal /\ t + 1 - 1 = t /\ t + 1 - 2 = t - 1 /\ t + 1 - 3 = t - 2
    BY <1>2, <1>6 DEF Same
  <2>2. /\ t + 1 > 1 => rx_q'[1] = LevelAt(signal, t)
        /\ t + 1 > 2 => rx_q'[2] = LevelAt(signal, t - 1)
        /\ t + 1 > 3 => rx_q'[3] = LevelAt(signal, t - 2)
    BY <1>2, <1>3, <1>4, <1>5, <2>1 DEF SyncInv
  <2>3. /\ t + 1 # 0 /\ t + 1 # 1
        /\ t + 1 = 2 => rx_q'[2] = 1
        /\ t + 1 = 3 => rx_q'[3] = 1
    BY <1>2, <1>4, <1>5, <2>1 DEF SyncInv
  <2>4. t' - 1 = t /\ t' - 2 = t - 1 /\ t' - 3 = t - 2 /\ t' # 0 /\ t' # 1
    BY <1>2, <2>1
  <2>5. /\ t' > 1 => rx_q'[1] = LevelAt(signal', t' - 1)
        /\ t' > 2 => rx_q'[2] = LevelAt(signal', t' - 2)
        /\ t' > 3 => rx_q'[3] = LevelAt(signal', t' - 3)
        /\ t' = 2 => rx_q'[2] = 1
        /\ t' = 3 => rx_q'[3] = 1
    BY <2>1, <2>2, <2>3, <2>4, Zenon
  <2> QED BY <1>1, <1>4, <2>4, <2>5, Zenon DEF SyncInv
<1>7. CASE Fresh
  <2>1. t' # 2 /\ t' # 3 /\ ~(t' > 1) /\ ~(t' > 2) /\ ~(t' > 3)
    BY <1>7 DEF Fresh
  <2>2. CASE t = 0
    <3>1. rx_q'[1] = 1 /\ rx_q'[2] <= 1 /\ rx_q'[3] <= rx_q'[2]
      BY <1>2, <1>3, <1>4, <1>5, <2>2 DEF SyncInv, Bit
    <3> QED BY <1>1, <1>4, <2>1, <3>1, Zenon DEF SyncInv
  <2>3. CASE t # 0
    <3> DEFINE n == Length(signal)
    <3>1. t = n
      BY <1>7, <2>3, Zenon DEF Fresh
    <3>2. rx_q[1] = LevelAt(signal, n - 1) /\ rx_q[2] = LevelAt(signal, n - 2) /\ Level = 1
      BY <1>2, <1>3, <1>5, <3>1 DEF SyncInv
    <3>3. n - 2 \in Nat /\ n - 2 >= 1 /\ n - 1 \in Nat /\ n - 1 >= 1 /\ (n - 2) + 1 = n - 1
      BY <1>2
    <3>4. signal.kind # "glitch" => n - 2 > At(signal.clocks, NumBits + 1, 0)
      <4> DEFINE m == At(signal.clocks, NumBits + 1, 0)
      <4>1. signal.kind # "glitch" => n = (m + signal.clocks) + Rest(signal)
        BY Lengths, Zenon DEF Lines
      <4>2. signal.clocks \in Nat /\ signal.clocks >= 4 /\ m \in Nat /\ Rest(signal) \in Nat
        BY Clocks, Lengths, Zenon DEF Lines
      <4> HIDE DEF m, n
      <4>3. signal.kind # "glitch" => n - 2 > m
        BY <4>1, <4>2
      <4> QED BY <4>3, Zenon DEF m
    <3>5. LevelAt(signal, n - 2) <= LevelAt(signal, (n - 2) + 1)
      BY <3>3, <3>4, LevelRises, Zenon DEF Lines
    <3>6. LevelAt(signal, n - 1) \in Bit
      BY <3>3, LevelType, Zenon DEF Lines
    <3>7. rx_q'[1] = 1 /\ rx_q'[2] <= 1 /\ rx_q'[3] <= rx_q'[2]
      <4>1. rx_q'[3] <= rx_q'[2] /\ rx_q'[2] \in Bit /\ rx_q'[1] = 1
        BY <1>4, <3>2, <3>3, <3>5, <3>6, Zenon
      <4> QED BY <4>1 DEF Bit
    <3> QED BY <1>1, <1>4, <2>1, <3>7, Zenon DEF SyncInv
  <2> QED BY <2>2, <2>3
<1> QED BY <1>1, <1>4, <1>6, <1>7

-----------------------------------------------------------------------------
(* The receiver.                                                           *)

Regs == /\ rx_baud_counter_q \in 0 .. C - 1 /\ rx_state_q \in {"IDLE", "START", "PROC", "STOP"}
        /\ rx_bit_counter_q \in 0 .. NumBits - 1 /\ rx_current_byte_q \in Byte

\* An edge, but for the FIFO.
Receives == /\ rx_q' = <<Level, rx_q[1], rx_q[2]>> /\ rx_baud_counter_q' = rx_baud_counter_d /\ ReceiveStep
            /\ Sender /\ Slip

\* What arrives at this edge, and how the bytes that have not arrived move on;
\* rest is what is left of the one on the line.
Gone == IF rx_fifo_wvalid THEN <<rx_current_byte_q>> ELSE << >>
Flow(rest) ==
  \/ Gone = << >> /\ Before' = Before /\ rest = Current
  \/ Gone = Before /\ Before' = << >> /\ rest = Current
  \/ Gone = Current /\ Before = << >> /\ Before' = << >> /\ rest = << >>
  \/ Gone = << >> /\ Before = << >> /\ Before' = Current /\ rest = << >>
Moved == PhaseInv' /\ (Same => Flow(Current')) /\ (Fresh => Flow(<< >>))

LEMMA EdgeFacts ==
  ASSUME Lines, Regs, Receives
  PROVE  /\ t \in Nat /\ Length(signal) \in Nat /\ Length(signal) >= 4 /\ t <= Length(signal)
         /\ Same \/ Fresh
         /\ rx_q[1] \in Bit /\ rx_q[2] \in Bit /\ rx_q[3] \in Bit /\ rx_q'[2] = rx_q[1] /\ rx_q'[3] = rx_q[2]
         /\ Left \in 0 .. C - 1 /\ rx_baud_counter_q = C - 1 - Left
         /\ rx_baud_tick <=> Left = 0
<1>1. Same \/ Fresh
  BY SenderMoves, Zenon DEF Receives
<1>2. Length(signal) \in Nat /\ Length(signal) >= 4 /\ t \in Nat /\ t <= Length(signal)
  BY LevelEnds DEF Lines, SyncInv
<1>3. Left \in 0 .. C - 1 /\ rx_baud_counter_q = C - 1 - Left /\ (rx_baud_counter_q = C - 1 <=> Left = 0)
  BY Numbers DEF Regs, Left
<1>4. rx_baud_tick <=> Left = 0
  BY <1>3, Zenon DEF rx_baud_tick, C
<1>5. rx_q[1] \in Bit /\ rx_q[2] \in Bit /\ rx_q[3] \in Bit
  BY DEF Lines
<1>6. rx_q'[2] = rx_q[1] /\ rx_q'[3] = rx_q[2]
  BY <1>5 DEF Receives
<1> QED BY <1>1, <1>2, <1>3, <1>4, <1>5, <1>6, Zenon

\* What does not happen to a sender that keeps up.
LEMMA KeepsUp ==
  ASSUME Receives, ~slipped'
  PROVE  /\ rx_start /\ rx_baud_tick => ~(signal.clocks < C)
         /\ ~(t = Length(signal) /\ t' = 1 /\ Rest(signal) = 0 /\ coincided /\ signal.clocks = C)
<1>1. Duration = Length(signal) /\ Gap = Rest(signal)
  BY Zenon DEF Duration, Gap, Length, Rest
<1>2. /\ ~(rx_start /\ rx_baud_tick /\ signal.clocks < ClocksPerBaud)
      /\ ~(t = Duration /\ t' = 1 /\ Gap = 0 /\ coincided /\ signal.clocks = ClocksPerBaud)
  BY Zenon DEF Receives, Slip
<1> QED BY <1>1, <1>2, Zenon DEF C

\* Between ticks the counter runs and nothing else moves.
LEMMA NoTick ==
  ASSUME Lines, Regs, Receives, rx_state_q # "IDLE", Left # 0
  PROVE  /\ rx_baud_counter_q' = rx_baud_counter_q + 1 /\ Left' = Left - 1 /\ coincided' = coincided
         /\ UNCHANGED <<rx_state_q, rx_bit_counter_q, rx_current_byte_q>>
<1>1. ~rx_baud_tick /\ ~rx_start
  BY EdgeFacts, Zenon DEF rx_start
<1>2. rx_baud_counter_q' = rx_baud_counter_q + 1
  BY <1>1, Zenon DEF Receives, rx_baud_counter_d
<1>3. rx_baud_counter_q \in Nat
  BY Numbers DEF Regs
<1>4. Left' = Left - 1
  BY <1>2, <1>3, Numbers DEF Left
<1>5. UNCHANGED <<rx_state_q, rx_bit_counter_q, rx_current_byte_q>>
  BY <1>1, Zenon DEF Receives, ReceiveStep
<1>6. coincided' = coincided
  BY <1>1, Zenon DEF Receives, Slip
<1> QED BY <1>2, <1>4, <1>5, <1>6

\* At a tick the state machine moves.
LEMMA Tick ==
  ASSUME Lines, Regs, Receives, Left = 0
  PROVE  /\ rx_baud_counter_q' = 0 /\ rx_state_q' = rx_state_d
         /\ rx_bit_counter_q' = rx_bit_counter_d /\ rx_current_byte_q' = rx_current_byte_d
         /\ rx_state_q # "IDLE" => coincided' = coincided
<1>1. rx_baud_tick
  BY EdgeFacts, Zenon
<1>2. rx_state_q # "IDLE" => coincided' = coincided
  BY Zenon DEF Receives, Slip, rx_start
<1> QED BY <1>1, <1>2, Zenon DEF Receives, ReceiveStep, rx_baud_counter_d

\* The signal that has just begun is the one sent.
LEMMA FreshNew == Fresh => Current' = New
<1> SUFFICES ASSUME Fresh PROVE Current' = New
  OBVIOUS
<1>1. t' = 0 \/ t' = 1
  BY DEF Fresh
<1>2. CASE t' = 0
  BY <1>2 DEF Current, New
<1>3. CASE t' = 1
  BY <1>3 DEF Current, New
<1> QED BY <1>1, <1>2, <1>3, Zenon

\* Out of a frame, the receiver starts on the third cycle of a signal and on no other.
LEMMA IdleStep ==
  ASSUME Lines, Regs, Receives, PhaseInv, rx_state_q = "IDLE", ~slipped'
  PROVE  Moved
<1>1. /\ t \in Nat /\ Length(signal) \in Nat /\ Length(signal) >= 4 /\ t <= Length(signal)
      /\ Same \/ Fresh
      /\ rx_q[1] \in Bit /\ rx_q[2] \in Bit /\ rx_q[3] \in Bit
      /\ rx_baud_tick <=> Left = 0
  BY EdgeFacts, Zenon
<1>2. SyncInv /\ (t > 3 => Passed)
  BY Zenon DEF Lines, PhaseInv
<1>3. Gone = << >> /\ Before = << >>
  BY Zenon DEF Gone, Before, rx_fifo_wvalid, rx_valid
<1>4. t = 3 => rx_start
  <2>1. t = 3 => rx_q[2] = LevelAt(signal, 1) /\ rx_q[3] = 1
    BY <1>2 DEF SyncInv
  <2>2. LevelAt(signal, 1) = 0
    BY LevelEnds, Zenon DEF Lines
  <2> QED BY <2>1, <2>2, Zenon DEF rx_start
<1>5. rx_start => t = 3
  <2> SUFFICES ASSUME rx_start PROVE t = 3
    OBVIOUS
  <2>1. rx_q[2] = 0 /\ rx_q[3] = 1
    BY DEF rx_start
  <2>2. t \notin 0 .. 2
    BY <1>2, <2>1 DEF SyncInv
  <2>3. ~(t > 3)
    <3> SUFFICES ASSUME t > 3 PROVE FALSE
      OBVIOUS
    <3>1. t - 3 \in Nat /\ t - 3 >= 1 /\ (t - 3) + 1 = t - 2
      BY <1>1
    <3>2. signal.kind # "glitch" => t - 3 > At(signal.clocks, NumBits + 1, 0)
      BY <1>2, Zenon DEF Passed
    <3>3. LevelAt(signal, t - 3) <= LevelAt(signal, t - 2)
      BY <3>1, <3>2, LevelRises, Zenon DEF Lines
    <3>4. rx_q[2] = LevelAt(signal, t - 2) /\ rx_q[3] = LevelAt(signal, t - 3)
      BY <1>1, <1>2 DEF SyncInv
    <3>5. rx_q[3] <= rx_q[2]
      BY <3>3, <3>4, Zenon
    <3> QED BY <2>1, <3>5
  <2> QED BY <1>1, <2>2, <2>3
<1>6. CASE rx_start
  <2>1. t = 3 /\ Same /\ t' = 4 /\ ~Fresh
    <3>1. t = 3 /\ t # 0 /\ t # Length(signal)
      BY <1>1, <1>5, <1>6
    <3> QED BY <1>1, <3>1 DEF Same, Fresh
  <2>2. rx_state_q' = "START"
    BY <1>6, Zenon DEF Receives, ReceiveStep, rx_state_d
  <2>3. rx_baud_counter_q' = (IF rx_baud_tick THEN 0 ELSE Half) /\ coincided' = rx_baud_tick
    BY <1>6, Zenon DEF Receives, rx_baud_counter_d, Slip, Half, C
  <2>4. signal' = signal
    BY <2>1, Zenon DEF Same
  <2>5. At(C, 0, rx_baud_counter_q') = rx_baud_counter_q'
    <3>1. C \in Nat /\ rx_baud_counter_q' \in Nat
      BY <2>3, Numbers
    <3>2. \A c, x \in Nat : 0 * c + x = x
      BY Z3
    <3> QED BY <3>1, <3>2, Zenon DEF At
  <2>6. Slot' = 0 /\ Offset' = rx_baud_counter_q'
    BY <2>2, <2>3, Zenon DEF Slot, Offset
  <2>7. t' + Offset' = 4 + At(C, Slot', rx_baud_counter_q')
    BY <2>1, <2>5, <2>6, Zenon
  <2>13. coincided' => C <= signal'.clocks
    <3>1. rx_baud_tick => ~(signal.clocks < C)
      BY <1>6, KeepsUp, Zenon
    <3>2. signal.clocks \in Nat /\ C \in Nat
      BY Clocks, Numbers, Zenon DEF Lines
    <3>3. ~(signal.clocks < C) => C <= signal.clocks
      BY <3>2
    <3>4. coincided' => rx_baud_tick
      BY <2>3
    <3> QED BY <2>4, <3>1, <3>3, <3>4, Zenon
  <2>8. InStep'
    BY <2>2, <2>7, <2>13 DEF InStep
  <2>9. t' > 3
    BY <2>1
  <2>10. PhaseInv'
    BY <2>2, <2>8, <2>9, Zenon DEF PhaseInv
  <2>11. Before' = << >>
    BY <2>2, Zenon DEF Before
  <2>12. Current' = Current
    <3>1. t \in 1 .. 3
      BY <2>1
    <3>2. rx_state_q' # "IDLE"
      BY <2>2
    <3> QED BY <2>4, <2>9, <3>1, <3>2, Zenon DEF Current
  <2> QED BY <1>3, <2>1, <2>10, <2>11, <2>12, Zenon DEF Moved, Flow
<1>7. CASE ~rx_start
  <2>1. rx_state_q' = "IDLE"
    BY <1>7, Zenon DEF Receives, ReceiveStep, rx_state_d
  <2>2. t # 3
    BY <1>4, <1>7
  <2>3. Before' = << >>
    BY <2>1, Zenon DEF Before
  <2>4. CASE Same
    <3>1. t' = t + 1 /\ t > 0 /\ signal' = signal /\ ~Fresh
      BY <1>1, <2>4 DEF Same, Fresh
    <3>2. t' > 3 => Passed'
      <4>1. t' > 3 => t > 3 /\ t' - 3 > t - 3
        BY <1>1, <2>2, <3>1
      <4> DEFINE m == IF signal.kind = "glitch" THEN GlitchCycles ELSE At(signal.clocks, NumBits + 1, 0)
      <4>2. m \in Nat
        BY Lengths, Numbers, Zenon DEF Lines
      <4>3. t > 3 => t - 3 > m
        BY <1>2, Zenon DEF Passed
      <4>4. Passed' <=> t' - 3 > m
        BY <3>1, Zenon DEF Passed
      <4> HIDE DEF m
      <4> QED BY <1>1, <3>1, <4>1, <4>2, <4>3, <4>4
    <3>3. Current' = Current
      <4>1. (t \in 1 .. 3 <=> t' \in 1 .. 3)
        BY <1>1, <2>2, <3>1
      <4> QED BY <2>1, <3>1, <4>1, Zenon DEF Current
    <3> QED BY <1>3, <2>1, <2>3, <3>1, <3>2, <3>3, Zenon DEF Moved, Flow, PhaseInv
  <2>5. CASE Fresh
    <3>1. ~(t' > 3) /\ ~Same
      BY <1>1, <2>5 DEF Same, Fresh
    <3>2. t \notin 1 .. 3
      BY <1>1, <2>5 DEF Fresh
    <3>3. Current = << >>
      BY <3>2, Zenon DEF Current
    <3> QED BY <1>3, <2>1, <2>3, <3>1, <3>3, Zenon DEF Moved, Flow, PhaseInv
  <2> QED BY <1>1, <2>4, <2>5, Zenon
<1> QED BY <1>6, <1>7

\* At the end of the signal before: the receiver leaves that frame, and what it carried arrives.
LEMMA ClosingStep ==
  ASSUME Lines, Regs, Receives, PhaseInv, rx_state_q # "IDLE", t <= 3
  PROVE  Moved
<1>1. /\ t \in Nat /\ Length(signal) \in Nat /\ Length(signal) >= 4
      /\ Same \/ Fresh
      /\ rx_q'[2] = rx_q[1] /\ rx_q'[3] = rx_q[2]
      /\ Left \in 0 .. C - 1 /\ (rx_baud_tick <=> Left = 0)
  BY EdgeFacts, Zenon
<1>2. Closing
  <2>1. ~(t > 3)
    BY <1>1
  <2> QED BY <2>1, Zenon DEF PhaseInv
<1>3. /\ rx_state_q = "START" \/ rx_state_q = "STOP"
      /\ Left = 0 \/ Left = 1 \/ Left = 2
      /\ t # 3 /\ (t = 2 => Left = 0) /\ (t # 0 => Left = 0 \/ Left = 1)
      /\ rx_state_q = "START" => Next3 = 1
  BY <1>1, <1>2, Numbers DEF Closing
<1>4. /\ t' <= 3 /\ ~(t' > 3)
      /\ (t' = 3 => t = 2) /\ (t' = 2 => t = 1)
      /\ Same => Current' = Current /\ ~Fresh
      /\ Fresh => Current = << >> /\ ~Same
  <2>1. CASE Same
    <3>1. t' = t + 1 /\ t > 0 /\ signal' = signal /\ ~Fresh
      BY <1>1, <2>1 DEF Same, Fresh
    <3>2. t \in 1 .. 3 /\ t' \in 1 .. 3 /\ ~(t' > 3) /\ t' <= 3 /\ (t' = 3 => t = 2) /\ (t' = 2 => t = 1)
      <4>1. t = 1 \/ t = 2
        <5>1. t # 3 /\ t \in Nat
          BY <1>1, <1>3, Zenon
        <5> QED BY <3>1, <5>1
      <4>2. (t = 1 /\ t' = 2) \/ (t = 2 /\ t' = 3)
        BY <3>1, <4>1
      <4> QED BY <4>2
    <3>3. Current' = Current
      BY <3>1, <3>2, Zenon DEF Current
    <3> QED BY <2>1, <3>1, <3>2, <3>3, Zenon
  <2>2. CASE Fresh
    <3>1. t = 0 /\ t \notin 1 .. 3 /\ ~(t > 3) /\ t' <= 3 /\ t' # 3 /\ t' # 2 /\ ~(t' > 3) /\ ~Same
      BY <1>1, <2>2 DEF Same, Fresh
    <3>2. Current = << >>
      BY <3>1, Zenon DEF Current
    <3> QED BY <2>2, <3>1, <3>2, Zenon
  <2> QED BY <1>1, <2>1, <2>2, Zenon
<1>5. CASE Left = 1 \/ Left = 2
  <2>0. Left # 0
    BY <1>5
  <2>1. Left' = Left - 1 /\ UNCHANGED <<rx_state_q, rx_bit_counter_q, rx_current_byte_q>>
    BY <2>0, NoTick, Zenon
  <2>2. Next3' = Next3
    <3>1. CASE Left = 1
      <4>1. Left' = 0 /\ Left # 0
        BY <2>1, <3>1
      <4> QED BY <1>1, <3>1, <4>1, Zenon DEF Next3
    <3>2. CASE Left = 2
      <4>1. Left' = 1 /\ Left' # 0 /\ Left # 0 /\ Left # 1
        BY <2>1, <3>2
      <4> QED BY <1>1, <4>1, Zenon DEF Next3
    <3> QED BY <1>5, <3>1, <3>2
  <2>3. Left' <= 2 /\ (t' # 0 => Left' <= 1) /\ t' # 3 /\ (t' = 2 => Left' = 0)
    <3>1. Left' = 0 \/ Left' = 1
      BY <1>5, <2>1
    <3>2. t' = 2 => Left = 1
      <4>1. t' = 2 => t # 0
        BY <1>4
      <4> QED BY <1>3, <2>0, <4>1, Zenon
    <3>3. t' # 3
      BY <1>3, <1>4, <2>0, Zenon
    <3> QED BY <2>1, <3>1, <3>2, <3>3
  <2>4. Closing'
    BY <1>2, <2>1, <2>2, <2>3, Zenon DEF Closing
  <2>5. Before' = Before
    BY <1>4, <2>1, <2>2, Zenon DEF Before
  <2>6. Gone = << >>
    BY <1>1, <2>0, Zenon DEF Gone, rx_fifo_wvalid
  <2>7. PhaseInv'
    BY <1>4, <2>1, <2>4, Zenon DEF PhaseInv
  <2> QED BY <1>4, <2>5, <2>6, <2>7, Zenon DEF Moved, Flow
<1>6. CASE Left = 0
  <2>1. Next3 = rx_q[3]
    BY <1>6, Zenon DEF Next3
  <2>2. rx_state_q' = "IDLE"
    <3>1. CASE rx_state_q = "START"
      <4>1. rx_q[3] # 0
        BY <1>3, <2>1, <3>1
      <4>2. rx_state_d = "IDLE"
        BY <3>1, <4>1, Zenon DEF rx_state_d
      <4> QED BY <1>6, <4>2, Tick, Zenon
    <3>2. CASE rx_state_q = "STOP"
      <4>1. rx_state_d = "IDLE"
        BY <3>2 DEF rx_state_d
      <4> QED BY <1>6, <4>1, Tick, Zenon
    <3> QED BY <1>3, <3>1, <3>2, Zenon
  <2>3. Gone = Before
    BY <1>1, <1>6, <2>1, Zenon DEF Gone, Before, rx_fifo_wvalid, rx_valid
  <2>4. Before' = << >>
    BY <2>2, Zenon DEF Before
  <2>5. PhaseInv'
    BY <1>4, <2>2, Zenon DEF PhaseInv
  <2> QED BY <1>4, <2>3, <2>4, <2>5, Zenon DEF Moved, Flow
<1> QED BY <1>3, <1>5, <1>6, Zenon

\* What the receiver finds at its next tick is the slot it is in, whatever the phase it started at.
Sample == IF signal.kind = "glitch" THEN 1 ELSE SlotValue(signal, Slot)

LEMMA Coming ==
  ASSUME Lines, Regs, InStep
  PROVE  /\ Slot \in Nat /\ Slot <= NumBits + 1 /\ At(C, Slot, 0) \in Nat /\ At(C, Slot + 1, 0) = At(C, Slot, 0) + C
         /\ Offset = 0 \/ Offset = Half
         /\ t + Offset = 4 + At(C, Slot, 0) + rx_baud_counter_q
         /\ t + Offset + Left = 3 + At(C, Slot + 1, 0)
<1>1. Slot \in Nat /\ Slot <= NumBits + 1
  BY Numbers DEF Slot, Regs
<1>2. Offset = 0 \/ Offset = Half
  BY Zenon DEF Offset
<1>3. rx_baud_counter_q \in 0 .. C - 1 /\ C \in Nat /\ 0 \in 0 .. C - 1
  BY Numbers DEF Regs
<1>4. /\ At(C, Slot, 0) \in Nat /\ At(C, Slot, rx_baud_counter_q) = At(C, Slot, 0) + rx_baud_counter_q
      /\ At(C, Slot + 1, 0) = At(C, Slot, 0) + C
  BY <1>1, <1>3, Slots, Zenon
<1> DEFINE a == At(C, Slot, 0)
           e == At(C, Slot + 1, 0)
<1>5. a \in Nat /\ e = a + C /\ t + Offset = 4 + (a + rx_baud_counter_q)
  BY <1>4, Zenon DEF InStep
<1>6. t \in Nat
  BY Zenon DEF Lines
<1> HIDE DEF a, e
<1>7. t + Offset = 4 + a + rx_baud_counter_q /\ t + Offset + Left = 3 + e
  BY <1>2, <1>3, <1>5, <1>6, Numbers DEF Left
<1> QED BY <1>1, <1>2, <1>5, <1>7, Zenon DEF a, e

\* The next tick, Left cycles away, is in the sender's slot of that number.
LEMMA SampleTime ==
  ASSUME Lines, Regs, InStep
  PROVE  /\ t - 3 + Left \in Nat /\ Offset + (t - 3 + Left) = At(C, Slot + 1, 0)
         /\ At(signal.clocks, Slot, 0) \in Nat /\ At(signal.clocks, Slot + 1, 0) = At(signal.clocks, Slot, 0) + signal.clocks
         /\ At(signal.clocks, Slot, 0) < t - 3 + Left
         /\ t - 3 + Left <= At(signal.clocks, Slot + 1, 0)
         /\ coincided /\ C # signal.clocks => t - 3 + Left < At(signal.clocks, Slot + 1, 0)
         /\ ~coincided => t - 3 + Left < At(signal.clocks, Slot + 1, 0)
<1> DEFINE b == signal.clocks
           k == Slot
           a == At(C, k + 1, 0)
           x == At(b, k, 0)
           y == At(b, k + 1, 0)
<1>1. /\ k \in Nat /\ k <= NumBits + 1 /\ At(C, k, 0) \in Nat /\ a = At(C, k, 0) + C
      /\ t + Offset + Left = 3 + a
  BY Coming, Zenon
<1>2. Offset = (IF coincided THEN 0 ELSE Half) /\ (coincided => C <= b)
  BY Zenon DEF Offset, InStep
<1>3. b \in Nat /\ b >= 4
  BY Clocks, Zenon DEF Lines
<1>4. /\ x + Half < a /\ a < y + Half
      /\ (C <= b => a <= y) /\ (C < b => a < y)
  BY <1>1, Clocks, Zenon DEF Lines
<1>5. x \in Nat /\ y = x + b
  <2>1. 0 \in 0 .. b - 1
    BY <1>3
  <2> QED BY <1>1, <1>3, <2>1, Slots, Zenon
<1>6. t \in Nat /\ Left \in 0 .. C - 1 /\ coincided \in BOOLEAN
  BY Numbers DEF Lines, Regs, Left
<1>7. At(C, k, 0) \in Nat /\ a \in Nat /\ C \in Nat
  BY <1>1, Numbers
<1> HIDE DEF b, k, a, x, y
<1> DEFINE s == t - 3 + Left
<1>8. s = a - Offset /\ Offset + s = a
  BY <1>1, <1>2, <1>6, <1>7, Numbers
<1>9. x < s /\ s <= y /\ (coincided /\ C # b => s < y) /\ (~coincided => s < y) /\ s \in Nat
  <2> HIDE DEF s
  <2>1. CASE coincided
    <3>1. s = a /\ C <= b
      BY <1>2, <1>7, <1>8, <2>1
    <3> QED BY <1>3, <1>4, <1>5, <1>7, <2>1, <3>1, Numbers
  <2>2. CASE ~coincided
    <3>1. s = a - Half
      BY <1>2, <1>8, <2>2
    <3> QED BY <1>4, <1>5, <1>7, <2>2, <3>1, Numbers
  <2> QED BY <1>6, <2>1, <2>2
<1> QED BY <1>5, <1>8, <1>9, Zenon DEF b, k, a, x, y, s

\* So the receiver will find there what the frame has in it.
LEMMA Sampled ==
  ASSUME Lines, Regs, InStep
  PROVE  LevelAt(signal, t - 3 + Left) = Sample
<1> DEFINE s == t - 3 + Left
           b == signal.clocks
<1>1. /\ s \in Nat /\ Offset + s = At(C, Slot + 1, 0)
      /\ At(b, Slot, 0) \in Nat /\ At(b, Slot + 1, 0) = At(b, Slot, 0) + b
      /\ At(b, Slot, 0) < s /\ s <= At(b, Slot + 1, 0)
  BY SampleTime, Zenon
<1>2. Slot \in Nat /\ (Offset = 0 \/ Offset = Half) /\ b \in Nat
  BY Coming, Clocks, Zenon DEF Lines
<1>3. CASE signal.kind = "glitch"
  <2>1. Slot = 0
    BY <1>3, Zenon DEF InStep, Slot
  <2>2. At(C, Slot + 1, 0) = C
    <3>1. 1 * C + 0 = C
      BY Numbers, Z3
    <3>2. Slot + 1 = 1
      BY <2>1
    <3> QED BY <3>1, <3>2, Zenon DEF At
  <2>3. ~(s <= GlitchCycles)
    <3> HIDE DEF s
    <3> QED BY <1>1, <1>2, <2>2, Numbers
  <2> QED BY <1>3, <2>3, Zenon DEF LevelAt, Sample
<1>4. CASE signal.kind # "glitch"
  <2> DEFINE x == At(b, Slot, 0)
             z == s - 1 - x
  <2>1. x \in Nat /\ x < s /\ s <= x + b
    BY <1>1, Zenon
  <2>2. z \in 0 .. b - 1 /\ x + z + 1 = s
    <3> HIDE DEF x, s, b
    <3> QED BY <1>1, <1>2, <2>1
  <2> HIDE DEF z
  <2>3. At(b, Slot, z) = x + z
    BY <1>2, <2>2, Slots, Zenon
  <2>4. LevelAt(signal, At(b, Slot, z) + 1) = SlotValue(signal, Slot)
    BY <1>2, <1>4, <2>2, LevelInSlot, Zenon DEF Lines
  <2> QED BY <1>4, <2>2, <2>3, <2>4, Zenon DEF Sample
<1> QED BY <1>3, <1>4

\* A signal that ends does so in the last slot, just before the tick: so long before that a signal
\* right behind it is not missed, unless it slips.
LEMMA Ends ==
  ASSUME Lines, Regs, InStep, t = Length(signal)
  PROVE  /\ Left <= 3 /\ (Left = 3 => coincided /\ signal.clocks = C /\ Rest(signal) = 0)
         /\ signal.kind # "glitch" => Slot = NumBits + 1
<1> DEFINE b == signal.clocks
           s == t - 3 + Left
           e == Rest(signal)
           last == At(b, Slot + 1, 0)
<1>1. /\ s \in Nat /\ At(b, Slot, 0) \in Nat /\ last = At(b, Slot, 0) + b
      /\ s <= last
      /\ coincided /\ C # b => s < last
      /\ ~coincided => s < last
  BY SampleTime, Zenon
<1>2. b \in Nat /\ b >= 4 /\ e \in Nat /\ t \in Nat /\ Left \in 0 .. C - 1 /\ C \in Nat
  BY Clocks, Lengths, Numbers DEF Lines, Regs, Left
<1>3. ASSUME t = last + e
      PROVE  Left <= 3 /\ (Left = 3 => coincided /\ b = C /\ e = 0)
  <2>1. last \in Nat
    BY <1>1, <1>2
  <2>2. s = t - 3 + Left /\ s \in Nat
    BY <1>1, Zenon
  <2> HIDE DEF s, last, b, e
  <2>3. Left <= 3 /\ (Left = 3 => s = last /\ e = 0)
    BY <1>1, <1>2, <1>3, <2>1, <2>2
  <2>4. s = last => ~(s < last)
    BY <2>1
  <2>5. s = last => coincided /\ C = b
    BY <1>1, <2>4, Zenon
  <2> QED BY <2>3, <2>5, Zenon
<1>4. CASE signal.kind = "glitch"
  <2>1. Slot = 0
    BY <1>4, Zenon DEF InStep, Slot
  <2>2. last = b
    <3>1. 0 * b + 0 = 0
      BY <1>2, Z3
    <3>2. At(b, Slot, 0) = 0
      BY <2>1, <3>1, Zenon DEF At
    <3> HIDE DEF b, last
    <3> QED BY <1>1, <1>2, <3>2
  <2>3. t = last + e
    BY <1>4, <2>2, Lengths, Zenon DEF Lines
  <2> QED BY <1>3, <1>4, <2>3, Zenon
<1>5. CASE signal.kind # "glitch"
  <2> DEFINE m == At(b, NumBits + 1, 0)
             n == At(b, NumBits + 2, 0)
  <2>1. n = m + b /\ m \in Nat /\ t = n + e
    BY <1>5, Lengths, Zenon DEF Lines
  <2>2. Slot \in Nat /\ Slot <= NumBits + 1
    BY Coming, Zenon
  <2>3. Slot < NumBits + 1 => At(b, Slot, 0) + b <= m
    BY <1>2, <2>2, SlotOrder, Numbers
  <2>4. Slot = NumBits + 1
    <3>1. Slot < NumBits + 1 => last <= m
      BY <1>1, <2>3, Zenon
    <3>2. s = t - 3 + Left /\ s <= last /\ last \in Nat
      BY <1>1, <1>2
    <3> HIDE DEF s, last, m, n, b, e
    <3>3. ~(last <= m)
      BY <1>2, <2>1, <3>2
    <3> QED BY <2>2, <3>1, <3>3, Numbers
  <2>5. t = last + e
    <3>1. NumBits + 1 + 1 = NumBits + 2
      BY Numbers
    <3> QED BY <2>1, <2>4, <3>1, Zenon
  <2> QED BY <1>3, <2>4, <2>5, Zenon
<1> QED BY <1>4, <1>5, Zenon DEF b, e

\* In a frame, between two ticks.
LEMMA WaitStep ==
  ASSUME Lines, Regs, Receives, PhaseInv, rx_state_q # "IDLE", t > 3, Left # 0, ~slipped'
  PROVE  Moved
<1>1. /\ t \in Nat /\ Length(signal) \in Nat /\ Length(signal) >= 4 /\ t <= Length(signal)
      /\ Same \/ Fresh
      /\ rx_q'[2] = rx_q[1] /\ rx_q'[3] = rx_q[2]
      /\ Left \in 0 .. C - 1 /\ (rx_baud_tick <=> Left = 0)
  BY EdgeFacts, Zenon
<1>2. InStep
  BY Zenon DEF PhaseInv
<1>3. rx_baud_counter_q' = rx_baud_counter_q + 1 /\ Left' = Left - 1 /\ coincided' = coincided
      /\ UNCHANGED <<rx_state_q, rx_bit_counter_q, rx_current_byte_q>>
  BY NoTick, Zenon
<1>4. Gone = << >>
  BY <1>1, Zenon DEF Gone, rx_fifo_wvalid
<1>5. Before = << >>
  <2>1. ~(t <= 3)
    BY <1>1
  <2> QED BY <2>1, Zenon DEF Before
<1>6. CASE Same
  <2>1. t' = t + 1 /\ signal' = signal /\ t' > 3 /\ ~Fresh /\ ~(t' <= 3)
    BY <1>1, <1>6 DEF Same, Fresh
  <2>2. t + Offset = 4 + At(C, Slot, rx_baud_counter_q) /\ (Offset = 0 \/ Offset = Half)
    BY <1>2, Coming, Zenon DEF InStep
  <2>3. Slot' = Slot /\ Offset' = Offset
    BY <1>3, Zenon DEF Slot, Offset
  <2>4. t' + Offset' = 4 + At(C, Slot', rx_baud_counter_q')
    <3>1. Slot \in Nat /\ rx_baud_counter_q \in 0 .. C - 1 /\ C \in Nat
      BY <1>2, Coming, Numbers, Zenon DEF Regs
    <3>2. At(C, Slot, rx_baud_counter_q + 1) = At(C, Slot, rx_baud_counter_q) + 1 /\ At(C, Slot, rx_baud_counter_q) \in Nat
      BY <3>1, Slots, Zenon
    <3>3. Offset \in Nat
      BY <2>2, Numbers
    <3> DEFINE a == At(C, Slot, rx_baud_counter_q)
    <3>4. (t + 1) + Offset = 4 + (a + 1)
      <4>1. t + Offset = 4 + a /\ a \in Nat
        BY <2>2, <3>2, Zenon
      <4> HIDE DEF a
      <4> QED BY <1>1, <3>3, <4>1
    <3> QED BY <1>3, <2>1, <2>3, <3>2, <3>4, Zenon
  <2>5. InStep'
    BY <1>2, <1>3, <2>1, <2>4, Zenon DEF InStep
  <2>6. PhaseInv'
    BY <1>3, <2>1, <2>5, Zenon DEF PhaseInv
  <2>7. Before' = << >>
    BY <2>1, Zenon DEF Before
  <2>8. Current' = Current
    BY <1>3, <2>1, Zenon DEF Current
  <2> QED BY <1>4, <1>5, <2>1, <2>6, <2>7, <2>8, Zenon DEF Moved, Flow
<1>7. CASE Fresh
  <2>1. t = Length(signal) /\ t' \in {0, 1} /\ ~Same
    BY <1>1, <1>7 DEF Same, Fresh
  <2>2. /\ Left <= 3 /\ (Left = 3 => coincided /\ signal.clocks = C /\ Rest(signal) = 0)
        /\ signal.kind # "glitch" => Slot = NumBits + 1
    BY <1>2, <2>1, Ends, Zenon
  <2>3. (Left = 1 \/ Left = 2 \/ Left = 3) /\ (t' = 1 => Left # 3)
    <3>1. Left = 1 \/ Left = 2 \/ Left = 3
      BY <1>1, <2>2, Numbers
    <3>2. t' = 1 => Left # 3
      BY <2>1, <2>2, KeepsUp, Zenon
    <3> QED BY <3>1, <3>2, Zenon
  <2>4. LevelAt(signal, t - 3 + Left) = Sample
    BY <1>2, Sampled, Zenon
  <2>5. Next3' = Sample
    <3>1. rx_q[1] = LevelAt(signal, t - 1) /\ rx_q[2] = LevelAt(signal, t - 2)
      BY <1>1 DEF Lines, SyncInv
    <3>2. CASE Left = 1
      <4>1. Left' = 0 /\ t - 3 + Left = t - 2
        BY <1>1, <1>3, <3>2
      <4> QED BY <1>1, <2>4, <3>1, <4>1, Zenon DEF Next3
    <3>3. CASE Left = 2
      <4>1. Left' # 0 /\ Left' = 1 /\ t - 3 + Left = t - 1
        BY <1>1, <1>3, <3>3
      <4> QED BY <1>1, <2>4, <3>1, <4>1, Zenon DEF Next3
    <3>4. CASE Left = 3
      <4>1. Left' # 0 /\ Left' # 1 /\ t - 3 + Left = t /\ t # 0
        BY <1>1, <1>3, <3>4
      <4>2. rx_q'[1] = Level
        BY DEF Receives
      <4>3. Level = LevelAt(signal, t)
        BY <4>1, LevelNow, Zenon
      <4> QED BY <2>4, <4>1, <4>2, <4>3, Zenon DEF Next3
    <3> QED BY <2>3, <3>2, <3>3, <3>4
  <2>6. t' <= 3 /\ ~(t' > 3) /\ t' # 3 /\ t' # 2 /\ Left' <= 2 /\ (t' # 0 => Left' <= 1)
    BY <1>3, <2>1, <2>3
  <2>7. CASE signal.kind = "glitch"
    <3>1. rx_state_q = "START" /\ Sample = 1
      BY <1>2, <2>7, Zenon DEF InStep, Sample
    <3>2. Closing'
      BY <1>3, <2>5, <2>6, <3>1, Zenon DEF Closing
    <3>3. Before' = << >> /\ Current = << >>
      <4>1. rx_state_q' # "STOP" /\ signal.kind # "frame"
        BY <1>3, <2>7, <3>1
      <4> QED BY <4>1, Zenon DEF Before, Current
    <3>4. PhaseInv'
      BY <1>3, <2>6, <3>2, Zenon DEF PhaseInv
    <3> QED BY <1>4, <1>5, <2>1, <3>3, <3>4, Zenon DEF Moved, Flow
  <2>8. CASE signal.kind # "glitch"
    <3>1. rx_state_q = "STOP" /\ rx_current_byte_q = signal.byte
      <4>1. rx_state_q = "STOP"
        <5>1. Slot = NumBits + 1
          BY <2>2, <2>8, Zenon
        <5> QED BY <5>1, Numbers DEF Slot, Regs
      <4> QED BY <1>2, <4>1, Zenon DEF InStep
    <3>2. Sample = IF signal.kind = "frame" THEN 1 ELSE 0
      <4>1. Sample = SlotValue(signal, NumBits + 1)
        BY <2>2, <2>8, Zenon DEF Sample
      <4>2. signal.kind = "frame" \/ signal.kind = "bad_stop"
        BY <2>8 DEF Lines, Signals
      <4> QED BY <4>1, <4>2, Numbers DEF SlotValue
    <3>3. Closing'
      <4>1. rx_state_q' \in {"START", "STOP"} /\ rx_state_q' # "START"
        BY <1>3, <3>1
      <4> QED BY <2>6, <4>1, Zenon DEF Closing
    <3>4. PhaseInv'
      BY <1>3, <2>6, <3>3, Zenon DEF PhaseInv
    <3>5. Before' = Current
      <4>1. Before' = IF Sample = 1 THEN <<signal.byte>> ELSE << >>
        BY <1>3, <2>5, <2>6, <3>1, Zenon DEF Before
      <4>2. Current = IF signal.kind = "frame" THEN <<signal.byte>> ELSE << >>
        BY Zenon DEF Current
      <4>3. Sample = 1 <=> signal.kind = "frame"
        BY <3>2
      <4> QED BY <4>1, <4>2, <4>3, Zenon
    <3> QED BY <1>4, <1>5, <2>1, <3>4, <3>5, Zenon DEF Moved, Flow
  <2> QED BY <2>7, <2>8
<1> QED BY <1>1, <1>6, <1>7, Zenon

\* In a frame, at a tick: the line's value is the slot's, and the next slot begins.
LEMMA TickFacts ==
  ASSUME Lines, Regs, Receives, PhaseInv, rx_state_q # "IDLE", t > 3, Left = 0
  PROVE  /\ InStep /\ rx_q[3] = Sample /\ Before = << >>
         /\ Slot \in Nat /\ Slot <= NumBits + 1
         /\ t + 1 + Offset = 4 + At(C, Slot + 1, 0) /\ At(C, Slot + 1, 0) \in Nat
         /\ t - 3 > At(signal.clocks, Slot, 0) /\ At(signal.clocks, Slot, 0) \in Nat
         /\ signal.kind # "glitch" /\ Slot <= NumBits => Same
<1>1. /\ t \in Nat /\ Length(signal) \in Nat /\ t <= Length(signal)
      /\ Same \/ Fresh
      /\ rx_baud_counter_q = C - 1 - Left
  BY EdgeFacts, Zenon
<1>2. InStep
  BY Zenon DEF PhaseInv
<1>3. /\ Slot \in Nat /\ Slot <= NumBits + 1 /\ At(C, Slot, 0) \in Nat /\ At(C, Slot + 1, 0) = At(C, Slot, 0) + C
      /\ Offset = 0 \/ Offset = Half
      /\ t + Offset + Left = 3 + At(C, Slot + 1, 0)
      /\ LevelAt(signal, t - 3 + Left) = Sample
  BY <1>2, Coming, Sampled, Zenon
<1>4. t - 3 > At(signal.clocks, Slot, 0) /\ At(signal.clocks, Slot, 0) \in Nat
  <2> DEFINE m == At(signal.clocks, Slot, 0)
  <2>1. m < t - 3 + Left /\ m \in Nat
    BY <1>2, SampleTime, Zenon
  <2> HIDE DEF m
  <2>2. t - 3 > m
    BY <1>1, <2>1
  <2> QED BY <2>1, <2>2, Zenon DEF m
<1>5. rx_q[3] = Sample
  <2>1. rx_q[3] = LevelAt(signal, t - 3) /\ t - 3 + Left = t - 3
    BY <1>1 DEF Lines, SyncInv
  <2> QED BY <1>3, <2>1, Zenon
<1>6. Before = << >>
  <2>1. ~(t <= 3)
    BY <1>1
  <2> QED BY <2>1, Zenon DEF Before
<1>7. t + 1 + Offset = 4 + At(C, Slot + 1, 0) /\ At(C, Slot + 1, 0) \in Nat
  <2> DEFINE m == At(C, Slot + 1, 0)
             n == At(C, Slot, 0)
  <2>1. t + Offset + Left = 3 + m /\ m = n + C /\ n \in Nat
    BY <1>3, Zenon
  <2> HIDE DEF m, n
  <2>2. t + 1 + Offset = 4 + m /\ m \in Nat
    BY <1>1, <1>3, <2>1, Numbers
  <2> QED BY <2>2, Zenon DEF m
<1>8. signal.kind # "glitch" /\ Slot <= NumBits => Same
  <2> SUFFICES ASSUME signal.kind # "glitch", Slot <= NumBits, t = Length(signal) PROVE FALSE
    BY <1>1 DEF Fresh
  <2>1. Slot = NumBits + 1
    BY <1>2, Ends, Zenon
  <2> QED BY <2>1, Numbers
<1> QED BY <1>2, <1>3, <1>4, <1>5, <1>6, <1>7, <1>8, Zenon

\* The parts that make a step inside a frame one.
LEMMA NextSlot ==
  ASSUME Lines, Regs, Receives, PhaseInv, rx_state_q # "IDLE", t > 3, Left = 0, Same, signal.kind # "glitch",
         rx_state_q' # "IDLE", Slot' = Slot + 1,
         rx_state_q' = "PROC" =>
           \A i \in 1 .. rx_bit_counter_q' : rx_current_byte_q'[NumBits - rx_bit_counter_q' + i] = signal'.byte[i],
         rx_state_q' = "STOP" => rx_current_byte_q' = signal'.byte,
         Gone = << >>
  PROVE  Moved
<1>1. t \in Nat /\ t' = t + 1 /\ signal' = signal /\ ~Fresh
  <2>1. t \in Nat
    BY DEF Lines
  <2> QED BY <2>1 DEF Same, Fresh
<1>2. t' > 3 /\ ~(t' <= 3)
  BY <1>1
<1>3. t + 1 + Offset = 4 + At(C, Slot + 1, 0) /\ InStep
  BY TickFacts, Zenon
<1>4. rx_baud_counter_q' = 0 /\ coincided' = coincided
  BY Tick, Zenon
<1>5. t' + Offset' = 4 + At(C, Slot', rx_baud_counter_q')
  <2>1. Offset' = Offset
    BY <1>4, Zenon DEF Offset
  <2> QED BY <1>1, <1>3, <1>4, <2>1, Zenon
<1>6. signal'.kind # "glitch" /\ (coincided' => C <= signal'.clocks)
  BY <1>1, <1>3, <1>4, Zenon DEF InStep
<1>7. InStep'
  BY <1>5, <1>6, Zenon DEF InStep
<1>8. PhaseInv'
  BY <1>2, <1>7, Zenon DEF PhaseInv
<1>9. Before = << >> /\ Before' = << >>
  BY <1>2, TickFacts, Zenon DEF Before
<1>10. Current' = Current
  BY <1>1, <1>2, Zenon DEF Current
<1> QED BY <1>1, <1>8, <1>9, <1>10, Zenon DEF Moved, Flow

\* The last slot of a frame, and of a glitch, is over.
LEMMA LeaveFrame ==
  ASSUME Lines, Regs, Receives, PhaseInv, rx_state_q # "IDLE", t > 3, Left = 0,
         rx_state_q' = "IDLE", Gone = Current,
         IF signal.kind = "glitch" THEN Slot = 0 ELSE Slot = NumBits + 1
  PROVE  Moved
<1>1. t \in Nat /\ (Same \/ Fresh)
  BY EdgeFacts, Zenon
<1>2. Before = << >>
  BY TickFacts, Zenon
<1>3. Before' = << >>
  BY Zenon DEF Before
<1>4. CASE Same
  <2>1. t' = t + 1 /\ signal' = signal /\ ~Fresh
    BY <1>1, <1>4 DEF Same, Fresh
  <2>2. t + 1 + Offset = 4 + At(C, Slot + 1, 0) /\ t - 3 > At(signal.clocks, Slot, 0) /\ At(signal.clocks, Slot, 0) \in Nat
    BY TickFacts, Zenon
  <2>5. ASSUME signal.kind = "glitch" PROVE Passed'
    <3>1. At(C, Slot + 1, 0) = C
      <4>1. 1 * C + 0 = C
        BY Numbers, Z3
      <4>2. Slot + 1 = 1
        BY <2>5
      <4> QED BY <4>1, <4>2, Zenon DEF At
    <3>2. Offset = 0 \/ Offset = Half
      BY Zenon DEF Offset
    <3>3. t' - 3 > GlitchCycles
      BY <1>1, <2>1, <2>2, <3>1, <3>2, Numbers
    <3> QED BY <2>1, <2>5, <3>3, Zenon DEF Passed
  <2>6. ASSUME signal.kind # "glitch" PROVE Passed'
    <3> DEFINE m == At(signal.clocks, NumBits + 1, 0)
    <3>1. t - 3 > m /\ m \in Nat
      BY <2>2, <2>6, Zenon
    <3> HIDE DEF m
    <3>2. t' - 3 > m
      BY <1>1, <2>1, <3>1
    <3> QED BY <2>1, <2>6, <3>2, Zenon DEF Passed, m
  <2>7. Passed'
    BY <2>5, <2>6, Zenon
  <2>8. PhaseInv'
    BY <2>7, Zenon DEF PhaseInv
  <2>9. t' \notin 1 .. 3
    BY <1>1, <2>1
  <2>10. Current' = << >>
    BY <2>9, Zenon DEF Current
  <2> QED BY <1>2, <1>3, <2>1, <2>8, <2>10, Zenon DEF Moved, Flow
<1>5. CASE Fresh
  <2>1. ~(t' > 3) /\ ~Same
    BY <1>1, <1>5 DEF Same, Fresh
  <2> QED BY <1>2, <1>3, <2>1, Zenon DEF Moved, Flow, PhaseInv
<1> QED BY <1>1, <1>4, <1>5, Zenon

LEMMA StartTick ==
  ASSUME Lines, Regs, Receives, PhaseInv, rx_state_q = "START", t > 3, Left = 0
  PROVE  Moved
<1>1. InStep /\ rx_q[3] = Sample /\ (signal.kind # "glitch" /\ Slot <= NumBits => Same)
  BY TickFacts, Zenon
<1>2. Slot = 0
  BY Zenon DEF Slot
<1>3. Gone = << >>
  BY Zenon DEF Gone, rx_fifo_wvalid, rx_valid
<1>4. rx_state_q' = rx_state_d /\ rx_bit_counter_q' = rx_bit_counter_d
  BY Tick, Zenon
<1>5. CASE signal.kind = "glitch"
  <2>1. rx_q[3] # 0
    BY <1>1, <1>5 DEF Sample
  <2>2. rx_state_q' = "IDLE"
    BY <1>4, <2>1, Zenon DEF rx_state_d
  <2>3. Current = << >>
    BY <1>5 DEF Current
  <2> QED BY <1>2, <1>3, <1>5, <2>2, <2>3, LeaveFrame, Zenon
<1>6. CASE signal.kind # "glitch"
  <2>1. rx_q[3] = 0
    BY <1>1, <1>2, <1>6 DEF Sample, SlotValue
  <2>2. rx_state_q' = "PROC" /\ rx_bit_counter_q' = 0
    BY <1>4, <2>1, Zenon DEF rx_state_d, rx_bit_counter_d
  <2>3. Slot' = Slot + 1
    BY <1>2, <2>2 DEF Slot
  <2>4. Same
    BY <1>1, <1>2, <1>6, Numbers
  <2>5. \A i \in 1 .. rx_bit_counter_q' : rx_current_byte_q'[NumBits - rx_bit_counter_q' + i] = signal'.byte[i]
    <3>1. \A i \in 1 .. rx_bit_counter_q' : FALSE
      BY <2>2
    <3> QED BY <3>1, Zenon
  <2>6. rx_state_q' # "IDLE" /\ rx_state_q' # "STOP"
    BY <2>2
  <2> QED BY <1>3, <1>6, <2>3, <2>4, <2>5, <2>6, NextSlot, Zenon
<1> QED BY <1>5, <1>6

\* Each data bit goes in behind the ones before it.
LEMMA Shifted ==
  ASSUME NEW cur \in Byte, NEW bit \in Bit
  PROVE  /\ Append(Tail(cur), bit) \in Byte /\ Append(Tail(cur), bit)[NumBits] = bit
         /\ \A j \in 1 .. NumBits - 1 : Append(Tail(cur), bit)[j] = cur[j + 1]
<1>1. NumBits \in Nat /\ NumBits >= 1
  BY Numbers
<1>2. cur \in [1 .. NumBits -> Bit]
  BY DEF Byte
<1>3. cur \in Seq(Bit) /\ Len(cur) = NumBits
  BY <1>1, <1>2
<1>4. cur # << >>
  BY <1>1, <1>3
<1> DEFINE tail == Tail(cur)
           next == Append(Tail(cur), bit)
<1>5. /\ tail \in Seq(Bit) /\ Len(tail) = NumBits - 1
      /\ \A j \in 1 .. NumBits - 1 : tail[j] = cur[j + 1]
  BY <1>3, <1>4, HeadTailProperties
<1> HIDE DEF tail
<1>6. /\ Append(tail, bit) \in Seq(Bit) /\ Len(Append(tail, bit)) = NumBits
      /\ \A j \in 1 .. NumBits - 1 : Append(tail, bit)[j] = tail[j]
      /\ Append(tail, bit)[NumBits] = bit
  BY <1>1, <1>5, AppendProperties
<1>7. next = Append(tail, bit)
  BY Zenon DEF tail
<1> HIDE DEF next
<1>8. next \in Seq(Bit) /\ Len(next) = NumBits
  BY <1>6, <1>7
<1>9. next \in Byte
  <2>1. next \in [1 .. Len(next) -> Bit]
    BY <1>8, LenProperties, Zenon
  <2> QED BY <1>8, <2>1, Zenon DEF Byte
<1>10. \A j \in 1 .. NumBits - 1 : next[j] = cur[j + 1]
  BY <1>5, <1>6, <1>7, Zenon
<1> QED BY <1>6, <1>7, <1>9, <1>10, Zenon DEF next

LEMMA ProcTick ==
  ASSUME Lines, Regs, Receives, PhaseInv, rx_state_q = "PROC", t > 3, Left = 0
  PROVE  Moved
<1> DEFINE n == rx_bit_counter_q
<1>0. n \in 0 .. NumBits - 1 /\ rx_q[3] \in Bit /\ rx_current_byte_q \in Byte /\ signal.byte \in Byte
  BY DEF Regs, Lines, Signals
<1>1. InStep /\ rx_q[3] = Sample /\ (signal.kind # "glitch" /\ Slot <= NumBits => Same)
  BY TickFacts, Zenon
<1>2. Slot = n + 1 /\ n + 1 \in 1 .. NumBits /\ n + 1 # 0 /\ n + 1 # NumBits + 1 /\ n + 1 <= NumBits
  BY <1>0, Numbers DEF Slot
<1>3. Gone = << >>
  BY Zenon DEF Gone, rx_fifo_wvalid, rx_valid
<1>4. /\ rx_state_q' = IF n = NumBits - 1 THEN "STOP" ELSE "PROC"
      /\ rx_bit_counter_q' = IF n = NumBits - 1 THEN n ELSE n + 1
      /\ rx_current_byte_q' = Append(Tail(rx_current_byte_q), rx_q[3])
  BY Tick, Zenon DEF rx_state_d, rx_bit_counter_d, rx_current_byte_d
<1>5. signal.kind # "glitch" /\ Same
  BY <1>1, <1>2 DEF InStep
<1>6. rx_q[3] = signal.byte[n + 1]
  BY <1>1, <1>2, <1>5, Zenon DEF Sample, SlotValue
<1>7. signal' = signal
  BY <1>5, Zenon DEF Same
<1>8. \A i \in 1 .. n : rx_current_byte_q[NumBits - n + i] = signal.byte[i]
  BY <1>1, Zenon DEF InStep
<1> DEFINE next == rx_current_byte_q'
<1>9. next \in Byte /\ next[NumBits] = rx_q[3] /\ \A j \in 1 .. NumBits - 1 : next[j] = rx_current_byte_q[j + 1]
  <2> DEFINE app == Append(Tail(rx_current_byte_q), rx_q[3])
  <2>1. app \in Byte /\ app[NumBits] = rx_q[3] /\ \A j \in 1 .. NumBits - 1 : app[j] = rx_current_byte_q[j + 1]
    BY <1>0, Shifted, Zenon
  <2>2. next = app
    BY <1>4, Zenon
  <2> HIDE DEF app, next
  <2> QED BY <2>1, <2>2, Zenon
<1>10. \A i \in 1 .. n + 1 : next[NumBits - (n + 1) + i] = signal.byte[i]
  <2> SUFFICES ASSUME NEW i \in 1 .. n + 1 PROVE next[NumBits - (n + 1) + i] = signal.byte[i]
    OBVIOUS
  <2> HIDE DEF n, next
  <2>1. CASE i = n + 1
    <3>1. NumBits - (n + 1) + i = NumBits
      BY <1>0, <2>1, Numbers
    <3> QED BY <1>6, <1>9, <2>1, <3>1, Zenon
  <2>2. CASE i # n + 1
    <3>1. i \in 1 .. n /\ NumBits - (n + 1) + i \in 1 .. NumBits - 1
          /\ NumBits - (n + 1) + i + 1 = NumBits - n + i
      BY <1>0, <2>2, Numbers
    <3> QED BY <1>8, <1>9, <3>1, Zenon
  <2> QED BY <2>1, <2>2
<1>11. CASE n = NumBits - 1
  <2>1. rx_state_q' = "STOP" /\ rx_state_q' # "IDLE" /\ rx_state_q' # "PROC"
    BY <1>4, <1>11
  <2>2. Slot' = Slot + 1
    <3>1. Slot' = NumBits + 1
      BY <2>1 DEF Slot
    <3> QED BY <1>2, <1>11, <3>1, Numbers
  <2>3. next = signal.byte
    <3> HIDE DEF next, n
    <3>1. \A i \in 1 .. NumBits : next[i] = signal.byte[i]
      <4>1. n + 1 = NumBits /\ \A i \in 1 .. NumBits : NumBits - (n + 1) + i = i
        BY <1>11, Numbers
      <4> QED BY <1>10, <4>1, Zenon
    <3>2. next = [i \in 1 .. NumBits |-> next[i]] /\ signal.byte = [i \in 1 .. NumBits |-> signal.byte[i]]
      BY <1>0, <1>9 DEF Byte
    <3>3. [i \in 1 .. NumBits |-> next[i]] = [i \in 1 .. NumBits |-> signal.byte[i]]
      BY <3>1, Zenon
    <3> QED BY <3>2, <3>3, Zenon
  <2> QED BY <1>3, <1>5, <1>7, <2>1, <2>2, <2>3, NextSlot, Zenon
<1>12. CASE n # NumBits - 1
  <2>1. rx_state_q' = "PROC" /\ rx_state_q' # "IDLE" /\ rx_state_q' # "STOP" /\ rx_bit_counter_q' = n + 1
    BY <1>4, <1>12
  <2>2. Slot' = Slot + 1
    <3>1. Slot' = (n + 1) + 1
      BY <2>1, Zenon DEF Slot
    <3> QED BY <1>2, <3>1
  <2>3. \A i \in 1 .. rx_bit_counter_q' : next[NumBits - rx_bit_counter_q' + i] = signal'.byte[i]
    BY <1>7, <1>10, <2>1, Zenon
  <2> QED BY <1>3, <1>5, <2>1, <2>2, <2>3, NextSlot, Zenon
<1> QED BY <1>11, <1>12

LEMMA StopTick ==
  ASSUME Lines, Regs, Receives, PhaseInv, rx_state_q = "STOP", t > 3, Left = 0
  PROVE  Moved
<1>1. InStep /\ rx_q[3] = Sample
  BY TickFacts, Zenon
<1>2. Slot = NumBits + 1
  BY DEF Slot
<1>3. signal.kind # "glitch" /\ rx_current_byte_q = signal.byte
  BY <1>1 DEF InStep
<1>4. rx_state_q' = "IDLE"
  <2>1. rx_state_d = "IDLE"
    BY DEF rx_state_d
  <2> QED BY <2>1, Tick, Zenon
<1>5. rx_q[3] = 1 <=> signal.kind = "frame"
  <2>1. signal.kind = "frame" \/ signal.kind = "bad_stop"
    BY <1>3 DEF Lines, Signals
  <2> QED BY <1>1, <1>2, <1>3, <2>1, Numbers DEF Sample, SlotValue
<1>6. Gone = Current
  <2>1. rx_baud_tick
    BY EdgeFacts, Zenon
  <2>2. Gone = IF rx_q[3] = 1 THEN <<signal.byte>> ELSE << >>
    BY <1>3, <2>1, Zenon DEF Gone, rx_fifo_wvalid, rx_valid
  <2>3. Current = IF signal.kind = "frame" THEN <<signal.byte>> ELSE << >>
    <3>1. rx_state_q # "IDLE"
      OBVIOUS
    <3> QED BY <3>1, Zenon DEF Current
  <2> QED BY <1>5, <2>2, <2>3, Zenon
<1>7. rx_state_q # "IDLE"
  OBVIOUS
<1> QED BY <1>2, <1>3, <1>4, <1>6, <1>7, LeaveFrame, Zenon

\* Every edge keeps the receiver in step with the line, and moves the bytes on in order.
LEMMA RxStep ==
  ASSUME Lines, Regs, Receives, PhaseInv, ~slipped'
  PROVE  Moved
<1>1. rx_state_q = "IDLE" \/ rx_state_q = "START" \/ rx_state_q = "PROC" \/ rx_state_q = "STOP"
  BY DEF Regs
<1>2. t <= 3 \/ t > 3
  BY DEF Lines
<1>3. CASE rx_state_q = "IDLE"
  BY <1>3, IdleStep
<1>4. CASE rx_state_q # "IDLE" /\ t <= 3
  BY <1>4, ClosingStep
<1>5. CASE rx_state_q # "IDLE" /\ t > 3 /\ Left # 0
  BY <1>5, WaitStep
<1>6. CASE rx_state_q # "IDLE" /\ t > 3 /\ Left = 0
  BY <1>1, <1>6, StartTick, ProcTick, StopTick, Zenon
<1> QED BY <1>2, <1>3, <1>4, <1>5, <1>6, Zenon

\* The registers keep their types.
LEMMA RegsType ==
  ASSUME Lines, Regs, Receives
  PROVE  Regs'
<1>1. /\ Left \in 0 .. C - 1 /\ rx_baud_counter_q = C - 1 - Left /\ (rx_baud_tick <=> Left = 0)
      /\ rx_q[3] \in Bit
  BY EdgeFacts, Zenon
<1>2. rx_baud_counter_q' \in 0 .. C - 1
  <2>1. /\ rx_baud_counter_q' = 0 \/ rx_baud_counter_q' = Half \/ rx_baud_counter_q' = rx_baud_counter_q + 1
        /\ Left = 0 => rx_baud_counter_q' = 0
    BY <1>1, Zenon DEF Receives, rx_baud_counter_d, Half, C
  <2> QED BY <1>1, <2>1, Numbers
<1>3. rx_state_q' \in {"IDLE", "START", "PROC", "STOP"}
  <2>1. rx_state_q' = rx_state_d \/ rx_state_q' = rx_state_q
    BY Zenon DEF Receives, ReceiveStep
  <2> QED BY <2>1 DEF Regs, rx_state_d
<1>4. rx_bit_counter_q' \in 0 .. NumBits - 1
  <2>1. rx_bit_counter_q' = rx_bit_counter_d \/ rx_bit_counter_q' = rx_bit_counter_q
    BY Zenon DEF Receives, ReceiveStep
  <2>2. rx_bit_counter_d \in 0 .. NumBits - 1
    BY Numbers DEF Regs, rx_bit_counter_d
  <2> QED BY <2>1, <2>2, Zenon DEF Regs
<1>5. rx_current_byte_q' \in Byte
  <2>1. rx_current_byte_q' = rx_current_byte_d \/ rx_current_byte_q' = rx_current_byte_q
    BY Zenon DEF Receives, ReceiveStep
  <2>2. Append(Tail(rx_current_byte_q), rx_q[3]) \in Byte
    BY <1>1, Shifted, Zenon DEF Regs
  <2>3. Zeros \in Byte
    BY DEF Zeros, Byte, Bit
  <2>4. rx_current_byte_d \in Byte
    <3>1. rx_state_q = "IDLE" \/ rx_state_q = "START" \/ rx_state_q = "PROC" \/ rx_state_q = "STOP"
      BY DEF Regs
    <3>2. CASE rx_state_q = "START"
      BY <2>3, <3>2, Zenon DEF rx_current_byte_d
    <3>3. CASE rx_state_q = "PROC"
      BY <2>2, <3>3, Zenon DEF rx_current_byte_d
    <3>4. CASE rx_state_q = "IDLE" \/ rx_state_q = "STOP"
      <4>1. rx_current_byte_d = rx_current_byte_q
        BY <3>4 DEF rx_current_byte_d
      <4> QED BY <4>1, Zenon DEF Regs
    <3> QED BY <3>1, <3>2, <3>3, <3>4, Zenon
  <2> QED BY <2>1, <2>4, Zenon DEF Regs
<1> QED BY <1>2, <1>3, <1>4, <1>5, Zenon DEF Regs

-----------------------------------------------------------------------------
(* The order of the bytes.                                                 *)

LEMMA Empty == ASSUME NEW S, NEW s \in Seq(S)
               PROVE  s \o << >> = s /\ << >> \o s = s /\ << >> \in Seq(S)
OBVIOUS

LEMMA Joined == ASSUME NEW S, NEW a \in Seq(S), NEW b \in Seq(S)
                PROVE  a \o b \in Seq(S) /\ Len(a \o b) = Len(a) + Len(b)
BY ConcatProperties

LEMMA Assoc == \A a, b, c \in Seq(Byte) : (a \o b) \o c = a \o (b \o c)
BY ConcatAssociative

LEMMA JoinedNotEmpty == ASSUME NEW S, NEW a \in Seq(S), NEW b \in Seq(S), a # << >>
                        PROVE  a \o b # << >>
BY ConcatEqualIffEmpty

LEMMA ByteSeqs ==
  ASSUME Lines, Regs
  PROVE  Gone \in Seq(Byte) /\ Before \in Seq(Byte) /\ Current \in Seq(Byte)
<1>1. <<rx_current_byte_q>> \in Seq(Byte) /\ << >> \in Seq(Byte)
  BY DEF Regs
<1>2. <<signal.byte>> \in Seq(Byte)
  BY DEF Lines, Signals
<1> QED BY <1>1, <1>2, Zenon DEF Gone, Before, Current

LEMMA OrderStep ==
  ASSUME Lines, Lines', Regs, Regs', Receives, PhaseInv, OrderInv, arrived \in Seq(Byte), arrived' = arrived \o Gone,
         ~slipped'
  PROVE  OrderInv'
<1> DEFINE a == arrived
           b == Before
           c == Current
           g == Gone
           b2 == Before'
           c2 == Current'
           n == New
<1>1. /\ a \in Seq(Byte) /\ b \in Seq(Byte) /\ c \in Seq(Byte) /\ g \in Seq(Byte)
      /\ b2 \in Seq(Byte) /\ c2 \in Seq(Byte)
  <2>1. Gone \in Seq(Byte) /\ Before \in Seq(Byte) /\ Current \in Seq(Byte)
    BY ByteSeqs, Zenon
  <2>2. Before' \in Seq(Byte)
    <3>1. <<rx_current_byte_q'>> \in Seq(Byte) /\ << >> \in Seq(Byte)
      BY DEF Regs
    <3> QED BY <3>1, Zenon DEF Before
  <2>3. Current' \in Seq(Byte)
    <3>1. <<signal'.byte>> \in Seq(Byte) /\ << >> \in Seq(Byte)
      BY DEF Lines, Signals
    <3> QED BY <3>1, Zenon DEF Current
  <2> QED BY <2>1, <2>2, <2>3, Zenon
<1>2. /\ sent = (a \o b) \o c /\ sent' = sent \o n /\ arrived' = a \o g
      /\ Same \/ Fresh
  BY SenderMoves, Zenon DEF OrderInv, Receives
<1>3. Same => n = << >>
  <2>1. Same => ~Fresh
    <3>1. Length(signal) \in Nat /\ t \in Nat
      BY EdgeFacts, Zenon
    <3> QED BY <3>1 DEF Same, Fresh
  <2> QED BY <2>1, Zenon DEF New
<1>4. Fresh => c2 = n
  BY FreshNew, Zenon
<1>5. Moved
  BY RxStep, Zenon
<1>6. ASSUME NEW k \in Seq(Byte), Flow(k)
      PROVE  (a \o b) \o c = ((a \o g) \o b2) \o k
  <2>1. \/ g = << >> /\ b2 = b /\ k = c
        \/ g = b /\ b2 = << >> /\ k = c
        \/ g = c /\ b = << >> /\ b2 = << >> /\ k = << >>
        \/ g = << >> /\ b = << >> /\ b2 = c /\ k = << >>
    BY <1>6, Zenon DEF Flow
  <2> HIDE DEF a, b, c, g, b2, c2, n
  <2>2. /\ a \o << >> = a /\ a \o b \in Seq(Byte) /\ a \o c \in Seq(Byte) /\ (a \o b) \o << >> = a \o b
        /\ (a \o c) \o << >> = a \o c
    BY <1>1, Empty, Joined, Zenon
  <2> QED BY <2>1, <2>2, Zenon
<1>7. sent' = ((a \o g) \o b2) \o c2
  <2>1. CASE Same
    <3>1. Flow(c2)
      BY <1>5, <2>1, Zenon DEF Moved
    <3>2. sent' = sent
      BY <2>1, Zenon DEF Same
    <3>3. (a \o b) \o c = ((a \o g) \o b2) \o c2
      BY <1>1, <1>6, <3>1, Zenon
    <3> QED BY <1>2, <3>2, <3>3, Zenon
  <2>2. CASE Fresh
    <3>1. Flow(<< >>)
      BY <1>5, <2>2, Zenon DEF Moved
    <3>2. << >> \in Seq(Byte)
      OBVIOUS
    <3>3. (a \o b) \o c = ((a \o g) \o b2) \o << >>
      BY <1>6, <3>1, <3>2, Zenon
    <3>4. ((a \o g) \o b2) \o << >> = (a \o g) \o b2
      BY <1>1, Joined, Empty, Zenon
    <3> QED BY <1>2, <1>4, <2>2, <3>3, <3>4, Zenon
  <2> QED BY <1>2, <2>1, <2>2, Zenon
<1> QED BY <1>2, <1>7, Zenon DEF OrderInv

-----------------------------------------------------------------------------
(* The FIFO and uart_in.                                                   *)

Hands == /\ rx_fifo \in Seq(Byte) /\ Len(rx_fifo) <= RxFifoDepth
         /\ arrived \in Seq(Byte) /\ got \in Seq(Byte) /\ res \in Seq(Byte) /\ Len(res) <= 1
         /\ kept \in Seq(1 .. Len(arrived)) /\ dropped \subseteq 1 .. Len(arrived)
         /\ pc \in {"away", "status", "fetch", "take"}

\* What the FIFO takes of what arrives, and what the program has and has waiting.
Taken == IF Len(rx_fifo) < RxFifoDepth THEN Gone ELSE << >>
Had == got \o res \o rx_fifo

\* The histories note what arrives, and whether it found room.
Booked ==
  \/ Taken = << >> /\ UNCHANGED <<arrived, kept, dropped>>
  \/ /\ Taken = <<rx_current_byte_q>> /\ arrived' = Append(arrived, rx_current_byte_q)
     /\ kept' = Append(kept, Len(arrived) + 1) /\ dropped' = dropped
  \/ /\ Taken = << >> /\ arrived' = Append(arrived, rx_current_byte_q)
     /\ kept' = kept /\ dropped' = dropped \cup {Len(arrived) + 1}

\* What the histories say of the bytes h that came through the FIFO.
Books(h, a, k, d) ==
  /\ h = [i \in 1 .. Len(k) |-> a[k[i]]]
  /\ \A i \in 2 .. Len(k) : k[i - 1] < k[i]
  /\ {k[i] : i \in 1 .. Len(k)} = 1 .. Len(a) \ d

LEMMA FifoEdge ==
  ASSUME Regs, Hands, NEW pop \in BOOLEAN, Edge(pop)
  PROVE  /\ Gone \in Seq(Byte) /\ Taken \in Seq(Byte)
         /\ rx_fifo' = (IF pop /\ rx_fifo # << >> THEN Tail(rx_fifo) ELSE rx_fifo) \o Taken
         /\ rx_fifo' \in Seq(Byte) /\ Len(rx_fifo') <= RxFifoDepth
         /\ arrived' = arrived \o Gone /\ Booked
<1> DEFINE rest == IF pop /\ rx_fifo # << >> THEN Tail(rx_fifo) ELSE rx_fifo
<1>1. Gone \in Seq(Byte) /\ Len(Gone) \in 0 .. 1 /\ << >> \in Seq(Byte) /\ Len(<< >>) = 0
      /\ (rx_fifo_wvalid => Len(Gone) = 1) /\ (~rx_fifo_wvalid => Gone = << >>)
  <2>1. <<rx_current_byte_q>> \in Seq(Byte) /\ << >> \in Seq(Byte) /\ Len(<<rx_current_byte_q>>) = 1 /\ Len(<< >>) = 0
    BY DEF Regs
  <2>2. 0 \in 0 .. 1 /\ 1 \in 0 .. 1
    OBVIOUS
  <2> QED BY <2>1, <2>2, Zenon DEF Gone
<1>2. Taken \in Seq(Byte) /\ Taken = Accepted(rx_fifo, RxFifoDepth, Gone)
  BY <1>1, Zenon DEF Taken, Accepted
<1>3. rx_fifo' = rest \o Taken
  BY <1>2, Zenon DEF Edge, RxEdge, AfterEdge, Remaining, Gone
<1>4. rest \in Seq(Byte) /\ Len(rest) <= Len(rx_fifo) /\ Len(rest) \in Nat /\ Len(rx_fifo) \in Nat
  <2>1. CASE pop /\ rx_fifo # << >>
    <3>1. rest = Tail(rx_fifo)
      BY <2>1, Zenon
    <3> HIDE DEF rest
    <3>2. Tail(rx_fifo) \in Seq(Byte) /\ Len(Tail(rx_fifo)) = Len(rx_fifo) - 1 /\ Len(rx_fifo) \in Nat
      BY <2>1, HeadTailProperties, LenProperties, Zenon DEF Hands
    <3>3. Len(Tail(rx_fifo)) \in Nat
      BY <3>2, LenProperties, Zenon
    <3> QED BY <3>1, <3>2, <3>3
  <2>2. CASE ~(pop /\ rx_fifo # << >>)
    <3>1. rest = rx_fifo
      BY <2>2, Zenon
    <3> HIDE DEF rest
    <3> QED BY <3>1 DEF Hands
  <2> QED BY <2>1, <2>2
<1>5. rx_fifo' \in Seq(Byte) /\ Len(rx_fifo') <= RxFifoDepth
  <2>1. rx_fifo' \in Seq(Byte) /\ Len(rx_fifo') = Len(rest) + Len(Taken)
    BY <1>2, <1>3, <1>4, Joined, Zenon
  <2>2. Len(Taken) \in 0 .. 1 /\ (Len(Taken) # 0 => Len(rx_fifo) < RxFifoDepth)
    <3>1. 0 \in 0 .. 1
      OBVIOUS
    <3> QED BY <1>1, <3>1, Zenon DEF Taken
  <2>3. Len(rx_fifo) <= RxFifoDepth
    BY Zenon DEF Hands
  <2> DEFINE lr == Len(rest)
             lt == Len(Taken)
             lf == Len(rx_fifo)
             lg == Len(rx_fifo')
  <2>4. lg = lr + lt /\ lr \in Nat /\ lf \in Nat /\ lr <= lf /\ lt \in 0 .. 1 /\ (lt # 0 => lf < RxFifoDepth) /\ lf <= RxFifoDepth
    BY <1>4, <2>1, <2>2, <2>3, Zenon
  <2> HIDE DEF lr, lt, lf, lg
  <2>5. lg <= RxFifoDepth
    BY <2>4, Numbers
  <2> QED BY <2>1, <2>5, Zenon DEF lg
<1>6. arrived' = arrived \o Gone
  <2>1. rx_current_byte_q \in Byte /\ arrived \in Seq(Byte)
    BY Zenon DEF Regs, Hands
  <2>2. CASE rx_fifo_wvalid
    <3>1. arrived' = Append(arrived, rx_current_byte_q) /\ Gone = <<rx_current_byte_q>>
      BY <2>2, Zenon DEF Edge, Gone
    <3> QED BY <2>1, <3>1, AppendIsConcat
  <2>3. CASE ~rx_fifo_wvalid
    <3>1. arrived' = arrived /\ Gone = << >>
      BY <2>3, Zenon DEF Edge, Gone
    <3> QED BY <2>1, <3>1, Empty, Zenon
  <2> QED BY <2>2, <2>3
<1>7. Booked
  <2>1. Len(rx_fifo) < RxFifoDepth <=> ~(Len(rx_fifo) = RxFifoDepth)
    BY <1>4, Numbers DEF Hands
  <2>2. CASE ~rx_fifo_wvalid
    <3>1. UNCHANGED <<arrived, kept, dropped>>
      BY <2>2, Zenon DEF Edge
    <3>2. Taken = << >>
      BY <2>2, Zenon DEF Taken, Gone
    <3> QED BY <3>1, <3>2, Zenon DEF Booked
  <2>3. CASE rx_fifo_wvalid /\ Len(rx_fifo) = RxFifoDepth
    <3>1. /\ arrived' = Append(arrived, rx_current_byte_q)
          /\ kept' = kept /\ dropped' = dropped \cup {Len(arrived) + 1}
      BY <2>3, Zenon DEF Edge
    <3>2. Taken = << >>
      BY <2>1, <2>3, Zenon DEF Taken
    <3> QED BY <3>1, <3>2, Zenon DEF Booked
  <2>4. CASE rx_fifo_wvalid /\ ~(Len(rx_fifo) = RxFifoDepth)
    <3>1. /\ arrived' = Append(arrived, rx_current_byte_q)
          /\ kept' = Append(kept, Len(arrived) + 1) /\ dropped' = dropped
      BY <2>4, Zenon DEF Edge
    <3>2. Taken = <<rx_current_byte_q>>
      BY <2>1, <2>4, Zenon DEF Taken, Gone
    <3> QED BY <3>1, <3>2, Zenon DEF Booked
  <2> QED BY <2>2, <2>3, <2>4, Zenon
<1> QED BY <1>1, <1>2, <1>3, <1>5, <1>6, <1>7, Zenon

LEMMA SeqWider == ASSUME NEW S, NEW T, S \subseteq T, NEW k \in Seq(S)
                  PROVE  k \in Seq(T)
OBVIOUS

\* Another byte that arrives is entered once and last.
LEMMA BooksOn ==
  ASSUME NEW a \in Seq(Byte), NEW k \in Seq(1 .. Len(a)), NEW d \in SUBSET (1 .. Len(a)), NEW h \in Seq(Byte),
         NEW x \in Byte, Books(h, a, k, d)
  PROVE  LET a2 == Append(a, x)
             n  == Len(a) + 1
         IN /\ k \in Seq(1 .. Len(a2)) /\ Append(k, n) \in Seq(1 .. Len(a2))
            /\ d \subseteq 1 .. Len(a2) /\ d \cup {n} \subseteq 1 .. Len(a2)
            /\ Books(h \o <<x>>, a2, Append(k, n), d)
            /\ Books(h, a2, k, d \cup {n})
<1> DEFINE m == Len(a)
           n == m + 1
           a2 == Append(a, x)
           k2 == Append(k, n)
           l == Len(k)
<1>1. /\ m \in Nat /\ Len(a2) = n /\ (\A j \in 1 .. m : a2[j] = a[j]) /\ a2[n] = x
  <2>1. Len(a) \in Nat /\ Len(Append(a, x)) = Len(a) + 1 /\ Append(a, x)[Len(a) + 1] = x
        /\ \A j \in 1 .. Len(a) : Append(a, x)[j] = a[j]
    BY AppendProperties, LenProperties
  <2> QED BY <2>1, Zenon
<1>2. l \in Nat /\ \A i \in 1 .. l : k[i] \in 1 .. m
  <2>1. Len(k) \in Nat /\ k \in [1 .. Len(k) -> 1 .. Len(a)]
    BY LenProperties, Zenon
  <2> QED BY <2>1, Zenon
<1>3. k \in Seq(1 .. n) /\ k2 \in Seq(1 .. n)
  <2>1. k \in [1 .. l -> 1 .. m]
    BY LenProperties, Zenon
  <2>2. k \in Seq(1 .. n)
    <3>1. k \in Seq(1 .. m) /\ 1 .. m \subseteq 1 .. n
      <4>1. 1 .. m \subseteq 1 .. n
        <5> HIDE DEF m
        <5> QED BY <1>1
      <4> QED BY <4>1, Zenon
    <3> QED BY <3>1, SeqWider, Zenon
  <2>3. n \in 1 .. n
    <3> HIDE DEF m
    <3> QED BY <1>1
  <2> HIDE DEF n
  <2> QED BY <2>2, <2>3
<1>4. Len(k2) = l + 1 /\ k2[l + 1] = n /\ \A i \in 1 .. l : k2[i] = k[i]
  <2>1. Len(Append(k, n)) = Len(k) + 1 /\ Append(k, n)[Len(k) + 1] = n
        /\ \A i \in 1 .. Len(k) : Append(k, n)[i] = k[i]
    <3>1. k \in Seq(1 .. n) /\ n \in 1 .. n
      <4>1. n \in 1 .. n
        <5> HIDE DEF m
        <5> QED BY <1>1
      <4> QED BY <1>3, <4>1, Zenon
    <3> HIDE DEF n
    <3> QED BY <3>1, AppendProperties
  <2> QED BY <2>1, Zenon
<1>5. d \subseteq 1 .. m /\ d \subseteq 1 .. n /\ d \cup {n} \subseteq 1 .. n /\ n \notin d
      /\ 1 .. n = 1 .. m \cup {n} /\ n \notin 1 .. m
  <2>1. d \subseteq 1 .. m
    OBVIOUS
  <2> HIDE DEF m
  <2> QED BY <1>1, <2>1
<1>6. /\ h = [i \in 1 .. l |-> a[k[i]]]
      /\ \A i \in 2 .. l : k[i - 1] < k[i]
      /\ {k[i] : i \in 1 .. l} = 1 .. m \ d
  BY Zenon DEF Books
<1> HIDE DEF m, n, a2, k2, l
<1>7. Len(h) = l /\ \A i \in 1 .. l : h[i] = a[k[i]]
  BY <1>2, <1>6
<1>8. h \o <<x>> = [i \in 1 .. l + 1 |-> a2[k2[i]]]
  <2>1. /\ h \o <<x>> = Append(h, x) /\ Append(h, x) \in Seq(Byte)
        /\ Len(Append(h, x)) = l + 1 /\ Append(h, x)[l + 1] = x
        /\ \A i \in 1 .. l : Append(h, x)[i] = h[i]
    <3>1. h \o <<x>> = Append(h, x)
      BY AppendIsConcat
    <3>2. /\ Append(h, x) \in Seq(Byte) /\ Len(Append(h, x)) = Len(h) + 1 /\ Append(h, x)[Len(h) + 1] = x
          /\ \A i \in 1 .. Len(h) : Append(h, x)[i] = h[i]
      BY AppendProperties
    <3> QED BY <1>7, <3>1, <3>2, Zenon
  <2>2. \A i \in 1 .. l + 1 : Append(h, x)[i] = a2[k2[i]]
    <3>1. \A i \in 1 .. l + 1 : i \in 1 .. l \/ i = l + 1
      BY <1>2
    <3>2. \A i \in 1 .. l : Append(h, x)[i] = a2[k2[i]]
      <4> TAKE i \in 1 .. l
      <4>1. Append(h, x)[i] = a[k[i]] /\ k2[i] = k[i] /\ a2[k[i]] = a[k[i]]
        BY <1>1, <1>2, <1>4, <1>7, <2>1, Zenon
      <4> QED BY <4>1, Zenon
    <3>3. Append(h, x)[l + 1] = a2[k2[l + 1]]
      BY <1>1, <1>4, <2>1, Zenon
    <3> QED BY <3>1, <3>2, <3>3, Zenon
  <2>3. Append(h, x) = [i \in 1 .. l + 1 |-> Append(h, x)[i]]
    <3> DEFINE g == Append(h, x)
    <3>1. g \in Seq(Byte) /\ Len(g) = l + 1
      BY <2>1, Zenon
    <3> HIDE DEF g
    <3>2. g = [i \in 1 .. Len(g) |-> g[i]]
      BY <3>1
    <3> QED BY <3>1, <3>2, Zenon DEF g
  <2>4. [i \in 1 .. l + 1 |-> Append(h, x)[i]] = [i \in 1 .. l + 1 |-> a2[k2[i]]]
    BY <2>2, Zenon
  <2> QED BY <2>1, <2>3, <2>4, Zenon
<1>9. h = [i \in 1 .. l |-> a2[k[i]]]
  <2>1. [i \in 1 .. l |-> a2[k[i]]] = [i \in 1 .. l |-> a[k[i]]]
    BY <1>1, <1>2, Zenon
  <2> QED BY <1>6, <2>1, Zenon
<1>10. \A i \in 2 .. l + 1 : k2[i - 1] < k2[i]
  <2>1. \A i \in 2 .. l + 1 : i - 1 \in 1 .. l /\ ((i \in 2 .. l /\ i \in 1 .. l) \/ i = l + 1)
    BY <1>2
  <2>2. \A j \in 1 .. l : k[j] < n
    BY <1>1, <1>2 DEF n
  <2> QED BY <1>4, <1>6, <2>1, <2>2, Zenon
<1>11. {k2[i] : i \in 1 .. l + 1} = 1 .. n \ d
  <2>1. {k2[i] : i \in 1 .. l + 1} = {k[i] : i \in 1 .. l} \cup {n}
    <3>1. 1 .. l + 1 = 1 .. l \cup {l + 1}
      BY <1>2
    <3>2. {k2[i] : i \in 1 .. l} = {k[i] : i \in 1 .. l}
      BY <1>4, Zenon
    <3>3. {k2[i] : i \in 1 .. l \cup {l + 1}} = {k2[i] : i \in 1 .. l} \cup {k2[l + 1]}
      BY Zenon
    <3> QED BY <1>4, <3>1, <3>2, <3>3, Zenon
  <2>2. (1 .. m \ d) \cup {n} = 1 .. n \ d
    BY <1>5, Zenon
  <2> QED BY <1>6, <2>1, <2>2, Zenon
<1>12. {k[i] : i \in 1 .. l} = 1 .. n \ (d \cup {n})
  <2>1. 1 .. m \ d = 1 .. n \ (d \cup {n})
    BY <1>5, Zenon
  <2> QED BY <1>6, <2>1, Zenon
<1>13. Books(h \o <<x>>, a2, k2, d)
  <2>1. Len(k2) = l + 1 /\ Len(a2) = n
    BY <1>1, <1>4, Zenon
  <2> QED BY <1>8, <1>10, <1>11, <2>1, Zenon DEF Books
<1>14. Books(h, a2, k, d \cup {n})
  <2>1. Len(a2) = n /\ Len(k) = l
    BY <1>1, Zenon DEF l
  <2> QED BY <1>6, <1>9, <1>12, <2>1, Zenon DEF Books
<1> QED BY <1>1, <1>3, <1>5, <1>13, <1>14, Zenon DEF m, n, a2, k2

\* The program takes from the FIFO what it read there, whichever step it makes.
LEMMA ProgramStep ==
  ASSUME Regs, Hands, FetchInv, Next
  PROVE  /\ \E pop \in BOOLEAN : Edge(pop)
         /\ Had' = Had \o Taken
         /\ FetchInv' /\ pc' \in {"away", "status", "fetch", "take"}
         /\ got' \in Seq(Byte) /\ res' \in Seq(Byte) /\ Len(res') <= 1
<1>1. /\ rx_fifo \in Seq(Byte) /\ got \in Seq(Byte) /\ res \in Seq(Byte) /\ Len(res) <= 1
      /\ pc \in {"away", "status", "fetch", "take"} /\ << >> \in Seq(Byte) /\ Len(<< >>) <= 1
  BY DEF Hands
<1>2. /\ pc = "fetch" => rx_fifo # << >>
      /\ pc # "take" => res = << >>
  BY Zenon DEF FetchInv
<1>3. ASSUME Edge(FALSE), got' \o res' = got \o res
      PROVE  Had' = Had \o Taken /\ (rx_fifo # << >> => rx_fifo' # << >>)
  <2>1. rx_fifo' = rx_fifo \o Taken /\ Taken \in Seq(Byte)
    BY <1>3, FifoEdge, Zenon
  <2>2. (got' \o res') \o rx_fifo' = (got \o res) \o (rx_fifo \o Taken)
    BY <1>3, <2>1, Zenon
  <2>3. ((got \o res) \o rx_fifo) \o Taken = (got \o res) \o (rx_fifo \o Taken)
    <3>1. got \o res \in Seq(Byte)
      BY <1>1, Joined, Zenon
    <3> QED BY <1>1, <2>1, <3>1, Assoc
  <2>4. Had' = (got' \o res') \o rx_fifo' /\ Had = (got \o res) \o rx_fifo
    BY Zenon DEF Had
  <2>5. rx_fifo # << >> => rx_fifo \o Taken # << >>
    BY <1>1, <2>1, JoinedNotEmpty, Zenon
  <2> QED BY <2>1, <2>2, <2>3, <2>4, <2>5, Zenon
<1>4. FALSE \in BOOLEAN /\ TRUE \in BOOLEAN
  OBVIOUS
<1>5. CASE Elsewhere
  <2>1. Edge(FALSE) /\ pc' = pc /\ res' = res /\ got' = got
    BY <1>5, Zenon DEF Elsewhere
  <2> QED BY <1>1, <1>2, <1>3, <1>4, <2>1, Zenon DEF FetchInv
<1>6. CASE Call
  <2>1. Edge(FALSE) /\ pc = "away" /\ pc' = "status" /\ res' = res /\ got' = got
    BY <1>6, Zenon DEF Call
  <2>2. pc # "take" /\ pc' # "fetch" /\ pc' \in {"away", "status", "fetch", "take"}
    BY <2>1
  <2> QED BY <1>1, <1>2, <1>3, <1>4, <2>1, <2>2, Zenon DEF FetchInv
<1>7. CASE ReadStatus
  <2>1. Edge(FALSE) /\ pc = "status" /\ res' = res /\ got' = got
        /\ pc' = IF rx_fifo = << >> THEN "away" ELSE "fetch"
    BY <1>7, Zenon DEF ReadStatus, rx_fifo_empty
  <2>2. pc # "take" /\ pc' \in {"away", "status", "fetch", "take"} /\ (pc' = "fetch" => rx_fifo # << >>)
    BY <2>1
  <2> QED BY <1>1, <1>2, <1>3, <1>4, <2>1, <2>2, Zenon DEF FetchInv
<1>8. CASE ReadData
  <2>1. /\ Edge(TRUE) /\ pc = "fetch" /\ pc' = "take" /\ got' = got
        /\ res' = <<rx_fifo_rdata>>
    BY <1>8, Zenon DEF ReadData
  <2>2. rx_fifo # << >> /\ res = << >>
    <3>1. pc # "take"
      BY <2>1
    <3> QED BY <1>2, <2>1, <3>1, Zenon
  <2> DEFINE h == <<Head(rx_fifo)>>
             tail == Tail(rx_fifo)
  <2>3. res' = h /\ rx_fifo' = tail \o Taken /\ Taken \in Seq(Byte)
    BY <1>4, <2>1, <2>2, FifoEdge, Zenon DEF rx_fifo_rdata, rx_fifo_empty
  <2>4. tail \in Seq(Byte) /\ h \in Seq(Byte) /\ Len(h) <= 1
    <3>1. Head(rx_fifo) \in Byte /\ Tail(rx_fifo) \in Seq(Byte)
      BY <1>1, <2>2, HeadTailProperties, Zenon
    <3> QED BY <3>1
  <2>5. rx_fifo = h \o tail
    BY <1>1, <2>2
  <2> HIDE DEF h, tail
  <2>6. ((got \o res) \o rx_fifo) \o Taken = (got \o h) \o (tail \o Taken)
    <3>1. (got \o res) \o rx_fifo = (got \o h) \o tail
      <4>1. got \o res = got
        BY <1>1, <2>2, Empty, Zenon
      <4>2. got \o (h \o tail) = (got \o h) \o tail
        <5>1. got \in Seq(Byte) /\ h \in Seq(Byte) /\ tail \in Seq(Byte)
          BY <1>1, <2>4, Zenon
        <5>2. (got \o h) \o tail = got \o (h \o tail)
          BY <5>1, Assoc, Zenon
        <5> QED BY <5>2, Zenon
      <4> QED BY <2>5, <4>1, <4>2, Zenon
    <3>2. got \o h \in Seq(Byte)
      BY <1>1, <2>4, Joined, Zenon
    <3>3. ((got \o h) \o tail) \o Taken = (got \o h) \o (tail \o Taken)
      BY <2>3, <2>4, <3>2, Assoc
    <3> QED BY <3>1, <3>3, Zenon
  <2>7. Had' = Had \o Taken
    BY <2>1, <2>3, <2>6, Zenon DEF Had
  <2>8. pc' # "fetch" /\ pc' \in {"away", "status", "fetch", "take"}
    BY <2>1
  <2> QED BY <1>1, <1>4, <2>1, <2>3, <2>4, <2>7, <2>8, Zenon DEF FetchInv
<1>9. CASE Return
  <2>1. Edge(FALSE) /\ pc = "take" /\ pc' = "away" /\ got' = got \o res /\ res' = << >>
    BY <1>9, Zenon DEF Return
  <2>2. got \o res \in Seq(Byte) /\ (got \o res) \o << >> = got \o res
    BY <1>1, Joined, Empty, Zenon
  <2>3. pc' # "fetch" /\ pc' \in {"away", "status", "fetch", "take"}
    BY <2>1
  <2>4. got' \o res' = got \o res
    BY <2>1, <2>2, Zenon
  <2> QED BY <1>1, <1>3, <1>4, <2>1, <2>2, <2>3, <2>4, Zenon DEF FetchInv
<1> QED BY <1>5, <1>6, <1>7, <1>8, <1>9, Zenon DEF Next

\* Nothing is lost between the receiver and the program but what found the FIFO full.
LEMMA ReadStep ==
  ASSUME Regs, Hands, FetchInv, ReadOnceInOrder, Next
  PROVE  /\ ReadOnceInOrder'
         /\ kept' \in Seq(1 .. Len(arrived')) /\ dropped' \subseteq 1 .. Len(arrived') /\ arrived' \in Seq(Byte)
         /\ rx_fifo' \in Seq(Byte) /\ Len(rx_fifo') <= RxFifoDepth /\ arrived' = arrived \o Gone
<1>1. PICK pop \in BOOLEAN : Edge(pop)
  BY ProgramStep, Zenon
<1>2. /\ Gone \in Seq(Byte) /\ Taken \in Seq(Byte) /\ arrived' = arrived \o Gone
      /\ rx_fifo' \in Seq(Byte) /\ Len(rx_fifo') <= RxFifoDepth
      /\ Booked
  BY <1>1, FifoEdge, Zenon
<1>3. Had' = Had \o Taken
  BY ProgramStep, Zenon
<1>4. /\ arrived \in Seq(Byte) /\ kept \in Seq(1 .. Len(arrived)) /\ dropped \in SUBSET (1 .. Len(arrived))
      /\ Had \in Seq(Byte) /\ rx_current_byte_q \in Byte
  <2>1. got \in Seq(Byte) /\ res \in Seq(Byte) /\ rx_fifo \in Seq(Byte)
    BY Zenon DEF Hands
  <2>2. Had \in Seq(Byte)
    BY <2>1, Joined, Zenon DEF Had
  <2> QED BY <2>2, Zenon DEF Hands, Regs
<1>5. arrived' \in Seq(Byte)
  BY <1>2, <1>4, Joined, Zenon
<1>6. Books(Had, arrived, kept, dropped)
  BY Zenon DEF ReadOnceInOrder, Books, Had
<1> DEFINE a2 == Append(arrived, rx_current_byte_q)
           n  == Len(arrived) + 1
<1>7. /\ kept \in Seq(1 .. Len(a2)) /\ Append(kept, n) \in Seq(1 .. Len(a2))
      /\ dropped \subseteq 1 .. Len(a2) /\ dropped \cup {n} \subseteq 1 .. Len(a2)
      /\ Books(Had \o <<rx_current_byte_q>>, a2, Append(kept, n), dropped)
      /\ Books(Had, a2, kept, dropped \cup {n})
  BY <1>4, <1>6, BooksOn, Zenon
<1>8. Had \o << >> = Had
  BY <1>4, Empty, Zenon
<1>9. Books(Had', arrived', kept', dropped') /\ kept' \in Seq(1 .. Len(arrived')) /\ dropped' \subseteq 1 .. Len(arrived')
  <2>1. CASE Taken = << >> /\ UNCHANGED <<arrived, kept, dropped>>
    <3>1. Had' = Had /\ arrived' = arrived /\ kept' = kept /\ dropped' = dropped
      BY <1>3, <1>8, <2>1, Zenon
    <3> QED BY <1>4, <1>6, <3>1, Zenon
  <2>2. CASE /\ Taken = <<rx_current_byte_q>> /\ arrived' = Append(arrived, rx_current_byte_q)
             /\ kept' = Append(kept, Len(arrived) + 1) /\ dropped' = dropped
    <3>1. Had' = Had \o <<rx_current_byte_q>> /\ arrived' = a2 /\ kept' = Append(kept, n) /\ dropped' = dropped
      BY <1>3, <2>2, Zenon
    <3> HIDE DEF a2, n
    <3> QED BY <1>7, <3>1, Zenon
  <2>3. CASE /\ Taken = << >> /\ arrived' = Append(arrived, rx_current_byte_q)
             /\ kept' = kept /\ dropped' = dropped \cup {Len(arrived) + 1}
    <3>1. Had' = Had /\ arrived' = a2 /\ kept' = kept /\ dropped' = dropped \cup {n}
      BY <1>3, <1>8, <2>3, Zenon
    <3> HIDE DEF a2, n
    <3> QED BY <1>7, <3>1, Zenon
  <2> QED BY <1>2, <2>1, <2>2, <2>3, Zenon DEF Booked
<1>10. ReadOnceInOrder'
  BY <1>9, Zenon DEF ReadOnceInOrder, Books, Had
<1> QED BY <1>2, <1>5, <1>9, <1>10, Zenon

-----------------------------------------------------------------------------
(* The invariant is inductive.                                             *)

LEMMA Parts == LineInv => /\ Lines /\ Regs /\ Hands /\ FetchInv /\ ReadOnceInOrder
                          /\ slipped \/ (PhaseInv /\ OrderInv)
<1> SUFFICES ASSUME LineInv
             PROVE  /\ Lines /\ Regs /\ Hands /\ FetchInv /\ ReadOnceInOrder
                    /\ slipped \/ (PhaseInv /\ OrderInv)
  OBVIOUS
<1>1. Lines
  BY LineType, Zenon
<1>2. Regs
  BY Zenon DEF LineInv, TypeOK, RxTypeOK, Regs, C
<1>3. arrived \in Seq(Byte) /\ got \in Seq(Byte)
  BY DEF LineInv, TypeOK
<1>4. Hands
  BY <1>3, Zenon DEF LineInv, TypeOK, RxTypeOK, Hands
<1> QED BY <1>1, <1>2, <1>4, Zenon DEF LineInv

LEMMA InitLineInv == Init => LineInv
<1> SUFFICES ASSUME Init PROVE LineInv
  OBVIOUS
<1> USE DEF Init, RxInit
<1>1. Zeros \in Byte
  BY DEF Zeros, Byte, Bit
<1>2. signal \in Signals
  <2>1. [kind : {"frame"}, byte : {Zeros}, clocks : BitTimes]
          \subseteq [kind : {"frame", "bad_stop", "glitch"}, byte : Byte, clocks : BitTimes]
    BY <1>1
  <2>2. signal \in [kind : {"frame"}, byte : {Zeros}, clocks : BitTimes]
    OBVIOUS
  <2> QED BY <2>1, <2>2, Zenon DEF Signals
<1>3. RxTypeOK
  <2>1. rx_q = <<0, 0, 0>> /\ rx_q \in [1 .. 3 -> Bit]
    BY DEF Bit
  <2>2. 0 \in 0 .. ClocksPerBaud - 1 /\ 0 \in 0 .. NumBits - 1
    BY Numbers DEF C
  <2>3. << >> \in Seq(Byte) /\ Len(<< >>) <= RxFifoDepth
    BY Numbers
  <2> QED BY <1>1, <2>1, <2>2, <2>3 DEF RxTypeOK
<1>4. TypeOK
  <2>1. t \in 0 .. Duration
    <3>1. Duration = Length(signal)
      BY Zenon DEF Duration, Gap, Length, Rest
    <3>2. Length(signal) \in Nat
      BY <1>2, LevelEnds, Zenon
    <3> DEFINE n == Length(signal)
    <3>3. t = 0 /\ n \in Nat
      BY <3>2, Zenon
    <3> HIDE DEF n
    <3>4. t \in 0 .. n
      BY <3>3
    <3> QED BY <3>1, <3>4, Zenon DEF n
  <2>2. frames \in 0 .. MaxFrames /\ coincided \in BOOLEAN /\ slipped \in BOOLEAN
    <3>1. frames \in 0 .. MaxFrames
      BY Numbers
    <3> QED BY <3>1, Zenon
  <2>3. {sent, arrived, got} \subseteq Seq(Byte) /\ res \in Seq(Byte) /\ Len(res) <= 1
    OBVIOUS
  <2>4. kept \in Seq(1 .. Len(arrived)) /\ dropped \subseteq 1 .. Len(arrived)
    OBVIOUS
  <2>5. pc \in {"away", "status", "fetch", "take"}
    OBVIOUS
  <2> QED BY <1>2, <1>3, <2>1, <2>2, <2>3, <2>4, <2>5, Zenon DEF TypeOK
<1>5. SyncInv
  <2>2. Length(signal) \in Nat
    BY <1>2, LevelEnds, Zenon
  <2>3. t = 0 /\ rx_q[1] = 0 /\ rx_q[2] = 0 /\ rx_q[3] = 0
    OBVIOUS
  <2> QED BY <2>2, <2>3 DEF SyncInv
<1>6. PhaseInv
  BY DEF PhaseInv
<1>7. OrderInv
  BY DEF OrderInv, Before, Current
<1>8. FetchInv
  BY DEF FetchInv
<1>9. ReadOnceInOrder
  <2>1. got \o res \o rx_fifo = << >> /\ Len(kept) = 0 /\ Len(arrived) = 0 /\ dropped = {}
    OBVIOUS
  <2>2. 1 .. 0 = {} /\ 2 .. 0 = {}
    OBVIOUS
  <2>3. << >> = [i \in 1 .. 0 |-> arrived[kept[i]]]
    OBVIOUS
  <2>4. {kept[i] : i \in 1 .. 0} = 1 .. 0 \ dropped
    BY <2>2, Zenon
  <2>5. \A i \in 2 .. 0 : kept[i - 1] < kept[i]
    BY <2>2, Zenon
  <2> QED BY <2>1, <2>3, <2>4, <2>5, Zenon DEF ReadOnceInOrder
<1> QED BY <1>4, <1>5, <1>6, <1>7, <1>8, <1>9, Zenon DEF LineInv

LEMMA NextLineInv == LineInv /\ Next => LineInv'
<1> SUFFICES ASSUME LineInv, Next PROVE LineInv'
  OBVIOUS
<1>1. /\ Lines /\ Regs /\ Hands /\ FetchInv /\ ReadOnceInOrder
      /\ slipped \/ (PhaseInv /\ OrderInv)
  BY Parts, Zenon
<1>2. /\ \E pop \in BOOLEAN : Edge(pop)
      /\ FetchInv' /\ pc' \in {"away", "status", "fetch", "take"}
      /\ got' \in Seq(Byte) /\ res' \in Seq(Byte) /\ Len(res') <= 1
  BY <1>1, ProgramStep, Zenon
<1>3. Receives
  BY <1>2, Zenon DEF Edge, RxEdge, Receives
<1>4. Regs'
  BY <1>1, <1>3, RegsType, Zenon
<1>5. /\ signal' \in Signals /\ frames' \in 0 .. MaxFrames /\ sent' \in Seq(Byte)
      /\ t' \in Nat /\ t' <= Length(signal')
      /\ SyncInv' /\ rx_q' \in [1 .. 3 -> Bit]
  BY <1>1, <1>3, SenderMoves, SyncStep, Zenon DEF Receives
<1>6. coincided' \in BOOLEAN /\ slipped' \in BOOLEAN /\ (slipped => slipped')
  <2>1. Slip
    BY <1>3, Zenon DEF Receives
  <2>2. coincided' \in BOOLEAN
    <3>1. coincided' = rx_baud_tick \/ coincided' = coincided
      BY <2>1, Zenon DEF Slip
    <3> QED BY <1>1, <3>1 DEF Lines, rx_baud_tick
  <2>3. slipped' \in BOOLEAN /\ (slipped => slipped')
    <3>1. slipped \in BOOLEAN
      BY DEF LineInv, TypeOK
    <3> QED BY <2>1, <3>1 DEF Slip
  <2> QED BY <2>2, <2>3
<1>7. Lines'
  BY <1>5, <1>6, Zenon DEF Lines
<1>8. /\ ReadOnceInOrder'
      /\ kept' \in Seq(1 .. Len(arrived')) /\ dropped' \subseteq 1 .. Len(arrived') /\ arrived' \in Seq(Byte)
      /\ rx_fifo' \in Seq(Byte) /\ Len(rx_fifo') <= RxFifoDepth /\ arrived' = arrived \o Gone
  BY <1>1, ReadStep, Zenon
<1>9. slipped' \/ (PhaseInv' /\ OrderInv')
  <2> SUFFICES ASSUME ~slipped' PROVE PhaseInv' /\ OrderInv'
    OBVIOUS
  <2>1. PhaseInv /\ OrderInv
    BY <1>1, <1>6
  <2>2. PhaseInv'
    BY <1>1, <1>3, <2>1, RxStep, Zenon DEF Moved
  <2>3. arrived \in Seq(Byte)
    BY <1>1, Zenon DEF Hands
  <2>4. OrderInv'
    BY <1>1, <1>3, <1>4, <1>7, <1>8, <2>1, <2>3, OrderStep, Zenon
  <2> QED BY <2>2, <2>4
<1>10. t' \in 0 .. Duration'
  <2>1. Duration' = Length(signal')
    BY Zenon DEF Duration, Gap, Length, Rest
  <2>2. Length(signal') \in Nat
    BY <1>5, LevelEnds, Zenon
  <2> DEFINE n == Length(signal')
  <2>3. n \in Nat /\ t' \in Nat /\ t' <= n
    BY <1>5, <2>2, Zenon
  <2> HIDE DEF n
  <2>4. t' \in 0 .. n
    BY <2>3
  <2> QED BY <2>1, <2>4, Zenon DEF n
<1>11. TypeOK'
  <2>1. RxTypeOK'
    BY <1>4, <1>5, <1>8, Zenon DEF Regs, RxTypeOK, C
  <2>2. {sent', arrived', got'} \subseteq Seq(Byte)
    BY <1>2, <1>5, <1>8, Zenon
  <2> QED BY <1>2, <1>5, <1>6, <1>8, <1>10, <2>1, <2>2, Zenon DEF TypeOK
<1> QED BY <1>2, <1>5, <1>8, <1>9, <1>11, Zenon DEF LineInv

LEMMA SameLineInv == LineInv /\ UNCHANGED vars => LineInv'
<1> SUFFICES ASSUME LineInv, UNCHANGED vars PROVE LineInv'
  OBVIOUS
<1>1. /\ UNCHANGED <<rx_q, rx_baud_counter_q, rx_state_q, rx_bit_counter_q, rx_current_byte_q, rx_fifo>>
      /\ UNCHANGED <<signal, t, frames, sent, coincided, slipped, arrived, kept, dropped, pc, res, got>>
  BY Zenon DEF vars, rxVars, lineVars
<1>2. TypeOK' /\ SyncInv'
  <2>1. TypeOK'
    <3>1. RxTypeOK'
      BY <1>1, Zenon DEF LineInv, TypeOK, RxTypeOK
    <3>2. Duration' = Duration
      BY <1>1, Zenon DEF Duration, Gap
    <3> QED BY <1>1, <3>1, <3>2, Zenon DEF LineInv, TypeOK
  <2>2. SyncInv'
    BY <1>1, Zenon DEF LineInv, SyncInv
  <2> QED BY <2>1, <2>2, Zenon
<1>3. Slot' = Slot /\ Left' = Left /\ Next3' = Next3 /\ Offset' = Offset
  BY <1>1, Zenon DEF Slot, Left, Next3, Offset
<1>4. PhaseInv' <=> PhaseInv
  <2>1. (InStep' <=> InStep) /\ (Closing' <=> Closing) /\ (Passed' <=> Passed)
    <3>1. InStep' <=> InStep
      BY <1>1, <1>3, Zenon DEF InStep
    <3>2. Closing' <=> Closing
      BY <1>1, <1>3, Zenon DEF Closing
    <3>3. Passed' <=> Passed
      BY <1>1, Zenon DEF Passed
    <3> QED BY <3>1, <3>2, <3>3, Zenon
  <2> QED BY <1>1, <2>1, Zenon DEF PhaseInv
<1>5. (OrderInv' <=> OrderInv) /\ slipped' = slipped
  BY <1>1, <1>3, Zenon DEF OrderInv, Before, Current
<1>6. FetchInv' /\ ReadOnceInOrder'
  BY <1>1, Zenon DEF LineInv, FetchInv, ReadOnceInOrder
<1> QED BY <1>2, <1>4, <1>5, <1>6, Zenon DEF LineInv

LEMMA Inductive == Spec => []LineInv
<1>1. LineInv /\ [Next]_vars => LineInv'
  BY NextLineInv, SameLineInv, Zenon
<1> QED BY <1>1, InitLineInv, PTL DEF Spec

-----------------------------------------------------------------------------

(* The receiver, the FIFO, the line and uart_in keep their types: a full   *)
(* FIFO is not written, and the bit counter stays within the byte.         *)
THEOREM TypeCorrect == Spec => []TypeOK
<1>1. LineInv => TypeOK
  BY Zenon DEF LineInv
<1> QED BY <1>1, Inductive, PTL

(* Whatever the phase of the free-running baud counter when a start bit    *)
(* comes, whatever noise is between the frames, gap or none, and whatever  *)
(* clock within the tolerance each of them is sent with, the receiver      *)
(* offers the FIFO the bytes of the sound frames, in the order they were   *)
(* sent, until a signal slips: a start edge in the cycle of a tick from a  *)
(* sender that is faster, or as fast and followed at once by the next.     *)
THEOREM OnlySentCorrect == Spec => []OnlySentBytes
<1>1. LineInv => OnlySentBytes
  <2> SUFFICES ASSUME LineInv, ~slipped PROVE IsPrefix(arrived, sent)
    BY Zenon DEF OnlySentBytes
  <2>1. /\ arrived \in Seq(Byte) /\ Before \in Seq(Byte) /\ Current \in Seq(Byte)
        /\ sent = (arrived \o Before) \o Current
    BY Parts, ByteSeqs, Zenon DEF Hands, OrderInv
  <2> DEFINE rest == Before \o Current
  <2>2. rest \in Seq(Byte) /\ sent = arrived \o rest
    BY <2>1, Joined, Assoc
  <2> HIDE DEF rest
  <2>3. Len(arrived) \in Nat /\ Len(rest) \in Nat /\ Len(sent) = Len(arrived) + Len(rest)
    BY <2>1, <2>2, Joined, LenProperties, Zenon
  <2>4. \A i \in 1 .. Len(arrived) : sent[i] = arrived[i]
    BY <2>1, <2>2
  <2> QED BY <2>1, <2>2, <2>3, <2>4 DEF IsPrefix
<1> QED BY <1>1, Inductive, PTL

(* uart_in returns what arrived, each byte once and in order, lost bytes   *)
(* or not; the ones it never sees are exactly those that found the FIFO    *)
(* full.                                                                   *)
THEOREM ReadCorrect == Spec => []ReadOnceInOrder
<1>1. LineInv => ReadOnceInOrder
  BY Zenon DEF LineInv
<1> QED BY <1>1, Inductive, PTL

-----------------------------------------------------------------------------
(* The FIFO: the pointers stay ordered, so the flags tell the truth, so a *)
(* clock edge of the ring buffer is a clock edge of the queue.             *)

FifoInv == FifoTypeOK /\ PointersOrdered

LEMMA AdvanceType == \A p \in Pointer : Advance(p) \in Pointer
  BY FifoAssumption DEF Advance, Pointer, Index

LEMMA FifoInvInit == FifoInit => FifoInv
  BY FifoAssumption DEF FifoInit, FifoInv, FifoTypeOK, PointersOrdered, Pointer, Origin, Index

LEMMA FifoTypeStep == FifoTypeOK /\ [FifoNext]_fifoVars => FifoTypeOK'
<1> SUFFICES ASSUME FifoTypeOK, [FifoNext]_fifoVars
             PROVE  FifoTypeOK'
  OBVIOUS
<1>1. ASSUME NEW offer \in Offers, NEW rready \in BOOLEAN, ClockEdge(offer, rready)
      PROVE  FifoTypeOK'
  <2>1. wptr' \in Pointer /\ rptr' \in Pointer
    BY <1>1, AdvanceType DEF ClockEdge, FifoTypeOK
  <2>2. storage' \in [Index -> Data]
    BY <1>1 DEF ClockEdge, Offers, FifoTypeOK, Pointer
  <2>3. QED
    BY <1>1, <2>1, <2>2 DEF ClockEdge, FifoTypeOK
<1>2. CASE Reset
  BY <1>2, FifoAssumption DEF Reset, Origin, FifoTypeOK, Pointer, Index
<1>3. CASE UNCHANGED fifoVars
  BY <1>3 DEF fifoVars, FifoTypeOK
<1>4. QED
  BY <1>1, <1>2, <1>3 DEF FifoNext

(* A pointer that may advance is not a lap ahead of the other one.         *)
LEMMA FifoOrderStep == FifoInv /\ [FifoNext]_fifoVars => PointersOrdered'
<1> SUFFICES ASSUME FifoInv, [FifoNext]_fifoVars
             PROVE  PointersOrdered'
  OBVIOUS
<1> USE FifoAssumption DEF FifoInv, FifoTypeOK, PointersOrdered
<1>1. ASSUME NEW offer \in Offers, NEW rready \in BOOLEAN, ClockEdge(offer, rready)
      PROVE  PointersOrdered'
  <2> DEFINE w == offer # << >> /\ wready_o
             r == rready /\ rvalid_o
  <2>1. /\ wptr' = IF w THEN Advance(wptr) ELSE wptr
        /\ rptr' = IF r THEN Advance(rptr) ELSE rptr
    BY <1>1 DEF ClockEdge
  <2>2. w => ~ (wptr.msb # rptr.msb /\ wptr.value = rptr.value)
    BY DEF wready_o, full, Pointer, Index
  <2>3. r => ~ (wptr.msb = rptr.msb /\ wptr.value = rptr.value)
    BY DEF rvalid_o, fifo_empty, Pointer, Index
  <2>4. QED
    BY <2>1, <2>2, <2>3 DEF Advance, Pointer, Index
<1>2. CASE Reset
  BY <1>2 DEF Reset, Origin
<1>3. CASE UNCHANGED fifoVars
  BY <1>3 DEF fifoVars
<1>4. QED
  BY <1>1, <1>2, <1>3 DEF FifoNext

(* The pointers of the FIFO stay inside the ring and its entries inside    *)
(* the data, at every depth.                                               *)
THEOREM FifoTypeCorrect == FifoSpec => []FifoTypeOK
<1>1. FifoInit => FifoTypeOK
  BY FifoInvInit DEF FifoInv
<1>2. QED
  BY <1>1, FifoTypeStep, PTL DEF FifoSpec

(* The write pointer is never more than a lap ahead, nor behind.           *)
THEOREM OrderCorrect == FifoSpec => []PointersOrdered
<1>1. FifoInit => FifoInv
  BY FifoInvInit
<1>2. FifoInv /\ [FifoNext]_fifoVars => FifoInv'
  BY FifoTypeStep, FifoOrderStep DEF FifoInv
<1>3. FifoInv => PointersOrdered
  BY DEF FifoInv
<1>4. QED
  BY <1>1, <1>2, <1>3, PTL DEF FifoSpec

-----------------------------------------------------------------------------

(* What the pointers say of the entries between them.                      *)
FifoFacts ==
  /\ depth_o \in 0 .. Depth
  /\ full <=> depth_o = Depth
  /\ fifo_empty <=> depth_o = 0
  /\ Contents \in Seq(Data)
  /\ Len(Contents) = depth_o
  /\ \A k \in 1 .. depth_o : Contents[k] = storage[Entry(k - 1)]
  /\ \A k \in Nat : k < depth_o => Entry(k) \in Index

LEMMA Occupancy == FifoInv => FifoFacts
<1> SUFFICES ASSUME FifoInv
             PROVE  FifoFacts
  OBVIOUS
<1> USE FifoAssumption DEF FifoInv, FifoTypeOK, PointersOrdered, Pointer, Index
<1>1. depth_o \in 0 .. Depth
  BY DEF depth_o, full
<1>2. full <=> depth_o = Depth
  BY DEF depth_o, full
<1>3. fifo_empty <=> depth_o = 0
  BY DEF depth_o, full, fifo_empty
<1>5. \A k \in Nat : k < depth_o => Entry(k) \in Index
  BY <1>1 DEF Entry
<1>6. Contents \in [1 .. depth_o -> Data]
  BY <1>1, <1>5 DEF Contents
<1>7. Contents \in Seq(Data) /\ Len(Contents) = depth_o
  BY <1>1, <1>6, SeqDef
<1>8. QED
  BY <1>1, <1>2, <1>3, <1>5, <1>7 DEF Contents, FifoFacts

(* Software and the FSMs read flags that agree with the entries held.      *)
THEOREM FlagsCorrect == FifoSpec => []FlagsAgree
<1>1. FifoInit => FifoInv
  BY FifoInvInit
<1>2. FifoInv /\ [FifoNext]_fifoVars => FifoInv'
  BY FifoTypeStep, FifoOrderStep DEF FifoInv
<1>3. FifoInv => FlagsAgree
  <2> SUFFICES ASSUME FifoInv
               PROVE  FlagsAgree
    OBVIOUS
  <2> USE Occupancy DEF FifoFacts
  <2>1. depth_o \in 0 .. Depth /\ (full <=> Len(Contents) = Depth)
    OBVIOUS
  <2>2. fifo_empty <=> Contents = << >>
    BY FifoAssumption, EmptySeq
  <2>3. ASSUME ~fifo_empty
        PROVE  rdata_o = Head(Contents)
    <3>1. 1 \in 1 .. depth_o /\ Contents # << >>
      BY <2>2, <2>3, FifoAssumption
    <3>2. Head(Contents) = Contents[1]
      BY <3>1
    <3>3. Entry(0) = rptr.value
      BY FifoAssumption DEF Entry, FifoInv, FifoTypeOK, Pointer, Index
    <3>4. QED
      BY <2>3, <3>1, <3>2, <3>3 DEF rdata_o
  <2>4. rvalid_o <=> Contents # << >> /\ ~under_rst
    BY <2>2 DEF rvalid_o
  <2>5. QED
    BY <2>1, <2>2, <2>3, <2>4 DEF FlagsAgree
<1>4. QED
  BY <1>1, <1>2, <1>3, PTL DEF FifoSpec

-----------------------------------------------------------------------------

(* A clock edge of the ring buffer is a clock edge of the queue.           *)
LEMMA EdgeSimulates ==
  ASSUME FifoInv, FifoFacts, FifoFacts', FifoInv', NEW offer \in Offers, NEW rready \in BOOLEAN,
         ClockEdge(offer, rready)
  PROVE  Queue!Edge(offer, rready)
<1> USE FifoAssumption
<1> DEFINE w == offer # << >> /\ wready_o
           r == rready /\ rvalid_o
           n == depth_o
           rest == Remaining(Contents, r)
           taken == IF w THEN offer ELSE << >>
<1>1. /\ wptr' = IF w THEN Advance(wptr) ELSE wptr
      /\ rptr' = IF r THEN Advance(rptr) ELSE rptr
      /\ storage' = IF w THEN [storage EXCEPT ![wptr.value] = Head(offer)] ELSE storage
      /\ under_rst' = FALSE
  BY DEF ClockEdge
<1>2. /\ n \in 0 .. Depth
      /\ w => n < Depth
      /\ r => n > 0
  BY DEF FifoFacts, wready_o, rvalid_o
<1>3. /\ depth_o' = (n - (IF r THEN 1 ELSE 0)) + (IF w THEN 1 ELSE 0)
      /\ \A k \in Nat : k < depth_o' => Entry(k)' = Entry(k + (IF r THEN 1 ELSE 0))
      /\ w => Entry(n) = wptr.value
      /\ w => \A k \in Nat : k < n => Entry(k) # wptr.value
  <2> USE DEF FifoInv, FifoTypeOK, PointersOrdered, Pointer, Index, Advance
  <2>1. full <=> (wptr.msb # rptr.msb /\ wptr.value = rptr.value)
    BY DEF full
  <2>2. fifo_empty <=> (wptr.msb = rptr.msb /\ wptr.value = rptr.value)
    BY DEF fifo_empty
  <2>3. n = IF wptr.msb = rptr.msb THEN wptr.value - rptr.value
            ELSE Depth - rptr.value + wptr.value
    BY <2>1 DEF depth_o
  <2>4. full' <=> (wptr'.msb # rptr'.msb /\ wptr'.value = rptr'.value)
    BY DEF full
  <2>5. depth_o' = IF wptr'.msb = rptr'.msb THEN wptr'.value - rptr'.value
                   ELSE Depth - rptr'.value + wptr'.value
    BY <2>4 DEF depth_o
  <2>6. \A p \in Pointer :
          IF p.value = Depth - 1 THEN Advance(p).value = 0 /\ Advance(p).msb = 1 - p.msb
          ELSE Advance(p).value = p.value + 1 /\ Advance(p).msb = p.msb
    OBVIOUS
  <2> DEFINE r1 == IF r THEN 1 ELSE 0
             w1 == IF w THEN 1 ELSE 0
  <2> HIDE DEF Advance, w, r, n
  <2>7. depth_o' = (n - r1) + w1
    <3>1. /\ wptr.value \in 0 .. Depth - 1 /\ wptr.msb \in {0, 1}
          /\ rptr.value \in 0 .. Depth - 1 /\ rptr.msb \in {0, 1}
      OBVIOUS
    <3>2. IF w
          THEN IF wptr.value = Depth - 1
               THEN wptr'.value = 0 /\ wptr'.msb = 1 - wptr.msb
               ELSE wptr'.value = wptr.value + 1 /\ wptr'.msb = wptr.msb
          ELSE wptr' = wptr
      BY <1>1, <2>6
    <3>3. IF r
          THEN IF rptr.value = Depth - 1
               THEN rptr'.value = 0 /\ rptr'.msb = 1 - rptr.msb
               ELSE rptr'.value = rptr.value + 1 /\ rptr'.msb = rptr.msb
          ELSE rptr' = rptr
      BY <1>1, <2>6
    <3>4. IF wptr.msb = rptr.msb THEN rptr.value <= wptr.value ELSE wptr.value <= rptr.value
      OBVIOUS
    <3> HIDE DEF FifoInv, FifoTypeOK, PointersOrdered, Pointer, Index
    <3>5. CASE w
      BY <1>2, <2>3, <2>5, <3>1, <3>2, <3>3, <3>4, <3>5
    <3>6. CASE ~w
      BY <1>2, <2>3, <2>5, <3>1, <3>2, <3>3, <3>4, <3>6
    <3>7. QED
      BY <3>5, <3>6
  <2>8. ASSUME NEW k \in Nat, k < depth_o'
        PROVE  Entry(k)' = Entry(k + r1)
    <3>1. depth_o' \in 0 .. Depth
      BY DEF FifoFacts
    <3>2. CASE r /\ rptr.value = Depth - 1
      <4>1. rptr'.value = 0 /\ r1 = 1
        BY <1>1, <2>6, <3>2
      <4>2. QED
        BY <2>8, <3>1, <3>2, <4>1 DEF Entry
    <3>3. CASE r /\ rptr.value # Depth - 1
      <4>1. rptr'.value = rptr.value + 1 /\ r1 = 1
        BY <1>1, <2>6, <3>3
      <4>2. QED
        BY <2>8, <3>1, <3>3, <4>1 DEF Entry
    <3>4. CASE ~r
      BY <1>1, <2>8, <3>4 DEF Entry
    <3>5. QED
      BY <3>2, <3>3, <3>4
  <2>9. w => Entry(n) = wptr.value
    BY <1>2, <2>3 DEF Entry
  <2>10. w => \A k \in Nat : k < n => Entry(k) # wptr.value
    BY <1>2, <2>3 DEF Entry
  <2>11. QED
    BY <2>7, <2>8, <2>9, <2>10
<1>4. /\ Contents \in Seq(Data) /\ Len(Contents) = n
      /\ Contents' \in Seq(Data) /\ Len(Contents') = depth_o'
  BY DEF FifoFacts
<1>5. /\ rest \in Seq(Data)
      /\ Len(rest) = n - (IF r THEN 1 ELSE 0)
      /\ \A k \in 1 .. Len(rest) : rest[k] = Contents[k + (IF r THEN 1 ELSE 0)]
  <2>1. CASE r
    <3>1. Contents # << >>
      BY <1>2, <1>4, <2>1
    <3>2. rest = Tail(Contents)
      BY <2>1, <3>1 DEF Remaining
    <3>3. QED
      BY <1>4, <2>1, <3>1, <3>2, HeadTailProperties
  <2>2. CASE ~r
    <3>1. rest = Contents
      BY <2>2 DEF Remaining
    <3>2. QED
      BY <1>2, <1>4, <2>2, <3>1
  <2>3. QED
    BY <2>1, <2>2
<1>6. /\ taken \in Seq(Data)
      /\ Len(taken) = IF w THEN 1 ELSE 0
      /\ w => taken[1] = Head(offer)
  <2>1. CASE w
    <3>1. PICK d \in Data : offer = <<d>>
      BY <2>1 DEF Offers
    <3>2. QED
      BY <2>1, <3>1
  <2>2. CASE ~w
    BY <2>2, EmptySeq
  <2>3. QED
    BY <2>1, <2>2
<1> HIDE DEF w, r, n, rest, taken
<1>7. Contents' = rest \o taken
  <2>1. Len(rest) + Len(taken) = depth_o' /\ Len(rest) \in Nat
    BY <1>2, <1>3, <1>5, <1>6
  <2>2. /\ rest \o taken \in Seq(Data)
        /\ Len(rest \o taken) = depth_o'
        /\ \A k \in 1 .. depth_o' :
              (rest \o taken)[k] = IF k <= Len(rest) THEN rest[k] ELSE taken[k - Len(rest)]
    BY <1>5, <1>6, <2>1, ConcatProperties
  <2>3. ASSUME NEW k \in 1 .. depth_o'
        PROVE  Contents'[k] = (rest \o taken)[k]
    <3> DEFINE j == k + (IF r THEN 1 ELSE 0)
    <3>1. j - 1 \in Nat /\ k - 1 \in Nat /\ k - 1 < depth_o'
      BY <1>2, <1>3
    <3>2. Contents'[k] = storage'[Entry(j - 1)]
      BY <1>3, <3>1 DEF FifoFacts
    <3>3. CASE k <= Len(rest)
      <4>1. j - 1 < n /\ j \in 1 .. n
        BY <1>2, <1>5, <3>3
      <4>2. storage'[Entry(j - 1)] = storage[Entry(j - 1)]
        BY <1>1, <1>3, <3>1, <4>1 DEF FifoInv, FifoTypeOK, FifoFacts, n
      <4>3. QED
        BY <1>5, <2>2, <3>1, <3>2, <3>3, <4>1, <4>2 DEF FifoFacts, n
    <3>4. CASE k > Len(rest)
      <4>1. w /\ j - 1 = n /\ k - Len(rest) = 1
        BY <1>2, <1>3, <1>5, <2>1, <3>4
      <4>2. storage'[wptr.value] = Head(offer)
        BY <1>1, <4>1 DEF FifoInv, FifoTypeOK, Pointer
      <4>3. QED
        <5>1. (rest \o taken)[k] = taken[1]
          BY <2>1, <2>2, <3>4, <4>1
        <5>2. Entry(j - 1) = wptr.value
          BY <1>3, <4>1
        <5>3. QED
          BY <1>6, <3>2, <4>1, <4>2, <5>1, <5>2
    <3>5. QED
      BY <2>1, <3>3, <3>4
  <2>4. QED
    BY <1>4, <2>2, <2>3, SeqEqual
<1>8. CASE under_rst
  <2>1. rest = Contents /\ taken = << >>
    BY <1>8 DEF rest, taken, w, r, Remaining, wready_o, rvalid_o
  <2>2. Contents' = Contents
    BY <1>4, <1>7, <2>1, ConcatEmptySeq
  <2>3. QED
    BY <1>1, <1>8, <2>2 DEF Queue!Edge
<1>9. CASE ~under_rst
  <2>1. rest = Queue!Remaining(Contents, rready)
    <3>1. fifo_empty <=> Contents = << >>
      BY <1>4, EmptySeq DEF FifoFacts, n
    <3>2. QED
      BY <1>9, <3>1 DEF rest, r, Remaining, Queue!Remaining, rvalid_o
  <2>2. taken = Queue!Accepted(Contents, Depth, offer)
    <3>1. full <=> ~(Len(Contents) < Depth)
      BY <1>2, <1>4 DEF FifoFacts, n
    <3>2. QED
      BY <1>9, <3>1 DEF taken, w, Queue!Accepted, wready_o
  <2>3. QED
    BY <1>1, <1>7, <1>9, <2>1, <2>2 DEF Queue!Edge, Queue!AfterEdge
<1>10. QED
  BY <1>8, <1>9

(* For every depth, a power of two or not, and every use of its ports, the *)
(* ring buffer behaves as the bounded queue: it loses, repeats and         *)
(* reorders nothing over any number of wraps and resets.                   *)
THEOREM FifoImplementsQueue == FifoSpec => ImplementsQueue
<1>1. FifoInit => Queue!Init
  <2> SUFFICES ASSUME FifoInit
               PROVE  Queue!Init
    OBVIOUS
  <2>1. FifoFacts /\ depth_o = 0
    BY FifoInvInit, Occupancy, FifoAssumption DEF FifoInit, Origin, depth_o, full, FifoFacts, fifo_empty
  <2>2. Contents = << >>
    BY <2>1, EmptySeq DEF FifoFacts
  <2>3. QED
    BY <2>2 DEF FifoInit, Queue!Init
<1>2. FifoInv /\ FifoInv' /\ [FifoNext]_fifoVars => [Queue!Next]_(Queue!vars)
  <2> SUFFICES ASSUME FifoInv, FifoInv', [FifoNext]_fifoVars
               PROVE  [Queue!Next]_(Queue!vars)
    OBVIOUS
  <2>1. FifoFacts /\ FifoFacts'
    <3>1. FifoInv' => FifoFacts'
      BY Occupancy, PTL
    <3>2. QED
      BY <3>1, Occupancy
  <2>2. ASSUME NEW offer \in Offers, NEW rready \in BOOLEAN, ClockEdge(offer, rready)
        PROVE  Queue!Next
    <3>1. Queue!Edge(offer, rready)
      BY <2>1, <2>2, EdgeSimulates
    <3>2. QED
      BY <3>1 DEF Queue!Next, Offers, Queue!Offers
  <2>3. CASE Reset
    <3>1. depth_o' = 0
      BY <2>3, FifoAssumption DEF Reset, Origin, depth_o, full
    <3>2. Contents' = << >>
      BY <2>1, <3>1, EmptySeq DEF FifoFacts
    <3>3. QED
      BY <2>3, <3>2 DEF Reset, Queue!Reset, Queue!Next
  <2>4. CASE UNCHANGED fifoVars
    <3>1. Contents' = Contents
      BY <2>4 DEF fifoVars, Contents, Entry, depth_o, full
    <3>2. QED
      BY <2>4, <3>1 DEF fifoVars, Queue!vars
  <2>5. QED
    BY <2>2, <2>3, <2>4 DEF FifoNext
<1>3. FifoInit => FifoInv
  BY FifoInvInit
<1>4. FifoInv /\ [FifoNext]_fifoVars => FifoInv'
  BY FifoTypeStep, FifoOrderStep DEF FifoInv
<1>5. QED
  BY <1>1, <1>2, <1>3, <1>4, PTL DEF FifoSpec, ImplementsQueue, Queue!Spec

=============================================================================
