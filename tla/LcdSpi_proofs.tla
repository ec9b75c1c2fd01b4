---------------------------- MODULE LcdSpi_proofs ----------------------------
(***************************************************************************)
(* Theorems about the display driver, the SPI peripheral and the display,  *)
(* for any byte, serial clock and FIFO, and any strings sent.              *)
(***************************************************************************)
EXTENDS LcdSpi, SequenceTheorems, TLAPS

-----------------------------------------------------------------------------
(* The inductive invariant.                                                *)

Sent == [byte : Byte, pins : Pins]

\* The oldest byte of the FIFO has been taken by the display, and not been popped yet.
Leaving ==
  IF (state_q = "SEND" /\ bit_counter_q = 0 /\ sck = 0) \/ (state_q = "STOP" /\ ~next_tx_byte_q)
  THEN 1 ELSE 0

\* The bits of a byte that were shifted out.
Shifts == NumBits - bit_counter_q - sck

LineType ==
  /\ SpiTypeOK
  /\ sent \in Seq(Sent) /\ taken \in Seq(Sent)
  /\ partial \in Seq(Bit) /\ fed \in Seq(Bit)

\* What was pushed is what was taken, then the FIFO.
OrderInv ==
  /\ Len(sent) + Leaving = Len(taken) + Len(tx_fifo) /\ Leaving <= Len(taken)
  /\ \A i \in 1 .. Len(taken) : taken[i] = sent[i]
  /\ \A i \in 1 .. Len(tx_fifo) : tx_fifo[i] = sent[Len(taken) - Leaving + i].byte

\* The pins stay as they were for every byte that is still to be taken.
PinsInv == \A i \in Len(taken) + 1 .. Len(sent) : sent[i].pins = pins

\* Both ends have shifted the same bits of the oldest byte, and the shifter the display's.
OutInv ==
  /\ IF Shifts = NumBits THEN partial = << >>
     ELSE Len(partial) = Shifts /\ \A j \in 1 .. Shifts : partial[j] = tx_fifo[1][j]
  /\ \A i \in 1 .. NumBits - Shifts : current_byte_q[i] = tx_fifo[1][Shifts + i]
Latched == IF sck = 0 THEN recieved_byte_d ELSE recieved_byte_q
InInv ==
  IF Shifts = 0 THEN Len(fed) \in {0, NumBits}
  ELSE /\ Len(fed) = Shifts
       /\ \A j \in 1 .. Shifts : fed[j] = Latched[NumBits - Shifts + j]
FrameInv ==
  /\ state_q \in {"START", "SEND"} \/ (state_q = "STOP" /\ ~next_tx_byte_q) => tx_fifo # << >>
  /\ state_q = "START" /\ sck = 0 => current_byte_q = tx_fifo[1]
  /\ IF state_q = "SEND" THEN OutInv /\ InInv ELSE partial = << >> /\ Len(fed) \in {0, NumBits}
  /\ state_q = "STOP" => recieved_byte_q = fed

\* The driver pushes only with room in the FIFO, and moves the pins only when the FIFO is empty.
DriverInv ==
  /\ pc = "push" => Len(tx_fifo) < Depth
  /\ pc \in {"poll_full", "see_full", "push"} => left # << >>
  /\ pc \in {"main", "set_cs"} => tx_fifo = << >>
  /\ pc = "set_cs" => calls < MaxCalls

LcdInv == TypeOK /\ OrderInv /\ PinsInv /\ FrameInv /\ DriverInv

-----------------------------------------------------------------------------
(* Bytes and queues.                                                       *)

LEMMA Constants ==
  /\ NumBits \in Nat /\ NumBits >= 1 /\ ToggleCount \in Nat /\ ToggleCount >= 1
  /\ Depth \in Nat /\ Depth >= 1 /\ MaxCalls \in Nat
BY SpiAssumption, LcdSpiAssumption

\* Two bytes with the same bits are the same byte.
LEMMA SameBits ==
  ASSUME NEW x \in Byte, NEW y, y \in Seq(Bit), Len(y) = NumBits, \A i \in 1 .. NumBits : y[i] = x[i]
  PROVE  y = x
<1>1. y \in [1 .. NumBits -> Bit]
  <2>1. y \in [1 .. Len(y) -> Bit]
    BY LenProperties
  <2> QED BY <2>1, Zenon
<1>2. x \in [1 .. NumBits -> Bit]
  BY DEF Byte
<1>3. x = [i \in 1 .. NumBits |-> x[i]] /\ y = [i \in 1 .. NumBits |-> y[i]]
  BY <1>1, <1>2
<1> QED BY <1>3, Zenon

LEMMA ByteSeq ==
  ASSUME NEW byte \in Byte
  PROVE  byte \in Seq(Bit) /\ Len(byte) = NumBits /\ byte # << >>
<1>1. byte \in [1 .. NumBits -> Bit] /\ NumBits \in Nat /\ NumBits >= 1
  BY Constants DEF Byte
<1>2. byte \in Seq(Bit) /\ Len(byte) = NumBits
  BY <1>1
<1> QED BY <1>1, <1>2

\* A byte shifted: each bit moves one place, and the given one enters last.
LEMMA Shifted ==
  ASSUME NEW byte \in Byte, NEW bit \in Bit
  PROVE  /\ ShiftLeft(byte, bit) \in Byte /\ ShiftLeft(byte, bit)[NumBits] = bit
         /\ \A i \in 1 .. NumBits - 1 : ShiftLeft(byte, bit)[i] = byte[i + 1]
<1>1. byte \in Seq(Bit) /\ Len(byte) = NumBits /\ byte # << >>
  BY ByteSeq
<1> DEFINE t == Tail(byte)
           new == Append(t, bit)
<1>2. t \in Seq(Bit) /\ Len(t) = NumBits - 1 /\ \A i \in 1 .. NumBits - 1 : t[i] = byte[i + 1]
  BY <1>1, HeadTailProperties
<1> HIDE DEF t
<1>3. /\ new \in Seq(Bit) /\ Len(new) = Len(t) + 1 /\ new[Len(t) + 1] = bit
      /\ \A i \in 1 .. Len(t) : new[i] = t[i]
  BY <1>2, AppendProperties
<1> HIDE DEF new
<1>4. /\ new \in Seq(Bit) /\ Len(new) = NumBits /\ new[NumBits] = bit
      /\ \A i \in 1 .. NumBits - 1 : new[i] = byte[i + 1]
  BY <1>2, <1>3, Constants
<1>5. new \in Byte
  BY <1>4, LenProperties DEF Byte
<1> QED BY <1>4, <1>5, Zenon DEF ShiftLeft, new, t

\* A sequence loses d items at its head, and the offer is added at its end.
Passed(new, old, d, offer) ==
  /\ Len(new) = Len(old) - d + Len(offer)
  /\ \A i \in 1 .. Len(old) - d : new[i] = old[i + d]
  /\ \A i \in 1 .. Len(offer) : new[Len(old) - d + i] = offer[i]

Offers == {<< >>} \cup {<<byte>> : byte \in Byte}

LEMMA OfferType ==
  ASSUME NEW offer \in Offers
  PROVE  offer \in Seq(Byte) /\ Len(offer) \in {0, 1} /\ (offer = << >> <=> Len(offer) = 0)
<1>1. CASE offer = << >>
  BY <1>1
<1>2. CASE \E byte \in Byte : offer = <<byte>>
  <2>1. PICK byte \in Byte : offer = <<byte>>
    BY <1>2
  <2> QED BY <2>1
<1> QED BY <1>1, <1>2 DEF Offers

LEMMA Concatenated ==
  ASSUME NEW T, NEW s \in Seq(T), NEW offer \in Seq(T)
  PROVE  s \o offer \in Seq(T) /\ Passed(s \o offer, s, 0, offer)
<1>1. Len(s) \in Nat /\ Len(offer) \in Nat
  OBVIOUS
<1>2. s \o offer \in Seq(T) /\ Len(s \o offer) = Len(s) + Len(offer)
  BY ConcatProperties, Zenon
<1>3. \A i \in 1 .. Len(s) + Len(offer) : (s \o offer)[i] = IF i <= Len(s) THEN s[i] ELSE offer[i - Len(s)]
  BY ConcatProperties, Zenon
<1> DEFINE new == s \o offer
<1> HIDE DEF new
<1>4. Len(new) = Len(s) + Len(offer)
      /\ \A i \in 1 .. Len(s) + Len(offer) : new[i] = IF i <= Len(s) THEN s[i] ELSE offer[i - Len(s)]
  BY <1>2, <1>3 DEF new
<1>5. Passed(new, s, 0, offer)
  BY <1>1, <1>4 DEF Passed
<1> QED BY <1>2, <1>5 DEF new

\* With room for the offer, a clock edge pops and takes it.
LEMMA FifoEdge ==
  ASSUME NEW q \in Seq(Byte), NEW offer \in Offers, NEW pop \in BOOLEAN,
         Len(q) <= Depth, offer # << >> => Len(q) < Depth, pop => q # << >>
  PROVE  LET new == AfterEdge(q, Depth, offer, pop)
         IN  /\ new \in Seq(Byte) /\ Len(new) <= Depth
             /\ Passed(new, q, IF pop THEN 1 ELSE 0, offer)
<1>1. offer \in Seq(Byte) /\ Len(offer) \in {0, 1} /\ (offer = << >> <=> Len(offer) = 0) /\ Len(q) \in Nat
  BY OfferType
<1>2. Accepted(q, Depth, offer) = offer
  BY Zenon DEF Accepted
<1> DEFINE rest == Remaining(q, pop)
           d == IF pop THEN 1 ELSE 0
           new == rest \o offer
<1>3. rest \in Seq(Byte) /\ Len(rest) = Len(q) - d /\ \A i \in 1 .. Len(q) - d : rest[i] = q[i + d]
  <2>1. CASE pop
    <3>1. rest = Tail(q) /\ d = 1
      BY <2>1, Zenon DEF Remaining
    <3> HIDE DEF rest, d
    <3>2. Tail(q) \in Seq(Byte) /\ Len(Tail(q)) = Len(q) - 1 /\ \A i \in 1 .. Len(Tail(q)) : Tail(q)[i] = q[i + 1]
      BY <2>1, HeadTailProperties, Zenon
    <3> QED BY <3>1, <3>2
  <2>2. CASE ~pop
    <3>1. rest = q /\ d = 0
      BY <2>2, Zenon DEF Remaining
    <3> HIDE DEF rest, d
    <3> QED BY <3>1
  <2> QED BY <2>1, <2>2
<1>4. d \in {0, 1}
  OBVIOUS
<1> HIDE DEF rest, d
<1>5. new \in Seq(Byte) /\ Passed(new, rest, 0, offer)
  BY <1>1, <1>3, Concatenated
<1> HIDE DEF new
<1>7. Passed(new, q, d, offer)
  BY <1>1, <1>3, <1>4, <1>5 DEF Passed
<1>8. Len(new) <= Depth
  <2>1. Len(new) = Len(q) - d + Len(offer)
    BY <1>7, Zenon DEF Passed
  <2>2. Len(q) <= Depth /\ (Len(offer) # 0 => Len(q) < Depth)
    BY <1>1, Zenon
  <2>3. Len(q) \in Nat /\ Len(offer) \in {0, 1}
    BY <1>1, Zenon
  <2> DEFINE l == Len(q)
             o == Len(offer)
  <2>4. l \in Nat /\ o \in {0, 1} /\ l <= Depth /\ (o # 0 => l < Depth) /\ d \in {0, 1} /\ Depth \in Nat
    BY <1>4, <2>2, <2>3, Constants, Zenon
  <2> HIDE DEF l, o
  <2>5. l - d + o <= Depth
    BY <2>4
  <2> QED BY <2>1, <2>5, Zenon DEF l, o
<1> QED BY <1>2, <1>5, <1>7, <1>8, Zenon DEF AfterEdge, new, rest, d

-----------------------------------------------------------------------------
(* The order of the bytes.                                                 *)

\* What the driver pushes is recorded with the pins as they are.
Pushed(offer) ==
  /\ sent' \in Seq(Sent) /\ Len(sent') = Len(sent) + Len(offer)
  /\ \A i \in 1 .. Len(sent) : sent'[i] = sent[i]
  /\ \A i \in 1 .. Len(offer) : sent'[Len(sent) + i] = [byte |-> offer[i], pins |-> pins]

\* The pins move only when the FIFO is empty.
PinsHold(offer) == pins' = pins \/ (tx_fifo = << >> /\ offer = << >>)

\* The order holds when the display takes the oldest byte of the FIFO, and when it is popped.
LEMMA OrderStep ==
  ASSUME LineType, OrderInv, PinsInv, NEW offer \in Offers, NEW d \in {0, 1}, NEW h \in {0, 1},
         taken' \in Seq(Sent), tx_fifo' \in Seq(Byte),
         d <= Leaving, Leaving <= Len(tx_fifo), h = 1 => Leaving = 0 /\ tx_fifo # << >>,
         Leaving' = Leaving + h - d,
         Passed(tx_fifo', tx_fifo, d, offer), Pushed(offer), PinsHold(offer),
         h = 0 => taken' = taken, h = 1 => taken' = Append(taken, sent[Len(taken) + 1])
  PROVE  OrderInv' /\ PinsInv'
<1> DEFINE w == Len(sent)
           e == Len(taken)
           f == Len(tx_fifo)
           o == Len(offer)
           l == Leaving
<1>1. /\ w \in Nat /\ e \in Nat /\ f \in Nat /\ o \in {0, 1} /\ l \in {0, 1} /\ (tx_fifo # << >> => f > 0)
      /\ taken \in Seq(Sent) /\ sent \in Seq(Sent)
  <2>1. tx_fifo \in Seq(Byte) /\ taken \in Seq(Sent) /\ sent \in Seq(Sent)
    BY DEF LineType, SpiTypeOK
  <2> QED BY <2>1, OfferType DEF Leaving
<1>2. w + l = e + f /\ l <= e /\ l <= f /\ d <= l
  BY Zenon DEF OrderInv
<1>3. h = 1 => l = 0 /\ f > 0
  BY <1>1, Zenon
<1>4. Len(taken') = e + h /\ \A i \in 1 .. e + h : taken'[i] = sent[i]
  <2>1. CASE h = 0
    <3>1. taken' = taken
      BY <2>1
    <3> QED BY <1>1, <2>1, <3>1 DEF OrderInv
  <2>2. CASE h = 1
    <3>1. taken' = Append(taken, sent[e + 1])
      BY <2>2
    <3>2. e + 1 \in 1 .. w
      <4> HIDE DEF w, e, f, o, l
      <4> QED BY <1>1, <1>2, <1>3, <2>2
    <3>3. sent[e + 1] \in Sent
      BY <1>1, <3>2, ElementOfSeq, Zenon
    <3> DEFINE x == sent[e + 1]
               new == Append(taken, x)
    <3>4. x \in Sent
      BY <3>3, Zenon
    <3> HIDE DEF x
    <3>5. /\ Len(new) = e + 1 /\ new[e + 1] = x
          /\ \A i \in 1 .. e : new[i] = taken[i]
      BY <1>1, <3>4, AppendProperties
    <3> HIDE DEF new
    <3>6. taken' = new
      BY <3>1, Zenon DEF new, x
    <3>7. \A i \in 1 .. e + 1 : new[i] = sent[i]
      <4> SUFFICES ASSUME NEW i \in 1 .. e + 1 PROVE new[i] = sent[i]
        OBVIOUS
      <4>1. CASE i = e + 1
        BY <3>5, <4>1, Zenon DEF x
      <4>2. CASE i # e + 1
        <5>1. i \in 1 .. e
          <6> HIDE DEF w, e, f, o, l
          <6> QED BY <1>1, <4>2
        <5> QED BY <3>5, <5>1, Zenon DEF OrderInv
      <4> QED BY <4>1, <4>2
    <3> QED BY <2>2, <3>5, <3>6, <3>7, Zenon
  <2> QED BY <2>1, <2>2
<1>5. Len(sent') = w + o /\ Len(tx_fifo') = f - d + o /\ Leaving' = l + h - d
  BY Zenon DEF Pushed, Passed
<1>6. \A i \in 1 .. w : sent'[i] = sent[i]
  BY Zenon DEF Pushed
<1> DEFINE e1 == Len(taken')
           l1 == Leaving'
           f1 == Len(tx_fifo')
           w1 == Len(sent')
<1>0. /\ w \in Nat /\ e \in Nat /\ f \in Nat /\ o \in {0, 1} /\ l \in {0, 1}
      /\ w + l = e + f /\ l <= e /\ l <= f /\ d <= l
      /\ e1 = e + h /\ l1 = l + h - d /\ f1 = f - d + o /\ w1 = w + o
  BY <1>1, <1>2, <1>4, <1>5, Zenon
<1>7. w1 + l1 = e1 + f1 /\ l1 <= e1
  <2> HIDE DEF w, e, f, o, l, w1, e1, f1, l1
  <2> QED BY <1>0
<1>8. \A i \in 1 .. Len(taken') : taken'[i] = sent'[i]
  <2> SUFFICES ASSUME NEW i \in 1 .. Len(taken')
               PROVE  taken'[i] = sent'[i]
    OBVIOUS
  <2>1. i \in 1 .. e + h
    BY <1>4, Zenon
  <2>2. i \in 1 .. w
    <3> HIDE DEF w, e, f, o, l
    <3> QED BY <1>1, <1>2, <1>3, <2>1
  <2> QED BY <1>4, <1>6, <2>1, <2>2, Zenon
<1>9. \A i \in 1 .. Len(tx_fifo') : tx_fifo'[i] = sent'[Len(taken') - Leaving' + i].byte
  <2> SUFFICES ASSUME NEW i \in 1 .. Len(tx_fifo')
               PROVE  tx_fifo'[i] = sent'[Len(taken') - Leaving' + i].byte
    OBVIOUS
  <2>1. e1 - l1 + i = e - l + (i + d)
    <3>1. i \in 1 .. f1
      OBVIOUS
    <3> HIDE DEF w, e, f, o, l, w1, e1, f1, l1
    <3> QED BY <1>0, <3>1
  <2>2. CASE i <= f - d
    <3>1. i + d \in 1 .. f /\ e - l + (i + d) \in 1 .. w /\ i \in 1 .. f - d
      <4> HIDE DEF w, e, f, o, l
      <4> QED BY <1>1, <1>2, <1>5, <2>2
    <3>2. tx_fifo'[i] = tx_fifo[i + d]
      BY <3>1, Zenon DEF Passed
    <3>3. tx_fifo[i + d] = sent[e - l + (i + d)].byte
      BY <3>1, Zenon DEF OrderInv
    <3>4. sent'[e - l + (i + d)] = sent[e - l + (i + d)]
      BY <1>6, <3>1, Zenon
    <3> QED BY <2>1, <3>2, <3>3, <3>4, Zenon
  <2>3. CASE ~(i <= f - d)
    <3>1. o = 1 /\ i = f - d + 1 /\ e - l + (i + d) = w + 1 /\ 1 \in 1 .. o
      <4> HIDE DEF w, e, f, o, l
      <4> QED BY <1>1, <1>2, <1>5, <2>3
    <3>2. tx_fifo'[i] = offer[1]
      BY <3>1, Zenon DEF Passed
    <3>3. sent'[w + 1] = [byte |-> offer[1], pins |-> pins]
      BY <3>1, Zenon DEF Pushed
    <3>4. sent'[w + 1].byte = offer[1]
      BY <3>3
    <3> QED BY <2>1, <3>1, <3>2, <3>4, Zenon
  <2> QED BY <2>2, <2>3
<1>10. \A i \in Len(taken') + 1 .. Len(sent') : sent'[i].pins = pins'
  <2> SUFFICES ASSUME NEW i \in Len(taken') + 1 .. Len(sent')
               PROVE  sent'[i].pins = pins'
    OBVIOUS
  <2>0. i \in e + h + 1 .. w + o
    BY <1>4, <1>5, Zenon
  <2>1. pins' = pins
    <3>1. ~(f = 0 /\ o = 0)
      <4> HIDE DEF w, e, f, o, l
      <4> QED BY <1>1, <1>2, <2>0
    <3>2. tx_fifo = << >> /\ offer = << >> => f = 0 /\ o = 0
      OBVIOUS
    <3> QED BY <3>1, <3>2, Zenon DEF PinsHold
  <2>2. CASE i <= w
    <3>1. i \in e + 1 .. w /\ i \in 1 .. w
      <4> HIDE DEF w, e, f, o, l
      <4> QED BY <1>1, <2>0, <2>2
    <3>2. sent'[i] = sent[i] /\ sent[i].pins = pins
      BY <1>6, <3>1, Zenon DEF PinsInv
    <3> QED BY <2>1, <3>2, Zenon
  <2>3. CASE ~(i <= w)
    <3>1. o = 1 /\ i = w + 1 /\ 1 \in 1 .. o
      <4> HIDE DEF w, e, f, o, l
      <4> QED BY <1>1, <2>0, <2>3
    <3>2. sent'[w + 1] = [byte |-> offer[1], pins |-> pins]
      BY <3>1, Zenon DEF Pushed
    <3>3. sent'[w + 1].pins = pins
      BY <3>2
    <3> QED BY <2>1, <3>1, <3>3, Zenon
  <2> QED BY <2>2, <2>3
<1> QED BY <1>7, <1>8, <1>9, <1>10, Zenon DEF OrderInv, PinsInv

-----------------------------------------------------------------------------
(* A clock edge, state by state.                                           *)

Line == LineType /\ OrderInv /\ PinsInv /\ FrameInv

\* A clock edge in which the driver writes the offer, or nothing, and the display drives a bit.
Edges(offer, rx) ==
  /\ Line /\ ClockEdge(offer, rx) /\ Display(rx) /\ Pushed(offer) /\ PinsHold(offer)
  /\ offer # << >> => Len(tx_fifo) < Depth

popped == IF tx_fifo_rready THEN 1 ELSE 0

\* The serial clock rises or falls at this edge.
Rise == sck_pos
Fall == sck_neg

Moves(offer, rx) ==
  /\ tx_fifo' \in Seq(Byte) /\ Len(tx_fifo') <= Depth /\ Passed(tx_fifo', tx_fifo, popped, offer)
  /\ next_tx_byte_q' \in BOOLEAN /\ (next_tx_byte_q' <=> state_q = "STOP")
  /\ count' \in 0 .. ToggleCount - 1 /\ sck' \in Bit
  /\ Rise => sck = 0
  /\ Fall => sck = 1
  /\ state_q = "SEND" \/ tx_fifo # << >> => sck' = IF Rise THEN 1 ELSE IF Fall THEN 0 ELSE sck
  /\ ~Rise => UNCHANGED <<state_q, bit_counter_q, recieved_byte_q>>
  /\ Rise => state_q' = state_d /\ bit_counter_q' = bit_counter_d /\ recieved_byte_q' = recieved_byte_d
  /\ current_byte_q' = IF Fall THEN current_byte_d ELSE current_byte_q
  /\ recieved_byte_d' = IF Fall /\ state_q = "SEND" THEN ShiftLeft(recieved_byte_q, rx) ELSE recieved_byte_d

\* The types of a state, and the ones of the queues after an edge.
Types(offer) ==
  /\ state_q \in States /\ bit_counter_q \in 0 .. NumBits - 1 /\ sck \in Bit
  /\ current_byte_q \in Byte /\ recieved_byte_q \in Byte /\ recieved_byte_d \in Byte
  /\ tx_fifo \in Seq(Byte) /\ Len(tx_fifo) \in Nat /\ Len(offer) \in {0, 1}
  /\ taken \in Seq(Sent) /\ sent \in Seq(Sent) /\ partial \in Seq(Bit) /\ fed \in Seq(Bit)
  /\ next_tx_byte_q \in BOOLEAN

LEMMA EdgeTypes ==
  ASSUME NEW offer \in Offers, NEW rx \in Bit, Edges(offer, rx)
  PROVE  Types(offer)
<1>1. /\ state_q \in States /\ bit_counter_q \in 0 .. NumBits - 1 /\ sck \in Bit
      /\ current_byte_q \in Byte /\ recieved_byte_q \in Byte /\ recieved_byte_d \in Byte
      /\ taken \in Seq(Sent) /\ sent \in Seq(Sent) /\ partial \in Seq(Bit) /\ fed \in Seq(Bit)
      /\ next_tx_byte_q \in BOOLEAN
  BY DEF Edges, Line, LineType, SpiTypeOK
<1>2. tx_fifo \in Seq(Byte)
  BY DEF Edges, Line, LineType, SpiTypeOK
<1>3. Len(tx_fifo) \in Nat /\ Len(offer) \in {0, 1}
  BY <1>2, OfferType
<1> QED BY <1>1, <1>2, <1>3, Zenon DEF Types

LEMMA EdgeMoves ==
  ASSUME NEW offer \in Offers, NEW rx \in Bit, Edges(offer, rx)
  PROVE  Moves(offer, rx) /\ popped \in {0, 1} /\ popped <= Len(tx_fifo)
<1>1. Types(offer)
  BY EdgeTypes
<1>2. tx_fifo_rready \in BOOLEAN /\ (tx_fifo_rready => tx_fifo # << >>)
  BY Zenon DEF Edges, Line, FrameInv, tx_fifo_rready, next_tx_byte_o
<1>3. tx_fifo' = AfterEdge(tx_fifo, Depth, offer, tx_fifo_rready)
  BY Zenon DEF Edges, ClockEdge
<1>4. Len(tx_fifo) <= Depth /\ (offer # << >> => Len(tx_fifo) < Depth)
  BY DEF Edges, Line, LineType, SpiTypeOK
<1>5. tx_fifo' \in Seq(Byte) /\ Len(tx_fifo') <= Depth /\ Passed(tx_fifo', tx_fifo, popped, offer)
  BY <1>1, <1>2, <1>3, <1>4, FifoEdge, Zenon DEF popped, Types
<1>6. next_tx_byte_q' \in BOOLEAN /\ (next_tx_byte_q' <=> state_q = "STOP")
  BY Zenon DEF Edges, ClockEdge, next_tx_byte_o
<1>7. count \in 0 .. ToggleCount - 1 /\ sck \in {0, 1}
  BY DEF Edges, Line, LineType, SpiTypeOK, Bit
<1>8. (Rise => sck = 0) /\ (Fall => sck = 1) /\ (count_at_limit <=> Rise \/ Fall)
  BY <1>7 DEF Rise, Fall, sck_pos, sck_neg
<1>9. count' \in 0 .. ToggleCount - 1 /\ sck' \in Bit
  BY <1>7, Constants DEF Edges, ClockEdge, SerialClock, count_at_limit, CPOL, Bit
<1>10. state_q = "SEND" \/ tx_fifo # << >> => sck' = IF Rise THEN 1 ELSE IF Fall THEN 0 ELSE sck
  <2> SUFFICES ASSUME state_q = "SEND" \/ tx_fifo # << >>
               PROVE  sck' = IF Rise THEN 1 ELSE IF Fall THEN 0 ELSE sck
    OBVIOUS
  <2>1. sck_en \/ start_i
    BY Zenon DEF sck_en, start_i
  <2>2. sck' = IF count_at_limit THEN 1 - sck ELSE sck
    BY <2>1, Zenon DEF Edges, ClockEdge, SerialClock
  <2> QED BY <1>7, <1>8, <2>2
<1>11. /\ ~Rise => UNCHANGED <<state_q, bit_counter_q, recieved_byte_q>>
       /\ Rise => state_q' = state_d /\ bit_counter_q' = bit_counter_d /\ recieved_byte_q' = recieved_byte_d
       /\ current_byte_q' = IF Fall THEN current_byte_d ELSE current_byte_q
       /\ recieved_byte_d' = IF Fall /\ state_q = "SEND" THEN ShiftLeft(recieved_byte_q, rx) ELSE recieved_byte_d
  BY Zenon DEF Edges, ClockEdge, Shifter, Rise, Fall
<1>12. Len(tx_fifo) # 0 <=> tx_fifo # << >>
  BY <1>1 DEF Types
<1>13. popped \in {0, 1} /\ popped <= Len(tx_fifo)
  BY <1>1, <1>2, <1>12 DEF popped, Types
<1> QED BY <1>5, <1>6, <1>8, <1>9, <1>10, <1>11, <1>13, Zenon DEF Moves

\* The peripheral's registers keep their types.
LEMMA MovesType ==
  ASSUME NEW offer \in Offers, NEW rx \in Bit, Edges(offer, rx)
  PROVE  SpiTypeOK'
<1>1. Types(offer) /\ Moves(offer, rx)
  BY EdgeTypes, EdgeMoves, Zenon
<1>2. state_q' \in States
  BY <1>1 DEF Types, Moves, state_d, States
<1>3. bit_counter_q' \in 0 .. NumBits - 1
  BY <1>1, Constants DEF Types, Moves, bit_counter_d
<1>4. current_byte_d \in Byte
  <2>1. Zeros \in Byte /\ 0 \in Bit
    BY DEF Zeros, Byte, Bit
  <2>2. CASE state_q = "START"
    <3>1. start_i => Head(tx_fifo) \in Byte
      BY <1>1, HeadTailProperties DEF start_i, Types
    <3> QED BY <2>1, <2>2, <3>1, Zenon DEF current_byte_d
  <2>3. CASE state_q = "SEND"
    <3>1. ShiftLeft(current_byte_q, 0) \in Byte
      BY <1>1, <2>1, Shifted, Zenon DEF Types
    <3>2. current_byte_d = ShiftLeft(current_byte_q, 0)
      BY <2>3 DEF current_byte_d
    <3> QED BY <3>1, <3>2, Zenon
  <2>4. CASE state_q \notin {"START", "SEND"}
    BY <1>1, <2>4 DEF current_byte_d, Types
  <2> QED BY <2>2, <2>3, <2>4
<1>5. ShiftLeft(recieved_byte_q, rx) \in Byte
  BY <1>1, Shifted, Zenon DEF Types
<1>6. current_byte_q' \in Byte /\ recieved_byte_q' \in Byte /\ recieved_byte_d' \in Byte
  BY <1>1, <1>4, <1>5, Zenon DEF Types, Moves
<1>7. {current_byte_q', recieved_byte_q', recieved_byte_d'} \subseteq Byte
  BY <1>6, Zenon
<1> QED BY <1>1, <1>2, <1>3, <1>7, Zenon DEF SpiTypeOK, Moves

\* The display takes a bit when the serial clock falls in SEND, and only then.
LEMMA DisplayMoves ==
  ASSUME NEW offer \in Offers, NEW rx \in Bit, Edges(offer, rx)
  PROVE  IF state_q = "SEND" /\ Fall
         THEN LET byte == Append(partial, current_byte_q[1])
                  last == Len(byte) = NumBits
              IN /\ partial' = IF last THEN << >> ELSE byte
                 /\ taken' = IF last THEN Append(taken, [byte |-> byte, pins |-> pins]) ELSE taken
                 /\ fed' = IF Len(fed) = NumBits THEN <<rx>> ELSE Append(fed, rx)
         ELSE UNCHANGED peerVars
<1>1. Types(offer) /\ Moves(offer, rx)
  BY EdgeTypes, EdgeMoves, Zenon
<1>2. (sck_o = 1 /\ sck_o' = 0) <=> (state_q = "SEND" /\ Fall)
  <2>1. CASE state_q # "SEND"
    BY <2>1 DEF sck_o, sck_en, CPOL
  <2>2. CASE state_q = "SEND" /\ Fall
    <3>1. ~Rise /\ sck = 1 /\ sck' = 0 /\ state_q' = "SEND"
      BY <1>1, <2>2 DEF Moves
    <3> QED BY <2>2, <3>1 DEF sck_o, sck_en, CPOL
  <2>3. CASE state_q = "SEND" /\ ~Fall /\ sck = 1
    <3>1. ~Rise /\ sck' = 1 /\ state_q' = "SEND"
      BY <1>1, <2>3 DEF Moves
    <3> QED BY <2>3, <3>1 DEF sck_o, sck_en, CPOL
  <2>4. CASE state_q = "SEND" /\ ~Fall /\ sck # 1
    BY <2>4 DEF sck_o, sck_en, CPOL
  <2> QED BY <2>1, <2>2, <2>3, <2>4
<1>3. Display(rx)
  BY DEF Edges
<1>4. CASE state_q = "SEND" /\ Fall
  <2>1. spi_tx_o = current_byte_q[1]
    BY <1>4 DEF spi_tx_o
  <2>2. sck_o = 1 /\ sck_o' = 0
    BY <1>2, <1>4
  <2> QED BY <1>3, <1>4, <2>1, <2>2, Zenon DEF Display
<1>5. CASE ~(state_q = "SEND" /\ Fall)
  BY <1>2, <1>3, <1>5, Zenon DEF Display
<1> QED BY <1>4, <1>5

\* OrderStep, for the edges at which the display takes no byte, and for the others.
LEMMA NotTaken ==
  ASSUME NEW offer \in Offers, NEW rx \in Bit, Edges(offer, rx), taken' = taken, popped <= Leaving,
         Leaving' = Leaving - popped
  PROVE  OrderInv' /\ PinsInv'
<1>1. Types(offer) /\ Moves(offer, rx) /\ popped \in {0, 1}
  BY EdgeTypes, EdgeMoves, Zenon
<1>2. Leaving \in {0, 1} /\ (Leaving = 1 => tx_fifo # << >>)
  <2>1. state_q \in {"START", "SEND"} \/ (state_q = "STOP" /\ ~next_tx_byte_q) => tx_fifo # << >>
    BY Zenon DEF Edges, Line, FrameInv
  <2> QED BY <2>1 DEF Leaving
<1>3. Leaving <= Len(tx_fifo)
  BY <1>1, <1>2 DEF Types
<1>4. Leaving' = Leaving + 0 - popped /\ 0 \in {0, 1} /\ 0 # 1
  BY <1>1, <1>2
<1>5. taken' \in Seq(Sent) /\ tx_fifo' \in Seq(Byte) /\ Passed(tx_fifo', tx_fifo, popped, offer)
  BY <1>1, Zenon DEF Types, Moves
<1> QED BY <1>1, <1>3, <1>4, <1>5, OrderStep, Zenon DEF Edges, Line

LEMMA Taken ==
  ASSUME NEW offer \in Offers, NEW rx \in Bit, Edges(offer, rx), Leaving = 0, popped = 0, tx_fifo # << >>,
         taken' = Append(taken, sent[Len(taken) + 1]), Leaving' = 1
  PROVE  OrderInv' /\ PinsInv' /\ taken' \in Seq(Sent)
<1>1. Types(offer) /\ Moves(offer, rx)
  BY EdgeTypes, EdgeMoves, Zenon
<1>2. 0 <= Len(tx_fifo) /\ Leaving' = Leaving + 1 - 0 /\ 0 \in {0, 1} /\ 1 \in {0, 1} /\ 1 # 0 /\ 0 <= Leaving
      /\ Leaving <= Len(tx_fifo)
  BY <1>1 DEF Types
<1>3. Len(taken) + 1 \in 1 .. Len(sent)
  <2> DEFINE w == Len(sent)
             e == Len(taken)
             f == Len(tx_fifo)
  <2>1. w \in Nat /\ e \in Nat /\ f \in Nat
    BY <1>1, LenProperties, Zenon DEF Types
  <2>2. f # 0
    BY <1>1 DEF Types
  <2>3. w + 0 = e + f
    BY Zenon DEF Edges, Line, OrderInv
  <2> HIDE DEF w, e, f
  <2>4. e + 1 \in 1 .. w
    BY <2>1, <2>2, <2>3
  <2> QED BY <2>4, Zenon DEF w, e
<1>4. sent[Len(taken) + 1] \in Sent
  BY <1>1, <1>3, ElementOfSeq, Zenon DEF Types
<1>5. taken' \in Seq(Sent)
  BY <1>1, <1>4, AppendProperties, Zenon DEF Types
<1>6. tx_fifo' \in Seq(Byte) /\ Passed(tx_fifo', tx_fifo, 0, offer)
  BY <1>1, Zenon DEF Moves
<1> QED BY <1>2, <1>5, <1>6, OrderStep, Zenon DEF Edges, Line

\* A FIFO that is not popped keeps its head.
LEMMA HeadStays ==
  ASSUME NEW offer \in Offers, NEW rx \in Bit, Edges(offer, rx), popped = 0, tx_fifo # << >>
  PROVE  tx_fifo' # << >> /\ tx_fifo'[1] = tx_fifo[1]
<1>1. Types(offer) /\ Moves(offer, rx)
  BY EdgeTypes, EdgeMoves, Zenon
<1>2. Len(tx_fifo) > 0 /\ Len(tx_fifo) \in Nat /\ Len(offer) \in {0, 1}
  BY <1>1 DEF Types
<1>3. Len(tx_fifo') = Len(tx_fifo) + Len(offer) /\ \A i \in 1 .. Len(tx_fifo) : tx_fifo'[i] = tx_fifo[i]
  BY <1>1, <1>2 DEF Moves, Passed
<1>4. tx_fifo' \in Seq(Byte)
  BY <1>1, Zenon DEF Moves
<1> QED BY <1>2, <1>3, <1>4

\* Between two bytes: the pop in the first cycle of STOP, the wait for a byte, and its load in START.
LEMMA BetweenEdge ==
  ASSUME NEW offer \in Offers, NEW rx \in Bit, Edges(offer, rx), state_q # "SEND"
  PROVE  Line'
<1>1. Types(offer) /\ Moves(offer, rx)
  BY EdgeTypes, EdgeMoves, Zenon
<1>2. taken' = taken /\ partial' = partial /\ fed' = fed /\ partial = << >> /\ Len(fed) \in {0, NumBits}
  <2>1. UNCHANGED peerVars
    BY DisplayMoves, Zenon
  <2> QED BY <2>1 DEF peerVars, Edges, Line, FrameInv
<1>3. popped = Leaving /\ (state_q # "STOP" => popped = 0)
  BY <1>1 DEF popped, Leaving, tx_fifo_rready, next_tx_byte_o, Types
<1>4. ASSUME state_q = "IDLE" PROVE FrameInv' /\ Leaving' = 0
  <2>1. state_q' = "IDLE" \/ (state_q' = "START" /\ tx_fifo # << >> /\ sck' = 1)
    BY <1>1, <1>4 DEF Moves, state_d, start_i
  <2>2. Leaving' = 0
    BY <2>1 DEF Leaving
  <2>3. state_q' = "START" => tx_fifo' # << >>
    BY <1>3, <1>4, <2>1, HeadStays, Zenon
  <2>4. FrameInv'
    BY <1>2, <2>1, <2>3 DEF FrameInv
  <2> QED BY <2>2, <2>4
<1>5. ASSUME state_q = "START" PROVE FrameInv' /\ Leaving' = 0
  <2>1. tx_fifo # << >> /\ (sck = 0 => current_byte_q = tx_fifo[1])
    BY <1>5, Zenon DEF Edges, Line, FrameInv
  <2>2. tx_fifo' # << >> /\ tx_fifo'[1] = tx_fifo[1]
    BY <1>3, <1>5, <2>1, HeadStays
  <2>3. sck' = IF Rise THEN 1 ELSE IF Fall THEN 0 ELSE sck
    BY <1>1, <2>1, Zenon DEF Moves
  <2>4. CASE Rise
    <3>1. state_q' = "SEND" /\ bit_counter_q' = NumBits - 1 /\ sck' = 1 /\ ~Fall
      BY <1>1, <1>5, <2>3, <2>4 DEF Moves, state_d, bit_counter_d
    <3>2. current_byte_q' = tx_fifo'[1]
      BY <1>1, <2>1, <2>2, <2>4, <3>1 DEF Moves
    <3>3. Shifts' = 0
      BY <3>1, Constants DEF Shifts
    <3>4. OutInv'
      BY <1>2, <3>2, <3>3, Constants DEF OutInv
    <3>5. InInv'
      BY <1>2, <3>3 DEF InInv
    <3>6. FrameInv'
      BY <2>2, <3>1, <3>4, <3>5 DEF FrameInv
    <3>7. Leaving' = 0
      BY <3>1 DEF Leaving
    <3> QED BY <3>6, <3>7
  <2>5. CASE ~Rise
    <3>1. state_q' = "START"
      BY <1>1, <1>5, <2>5, Zenon DEF Moves
    <3>2. sck' = 0 => current_byte_q' = tx_fifo[1]
      <4>1. CASE Fall
        <5>1. current_byte_d = Head(tx_fifo)
          BY <1>5, <2>1 DEF current_byte_d, start_i
        <5>2. current_byte_q' = Head(tx_fifo)
          BY <1>1, <4>1, <5>1, Zenon DEF Moves
        <5> QED BY <1>1, <2>1, <5>2 DEF Types
      <4>2. CASE ~Fall
        BY <1>1, <2>1, <2>3, <2>5, <4>2 DEF Moves
      <4> QED BY <4>1, <4>2
    <3>3. FrameInv'
      BY <1>2, <2>2, <3>1, <3>2 DEF FrameInv
    <3>4. Leaving' = 0
      BY <3>1 DEF Leaving
    <3> QED BY <3>3, <3>4
  <2> QED BY <2>4, <2>5
<1>6. ASSUME state_q = "STOP" PROVE FrameInv' /\ Leaving' = 0
  <2>1. next_tx_byte_q' = TRUE
    BY <1>1, <1>6 DEF Moves
  <2>2. state_q' = "IDLE" \/ (state_q' = "STOP" /\ recieved_byte_q' = recieved_byte_q)
    BY <1>1, <1>6 DEF Moves, state_d
  <2>3. recieved_byte_q = fed
    BY <1>6, Zenon DEF Edges, Line, FrameInv
  <2>4. FrameInv'
    BY <1>2, <2>1, <2>2, <2>3 DEF FrameInv
  <2>5. Leaving' = 0
    BY <2>1, <2>2 DEF Leaving
  <2> QED BY <2>4, <2>5
<1>7. FrameInv' /\ Leaving' = 0
  BY <1>1, <1>4, <1>5, <1>6 DEF Types, States
<1>8. popped <= Leaving /\ Leaving' = Leaving - popped
  BY <1>3, <1>7 DEF Leaving
<1>9. OrderInv' /\ PinsInv'
  BY <1>2, <1>8, NotTaken, Zenon
<1>10. LineType'
  <2>1. SpiTypeOK'
    BY MovesType, Zenon
  <2> QED BY <1>1, <1>2, <2>1, Zenon DEF LineType, Types, Pushed, Edges
<1> QED BY <1>7, <1>9, <1>10, Zenon DEF Line

\* What holds in SEND, and through every edge of it.
LEMMA SendFacts ==
  ASSUME NEW offer \in Offers, NEW rx \in Bit, Edges(offer, rx), state_q = "SEND"
  PROVE  /\ Types(offer) /\ Moves(offer, rx) /\ popped = 0 /\ OutInv /\ InInv
         /\ tx_fifo # << >> /\ tx_fifo' # << >> /\ tx_fifo'[1] = tx_fifo[1] /\ tx_fifo[1] \in Byte
         /\ Shifts \in 0 .. NumBits /\ next_tx_byte_q' = FALSE
         /\ sck' = (IF Rise THEN 1 ELSE IF Fall THEN 0 ELSE sck)
<1>1. Types(offer) /\ Moves(offer, rx)
  BY EdgeTypes, EdgeMoves, Zenon
<1>2. OutInv /\ InInv /\ tx_fifo # << >>
  BY Zenon DEF Edges, Line, FrameInv
<1>3. popped = 0
  BY DEF popped, tx_fifo_rready, next_tx_byte_o
<1>4. tx_fifo' # << >> /\ tx_fifo'[1] = tx_fifo[1]
  BY <1>2, <1>3, HeadStays, Zenon
<1>5. tx_fifo[1] \in Byte
  BY <1>1, <1>2 DEF Types
<1>6. Shifts \in 0 .. NumBits
  BY <1>1, Constants DEF Types, Shifts, Bit
<1>7. next_tx_byte_q' = FALSE
  BY <1>1 DEF Moves
<1>8. sck' = (IF Rise THEN 1 ELSE IF Fall THEN 0 ELSE sck)
  BY <1>1, Zenon DEF Moves
<1> QED BY <1>1, <1>2, <1>3, <1>4, <1>5, <1>6, <1>7, <1>8, Zenon

\* Between two edges of the serial clock nothing moves.
LEMMA SendHold ==
  ASSUME NEW offer \in Offers, NEW rx \in Bit, Edges(offer, rx), state_q = "SEND", ~Rise, ~Fall
  PROVE  FrameInv' /\ OrderInv' /\ PinsInv' /\ taken' = taken /\ partial' = partial /\ fed' = fed
<1>1. /\ Moves(offer, rx) /\ popped = 0 /\ OutInv /\ InInv
      /\ tx_fifo' # << >> /\ tx_fifo'[1] = tx_fifo[1] /\ sck' = (IF Rise THEN 1 ELSE IF Fall THEN 0 ELSE sck)
  BY SendFacts, Zenon
<1>2. taken' = taken /\ partial' = partial /\ fed' = fed
  <2>1. UNCHANGED peerVars
    BY DisplayMoves, Zenon
  <2> QED BY <2>1 DEF peerVars
<1>3. /\ sck' = sck /\ state_q' = state_q /\ bit_counter_q' = bit_counter_q
      /\ recieved_byte_q' = recieved_byte_q /\ recieved_byte_d' = recieved_byte_d
      /\ current_byte_q' = current_byte_q
  BY <1>1, Zenon DEF Moves
<1>4. Shifts' = Shifts /\ Latched' = Latched
  BY <1>3, Zenon DEF Shifts, Latched
<1>5. OutInv' /\ InInv'
  BY <1>1, <1>2, <1>3, <1>4, Zenon DEF OutInv, InInv
<1>6. FrameInv'
  <2>1. state_q' = "SEND"
    BY <1>3
  <2> QED BY <1>1, <1>5, <2>1 DEF FrameInv
<1>7. popped <= Leaving /\ Leaving' = Leaving - popped
  BY <1>1, <1>3 DEF Leaving
<1> QED BY <1>2, <1>6, <1>7, NotTaken, Zenon

\* The serial clock rises: the next bit, or the end of the byte.
LEMMA SendRise ==
  ASSUME NEW offer \in Offers, NEW rx \in Bit, Edges(offer, rx), state_q = "SEND", Rise
  PROVE  FrameInv' /\ OrderInv' /\ PinsInv' /\ taken' = taken /\ partial' = partial /\ fed' = fed
<1>1. /\ Types(offer) /\ Moves(offer, rx) /\ popped = 0 /\ OutInv /\ InInv /\ Shifts \in 0 .. NumBits
      /\ tx_fifo' # << >> /\ tx_fifo'[1] = tx_fifo[1] /\ sck' = (IF Rise THEN 1 ELSE IF Fall THEN 0 ELSE sck)
      /\ next_tx_byte_q' = FALSE
  BY SendFacts, Zenon
<1>2. sck = 0 /\ sck' = 1 /\ ~Fall
  BY <1>1 DEF Moves
<1>3. taken' = taken /\ partial' = partial /\ fed' = fed
  <2>1. UNCHANGED peerVars
    BY <1>2, DisplayMoves, Zenon
  <2> QED BY <2>1 DEF peerVars
<1>4. /\ state_q' = state_d /\ bit_counter_q' = bit_counter_d
      /\ recieved_byte_q' = recieved_byte_d /\ current_byte_q' = current_byte_q
  BY <1>1, <1>2, Zenon DEF Moves
<1>5. Latched' = Latched
  BY <1>2, <1>4 DEF Latched
<1>6. bit_counter_q \in 0 .. NumBits - 1
  BY <1>1 DEF Types
<1>7. CASE bit_counter_q # 0
  <2>1. state_q' = "SEND" /\ bit_counter_q' = bit_counter_q - 1
    BY <1>4, <1>7 DEF state_d, bit_counter_d
  <2>2. Shifts' = Shifts
    BY <1>2, <1>6, <2>1, Constants DEF Shifts
  <2>3. OutInv' /\ InInv'
    BY <1>1, <1>3, <1>4, <1>5, <2>2, Zenon DEF OutInv, InInv
  <2>4. FrameInv'
    BY <1>1, <2>1, <2>3 DEF FrameInv
  <2>5. popped <= Leaving /\ Leaving' = Leaving - popped
    BY <1>1, <1>2, <1>7, <2>1 DEF Leaving
  <2> QED BY <1>3, <2>4, <2>5, NotTaken, Zenon
<1>8. CASE bit_counter_q = 0
  <2>1. state_q' = "STOP"
    BY <1>4, <1>8 DEF state_d
  <2>2. Shifts = NumBits
    BY <1>2, <1>8, Constants DEF Shifts
  <2>3. partial = << >>
    BY <1>1, <2>2, Zenon DEF OutInv
  <2>4. Len(fed) = NumBits /\ \A j \in 1 .. NumBits : fed[j] = recieved_byte_d[j]
    <3>1. Len(fed) = NumBits /\ \A j \in 1 .. NumBits : fed[j] = Latched[NumBits - NumBits + j]
      BY <1>1, <2>2, Constants DEF InInv
    <3>2. Latched = recieved_byte_d
      BY <1>2 DEF Latched
    <3>3. \A j \in 1 .. NumBits : NumBits - NumBits + j = j
      BY Constants
    <3> QED BY <3>1, <3>2, <3>3, Zenon
  <2>5. recieved_byte_q' = fed
    <3>1. fed = recieved_byte_d
      BY <1>1, <2>4, SameBits, Zenon DEF Types
    <3> QED BY <1>4, <3>1, Zenon
  <2>6. FrameInv'
    BY <1>1, <1>3, <2>1, <2>3, <2>4, <2>5 DEF FrameInv
  <2>7. popped <= Leaving /\ Leaving' = Leaving - popped
    BY <1>1, <1>2, <1>8, <2>1 DEF Leaving
  <2> QED BY <1>3, <2>6, <2>7, NotTaken, Zenon
<1> QED BY <1>7, <1>8

\* The serial clock falls: both ends shift, and the display has the byte after its last bit.
LEMMA SendFall ==
  ASSUME NEW offer \in Offers, NEW rx \in Bit, Edges(offer, rx), state_q = "SEND", Fall
  PROVE  /\ FrameInv' /\ OrderInv' /\ PinsInv'
         /\ taken' \in Seq(Sent) /\ partial' \in Seq(Bit) /\ fed' \in Seq(Bit)
<1> DEFINE byte == Append(partial, current_byte_q[1])
           n == Shifts
<1>1. /\ Types(offer) /\ Moves(offer, rx) /\ popped = 0 /\ OutInv /\ InInv /\ n \in 0 .. NumBits
      /\ tx_fifo # << >> /\ tx_fifo' # << >> /\ tx_fifo'[1] = tx_fifo[1] /\ tx_fifo[1] \in Byte
      /\ sck' = (IF Rise THEN 1 ELSE IF Fall THEN 0 ELSE sck)
  BY SendFacts, Zenon
<1>2. sck = 1 /\ sck' = 0 /\ ~Rise
  BY <1>1 DEF Moves
<1>3. state_q' = "SEND" /\ bit_counter_q' = bit_counter_q /\ bit_counter_q \in 0 .. NumBits - 1
  BY <1>1, <1>2 DEF Moves, Types
<1>4. n \in 0 .. NumBits - 1 /\ Shifts' = n + 1 /\ (n + 1 = NumBits <=> bit_counter_q = 0)
  BY <1>2, <1>3, Constants DEF Shifts
<1>5. /\ partial' = IF Len(byte) = NumBits THEN << >> ELSE byte
      /\ taken' = IF Len(byte) = NumBits THEN Append(taken, [byte |-> byte, pins |-> pins]) ELSE taken
      /\ fed' = IF Len(fed) = NumBits THEN <<rx>> ELSE Append(fed, rx)
  BY DisplayMoves, Zenon
<1>6. Len(partial) = n /\ \A j \in 1 .. n : partial[j] = tx_fifo[1][j]
  BY <1>1, <1>4, Constants DEF OutInv
<1>7. current_byte_q[1] = tx_fifo[1][n + 1] /\ current_byte_q[1] \in Bit
  <2>1. 1 \in 1 .. NumBits - n /\ n + 1 \in 1 .. NumBits
    BY <1>4, Constants
  <2>2. current_byte_q[1] = tx_fifo[1][n + 1]
    BY <1>1, <2>1, Zenon DEF OutInv
  <2> QED BY <1>1, <2>1, <2>2 DEF Byte
<1>8. /\ byte \in Seq(Bit) /\ Len(byte) = n + 1
      /\ \A j \in 1 .. n + 1 : byte[j] = tx_fifo[1][j]
  <2> DEFINE x == current_byte_q[1]
             new == Append(partial, x)
  <2>1. x \in Bit /\ x = tx_fifo[1][n + 1] /\ partial \in Seq(Bit)
    BY <1>1, <1>7, Zenon DEF Types
  <2> HIDE DEF x
  <2>2. /\ new \in Seq(Bit) /\ Len(new) = Len(partial) + 1 /\ new[Len(partial) + 1] = x
        /\ \A j \in 1 .. Len(partial) : new[j] = partial[j]
    BY <2>1, AppendProperties
  <2> HIDE DEF new
  <2>3. new \in Seq(Bit) /\ Len(new) = n + 1 /\ new[n + 1] = x /\ \A j \in 1 .. n : new[j] = tx_fifo[1][j]
    BY <1>6, <2>2, Zenon
  <2>4. \A j \in 1 .. n + 1 : new[j] = tx_fifo[1][j]
    <3> SUFFICES ASSUME NEW j \in 1 .. n + 1 PROVE new[j] = tx_fifo[1][j]
      OBVIOUS
    <3>1. CASE j = n + 1
      BY <2>1, <2>3, <3>1, Zenon
    <3>2. CASE j # n + 1
      <4>1. j \in 1 .. n
        <5> HIDE DEF n
        <5> QED BY <1>4, <3>2
      <4> QED BY <2>3, <4>1, Zenon
    <3> QED BY <3>1, <3>2
  <2> QED BY <2>3, <2>4, Zenon DEF new, x
<1> HIDE DEF byte
<1>9. /\ current_byte_q' = ShiftLeft(current_byte_q, 0)
      /\ recieved_byte_d' = ShiftLeft(recieved_byte_q, rx)
      /\ recieved_byte_q' = recieved_byte_q
  BY <1>1, <1>2 DEF Moves, current_byte_d
<1>10. OutInv'
  <2>1. IF n + 1 = NumBits THEN partial' = << >>
        ELSE Len(partial') = n + 1 /\ \A j \in 1 .. n + 1 : partial'[j] = tx_fifo[1][j]
    BY <1>5, <1>8, Zenon
  <2>2. \A i \in 1 .. NumBits - (n + 1) : current_byte_q'[i] = tx_fifo[1][(n + 1) + i]
    <3> SUFFICES ASSUME NEW i \in 1 .. NumBits - (n + 1)
                 PROVE  current_byte_q'[i] = tx_fifo[1][(n + 1) + i]
      OBVIOUS
    <3>1. i \in 1 .. NumBits - 1 /\ i + 1 \in 1 .. NumBits - n /\ n + (i + 1) = (n + 1) + i
      BY <1>4, Constants
    <3>2. 0 \in Bit
      BY DEF Bit
    <3>3. current_byte_q'[i] = current_byte_q[i + 1]
      BY <1>1, <1>9, <3>1, <3>2, Shifted, Zenon DEF Types
    <3>4. current_byte_q[i + 1] = tx_fifo[1][n + (i + 1)]
      BY <1>1, <3>1, Zenon DEF OutInv
    <3> QED BY <3>1, <3>3, <3>4, Zenon
  <2> QED BY <1>1, <1>4, <2>1, <2>2, Zenon DEF OutInv
<1>11. InInv' /\ fed' \in Seq(Bit)
  <2>1. fed' \in Seq(Bit) /\ Len(fed') = n + 1 /\ fed'[n + 1] = rx /\ \A j \in 1 .. n : fed'[j] = fed[j]
    <3>1. fed \in Seq(Bit)
      BY <1>1 DEF Types
    <3>2. CASE n = 0 /\ Len(fed) = NumBits
      BY <1>5, <3>2
    <3>3. CASE ~(n = 0 /\ Len(fed) = NumBits)
      <4>1. Len(fed) = n /\ Len(fed) # NumBits
        BY <1>1, <1>4, <3>3, Constants DEF InInv
      <4>2. fed' = Append(fed, rx)
        BY <1>5, <4>1, Zenon
      <4> DEFINE new == Append(fed, rx)
      <4>3. /\ new \in Seq(Bit) /\ Len(new) = Len(fed) + 1 /\ new[Len(fed) + 1] = rx
            /\ \A j \in 1 .. Len(fed) : new[j] = fed[j]
        BY <3>1, AppendProperties
      <4> QED BY <4>1, <4>2, <4>3, Zenon
    <3> QED BY <3>2, <3>3
  <2>2. Latched = recieved_byte_q /\ Latched' = ShiftLeft(recieved_byte_q, rx)
    BY <1>2, <1>9 DEF Latched
  <2>3. /\ Latched'[NumBits] = rx
        /\ \A i \in 1 .. NumBits - 1 : Latched'[i] = recieved_byte_q[i + 1]
    BY <1>1, <2>2, Shifted, Zenon DEF Types
  <2>4. \A j \in 1 .. n + 1 : fed'[j] = Latched'[NumBits - (n + 1) + j]
    <3> SUFFICES ASSUME NEW j \in 1 .. n + 1
                 PROVE  fed'[j] = Latched'[NumBits - (n + 1) + j]
      OBVIOUS
    <3>1. CASE j = n + 1
      <4>1. NumBits - (n + 1) + j = NumBits
        BY <1>4, <3>1, Constants
      <4> QED BY <2>1, <2>3, <3>1, <4>1, Zenon
    <3>2. CASE j # n + 1
      <4>1. /\ j \in 1 .. n /\ n # 0 /\ NumBits - (n + 1) + j \in 1 .. NumBits - 1
            /\ (NumBits - (n + 1) + j) + 1 = NumBits - n + j
        BY <1>4, <3>2, Constants
      <4>2. fed'[j] = fed[j] /\ fed[j] = Latched[NumBits - n + j]
        BY <1>1, <2>1, <4>1, Zenon DEF InInv
      <4>3. Latched'[NumBits - (n + 1) + j] = recieved_byte_q[(NumBits - (n + 1) + j) + 1]
        BY <2>3, <4>1, Zenon
      <4> QED BY <2>2, <4>1, <4>2, <4>3, Zenon
    <3> QED BY <3>1, <3>2
  <2>5. n + 1 # 0
    BY <1>4
  <2> QED BY <1>4, <2>1, <2>4, <2>5, Zenon DEF InInv
<1>12. FrameInv'
  BY <1>1, <1>3, <1>10, <1>11 DEF FrameInv
<1>13. partial' \in Seq(Bit)
  <2>1. << >> \in Seq(Bit)
    OBVIOUS
  <2> QED BY <1>5, <1>8, <2>1, Zenon
<1>14. CASE n + 1 = NumBits
  <2>1. byte = tx_fifo[1]
    BY <1>1, <1>8, <1>14, SameBits, Zenon
  <2>2. Leaving = 0 /\ Leaving' = 1
    BY <1>2, <1>3, <1>4, <1>14 DEF Leaving
  <2>3. taken' = Append(taken, [byte |-> byte, pins |-> pins])
    BY <1>5, <1>8, <1>14, Zenon
  <2>4. [byte |-> byte, pins |-> pins] = sent[Len(taken) + 1]
    <3> DEFINE w == Len(sent)
               e == Len(taken)
               f == Len(tx_fifo)
    <3>1. w \in Nat /\ e \in Nat /\ f \in Nat
      BY <1>1, LenProperties, Zenon DEF Types
    <3>2. f # 0
      BY <1>1 DEF Types
    <3>3. w + 0 = e + f
      BY <2>2, Zenon DEF Edges, Line, OrderInv
    <3>4. tx_fifo[1] = sent[e - 0 + 1].byte
      <4>1. 1 \in 1 .. f
        <5> HIDE DEF f
        <5> QED BY <3>1, <3>2
      <4> QED BY <2>2, <4>1, Zenon DEF Edges, Line, OrderInv
    <3>5. e + 1 \in 1 .. w /\ e + 1 \in e + 1 .. w /\ e - 0 + 1 = e + 1
      <4> HIDE DEF w, e, f
      <4> QED BY <3>1, <3>2, <3>3
    <3>6. sent[e + 1].byte = byte /\ sent[e + 1].pins = pins
      BY <2>1, <3>4, <3>5, Zenon DEF Edges, Line, PinsInv
    <3>7. sent[e + 1] \in Sent
      BY <1>1, <3>5, ElementOfSeq, Zenon DEF Types
    <3> DEFINE s == sent[e + 1]
    <3> HIDE DEF s
    <3>8. s \in Sent /\ s.byte = byte /\ s.pins = pins
      BY <3>6, <3>7, Zenon DEF s
    <3>9. s = [byte |-> byte, pins |-> pins]
      BY <3>8 DEF Sent
    <3> QED BY <3>9, Zenon DEF s, e
  <2>5. OrderInv' /\ PinsInv' /\ taken' \in Seq(Sent)
    BY <1>1, <2>2, <2>3, <2>4, Taken, Zenon
  <2> QED BY <1>11, <1>12, <1>13, <2>5, Zenon
<1>15. CASE n + 1 # NumBits
  <2>1. taken' = taken
    BY <1>5, <1>8, <1>15, Zenon
  <2>2. popped <= Leaving /\ Leaving' = Leaving - popped
    BY <1>1, <1>2, <1>3, <1>4, <1>15 DEF Leaving
  <2>3. OrderInv' /\ PinsInv'
    BY <2>1, <2>2, NotTaken, Zenon
  <2> QED BY <1>1, <1>11, <1>12, <1>13, <2>1, <2>3, Zenon DEF Types
<1> QED BY <1>14, <1>15

\* Every clock edge keeps the three ends in step, and the FIFO grows only by what is offered.
LEMMA EdgeStep ==
  ASSUME NEW offer \in Offers, NEW rx \in Bit, Edges(offer, rx)
  PROVE  Line' /\ Len(tx_fifo') \in Nat /\ Len(tx_fifo') <= Len(tx_fifo) + Len(offer)
<1>1. Types(offer) /\ Moves(offer, rx) /\ popped \in {0, 1}
  BY EdgeTypes, EdgeMoves, Zenon
<1>2. ASSUME state_q = "SEND" PROVE Line'
  <2>1. /\ FrameInv' /\ OrderInv' /\ PinsInv'
        /\ taken' \in Seq(Sent) /\ partial' \in Seq(Bit) /\ fed' \in Seq(Bit)
    <3>1. CASE Rise
      BY <1>1, <1>2, <3>1, SendRise, Zenon DEF Types
    <3>2. CASE Fall
      BY <1>2, <3>2, SendFall, Zenon
    <3>3. CASE ~Rise /\ ~Fall
      BY <1>1, <1>2, <3>3, SendHold, Zenon DEF Types
    <3> QED BY <3>1, <3>2, <3>3, Zenon
  <2>2. SpiTypeOK'
    BY MovesType, Zenon
  <2>3. sent' \in Seq(Sent)
    BY Zenon DEF Edges, Pushed
  <2> QED BY <2>1, <2>2, <2>3, Zenon DEF Line, LineType
<1>3. ASSUME state_q # "SEND" PROVE Line'
  BY <1>3, BetweenEdge, Zenon
<1>4. Len(tx_fifo') \in Nat /\ Len(tx_fifo') <= Len(tx_fifo) + Len(offer)
  <2>1. Len(tx_fifo') = Len(tx_fifo) - popped + Len(offer) /\ Len(tx_fifo) \in Nat /\ Len(offer) \in {0, 1}
    BY <1>1, Zenon DEF Moves, Passed, Types
  <2>2. Len(tx_fifo') \in Nat
    BY <1>1, LenProperties, Zenon DEF Moves
  <2> QED BY <1>1, <2>1, <2>2
<1> QED BY <1>2, <1>3, <1>4, Zenon

\* An edge in which the driver writes nothing.
LEMMA QuietEdge ==
  ASSUME LcdInv, Edge(<< >>), sent' = sent, pins' = pins \/ tx_fifo = << >>
  PROVE  /\ Line' /\ Len(tx_fifo) \in Nat /\ Len(tx_fifo') \in Nat /\ Len(tx_fifo') <= Len(tx_fifo)
         /\ tx_fifo = << >> => tx_fifo' = << >>
<1>1. PICK rx \in Bit : ClockEdge(<< >>, rx) /\ Display(rx)
  BY Zenon DEF Edge
<1>2. << >> \in Offers
  BY DEF Offers
<1>3. sent \in Seq(Sent) /\ tx_fifo \in Seq(Byte)
  BY DEF LcdInv, TypeOK, SpiTypeOK, Sent
<1>4. Pushed(<< >>) /\ Len(<< >>) = 0 /\ Len(tx_fifo) \in Nat
  BY <1>3 DEF Pushed
<1>5. LineType
  BY Zenon DEF LcdInv, TypeOK, LineType, Sent
<1>6. Edges(<< >>, rx)
  BY <1>1, <1>4, <1>5, Zenon DEF Edges, PinsHold, Line, LcdInv
<1>7. Line' /\ Len(tx_fifo') \in Nat /\ Len(tx_fifo') <= Len(tx_fifo) + Len(<< >>)
  BY <1>1, <1>2, <1>6, EdgeStep, Zenon
<1>8. Len(tx_fifo') <= Len(tx_fifo)
  BY <1>4, <1>7
<1>9. tx_fifo = << >> => tx_fifo' = << >>
  <2>1. tx_fifo' \in Seq(Byte)
    BY <1>7, Zenon DEF Line, LineType, SpiTypeOK
  <2> QED BY <1>4, <1>7, <1>8, <2>1
<1> QED BY <1>4, <1>7, <1>8, <1>9, Zenon

LEMMA LcdInit == Init => LcdInv
<1> SUFFICES ASSUME Init PROVE LcdInv
  OBVIOUS
<1> USE DEF Init, SpiInit
<1>1. TypeOK
  <2>1. Zeros \in Byte
    BY DEF Zeros, Byte, Bit
  <2>2. SpiTypeOK
    <3>1. count \in 0 .. ToggleCount - 1 /\ bit_counter_q \in 0 .. NumBits - 1
      BY Constants
    <3>2. sck \in Bit /\ state_q \in States /\ next_tx_byte_q \in BOOLEAN
      BY DEF CPOL, Bit, States
    <3>3. {current_byte_q, recieved_byte_q, recieved_byte_d} \subseteq Byte
      BY <2>1
    <3>4. tx_fifo \in Seq(Byte) /\ Len(tx_fifo) <= Depth
      BY Constants
    <3> QED BY <3>1, <3>2, <3>3, <3>4, Zenon DEF SpiTypeOK
  <2>3. pins \in Pins /\ left \in Seq(Byte) /\ calls \in 0 .. MaxCalls
    BY Constants DEF Pins
  <2>4. pc \in {"main", "set_cs", "poll_full", "see_full", "push", "poll_empty", "see_empty"}
    BY Zenon
  <2>5. /\ sent \in Seq([byte : Byte, pins : Pins]) /\ taken \in Seq([byte : Byte, pins : Pins])
        /\ partial \in Seq(Bit) /\ fed \in Seq(Bit)
    OBVIOUS
  <2> QED BY <2>2, <2>3, <2>4, <2>5, Zenon DEF TypeOK
<1>2. Leaving = 0
  BY DEF Leaving
<1>3. OrderInv
  BY <1>2 DEF OrderInv
<1>4. PinsInv
  BY DEF PinsInv
<1>5. FrameInv
  BY DEF FrameInv
<1>6. DriverInv
  BY Zenon DEF DriverInv
<1> QED BY <1>1, <1>3, <1>4, <1>5, <1>6, Zenon DEF LcdInv

LEMMA LcdStep == LcdInv /\ [Next]_vars => LcdInv'
<1> SUFFICES ASSUME LcdInv, [Next]_vars PROVE LcdInv'
  OBVIOUS
<1> DEFINE Places == {"main", "set_cs", "poll_full", "see_full", "push", "poll_empty", "see_empty"}
           Driven == pc \in Places /\ pins \in Pins /\ left \in Seq(Byte) /\ calls \in 0 .. MaxCalls
<1>0. Driven
  BY Zenon DEF LcdInv, TypeOK
<1>1. ASSUME Line', Driven', DriverInv' PROVE LcdInv'
  BY <1>1, Zenon DEF LcdInv, TypeOK, Line, LineType, Sent
<1> HIDE DEF Driven
<1>2. CASE Compute
  <2>1. UNCHANGED <<pc, pins, left, calls, sent>> /\ Edge(<< >>)
    BY <1>2, Zenon DEF Compute, swVars
  <2>2. /\ Line' /\ Len(tx_fifo) \in Nat /\ Len(tx_fifo') \in Nat /\ Len(tx_fifo') <= Len(tx_fifo)
        /\ tx_fifo = << >> => tx_fifo' = << >>
    BY <2>1, QuietEdge, Zenon
  <2>3. DriverInv'
    BY <2>1, <2>2, Constants DEF LcdInv, DriverInv
  <2>4. Driven'
    BY <1>0, <2>1, Zenon DEF Driven
  <2> QED BY <1>1, <2>2, <2>3, <2>4
<1>3. ASSUME NEW b \in BOOLEAN, SetDc(b) PROVE LcdInv'
  <2>1. /\ pc = "main" /\ pc' = "set_cs" /\ calls < MaxCalls /\ pins' = [pins EXCEPT !.dc = b]
        /\ Edge(<< >>) /\ left' = left /\ calls' = calls /\ sent' = sent
    BY <1>3, Zenon DEF SetDc, Goto
  <2>2. tx_fifo = << >>
    BY <2>1, Zenon DEF LcdInv, DriverInv
  <2>3. Line' /\ tx_fifo' = << >>
    BY <2>1, <2>2, QuietEdge, Zenon
  <2>4. DriverInv'
    BY <2>1, <2>3 DEF DriverInv
  <2>5. pins' \in Pins
    BY <1>0, <2>1 DEF Driven, Pins
  <2>6. Driven'
    BY <1>0, <2>1, <2>5, Zenon DEF Driven
  <2> QED BY <1>1, <2>3, <2>4, <2>6
<1>4. ASSUME NEW b \in BOOLEAN, SetCs(b) PROVE LcdInv'
  <2>1. pc = "set_cs" /\ pins' = [pins EXCEPT !.cs = b] /\ Edge(<< >>) /\ sent' = sent
    BY <1>4, Zenon DEF SetCs
  <2>2. tx_fifo = << >> /\ calls < MaxCalls
    BY <2>1, Zenon DEF LcdInv, DriverInv
  <2>3. Line' /\ tx_fifo' = << >>
    BY <2>1, <2>2, QuietEdge, Zenon
  <2>4. pins' \in Pins
    BY <1>0, <2>1 DEF Driven, Pins
  <2>5. CASE pc' = "main" /\ UNCHANGED <<left, calls>>
    <3>1. DriverInv'
      BY <2>3, <2>5 DEF DriverInv
    <3>2. Driven'
      BY <1>0, <2>4, <2>5, Zenon DEF Driven
    <3> QED BY <1>1, <2>3, <3>1, <3>2
  <2>6. CASE left' \in Payloads /\ calls' = calls + 1 /\ pc' = IF left' = << >> THEN "poll_empty" ELSE "poll_full"
    <3>1. DriverInv'
      BY <2>6 DEF DriverInv
    <3>2. left' \in Seq(Byte) /\ calls' \in 0 .. MaxCalls /\ pc' \in Places
      BY <1>0, <2>2, <2>6, LcdSpiAssumption DEF Driven
    <3>3. Driven'
      BY <2>4, <3>2, Zenon DEF Driven
    <3> QED BY <1>1, <2>3, <3>1, <3>3
  <2> QED BY <1>4, <2>5, <2>6, Zenon DEF SetCs
<1>5. CASE PollFull
  <2>1. pc = "poll_full" /\ pc' = "see_full" /\ UNCHANGED <<pins, left, calls, sent>> /\ Edge(<< >>)
    BY <1>5, Zenon DEF PollFull, Goto
  <2>2. Line'
    BY <2>1, QuietEdge, Zenon
  <2>3. DriverInv'
    BY <2>1 DEF LcdInv, DriverInv
  <2>4. Driven'
    BY <1>0, <2>1, Zenon DEF Driven
  <2> QED BY <1>1, <2>2, <2>3, <2>4
<1>6. CASE SeeFull
  <2>1. /\ pc = "see_full" /\ pc' = (IF Status.full THEN "poll_full" ELSE "push")
        /\ UNCHANGED <<pins, left, calls, sent>> /\ Edge(<< >>)
    BY <1>6, Zenon DEF SeeFull, Goto
  <2>2. Line' /\ Len(tx_fifo) \in Nat /\ Len(tx_fifo') \in Nat /\ Len(tx_fifo') <= Len(tx_fifo)
    BY <2>1, QuietEdge, Zenon
  <2>3. Len(tx_fifo) <= Depth
    BY DEF LcdInv, TypeOK, SpiTypeOK
  <2>4. Status.full <=> Len(tx_fifo) = Depth
    BY DEF Status
  <2>5. pc' = "push" => Len(tx_fifo') < Depth
    BY <2>1, <2>2, <2>3, <2>4, Constants
  <2>6. DriverInv'
    BY <2>1, <2>5 DEF LcdInv, DriverInv
  <2>7. Driven'
    BY <1>0, <2>1, Zenon DEF Driven
  <2> QED BY <1>1, <2>2, <2>6, <2>7
<1>7. CASE Push
  <2> DEFINE byte == Head(left)
  <2>1. /\ pc = "push" /\ pc' = (IF Len(left) > 1 THEN "poll_full" ELSE "poll_empty")
        /\ left' = Tail(left) /\ sent' = Append(sent, [byte |-> byte, pins |-> pins])
        /\ Edge(<<byte>>) /\ pins' = pins /\ calls' = calls
    BY <1>7, Zenon DEF Push, Goto
  <2>2. left # << >> /\ Len(tx_fifo) < Depth
    BY <2>1, Zenon DEF LcdInv, DriverInv
  <2>3. left \in Seq(Byte) /\ pins \in Pins
    BY <1>0, Zenon DEF Driven
  <2>4. byte \in Byte /\ Tail(left) \in Seq(Byte) /\ (Len(left) > 1 => Tail(left) # << >>)
    BY <2>2, <2>3
  <2>5. PICK rx \in Bit : ClockEdge(<<byte>>, rx) /\ Display(rx)
    BY <2>1, Zenon DEF Edge
  <2>6. Pushed(<<byte>>)
    <3> DEFINE item == [byte |-> byte, pins |-> pins]
               new == Append(sent, item)
    <3> HIDE DEF byte
    <3>1. item \in Sent
      BY <2>3, <2>4 DEF Sent
    <3>2. sent \in Seq(Sent)
      BY DEF LcdInv, TypeOK, Sent
    <3> HIDE DEF item
    <3>3. /\ new \in Seq(Sent) /\ Len(new) = Len(sent) + 1 /\ new[Len(sent) + 1] = item
          /\ \A i \in 1 .. Len(sent) : new[i] = sent[i]
      BY <3>1, <3>2, AppendProperties
    <3> HIDE DEF new
    <3>4. sent' = new
      BY <2>1, Zenon DEF new, item
    <3>5. Len(<<byte>>) = 1 /\ \A i \in 1 .. 1 : i = 1 /\ <<byte>>[i] = byte
      OBVIOUS
    <3>6. \A i \in 1 .. Len(<<byte>>) : sent'[Len(sent) + i] = [byte |-> <<byte>>[i], pins |-> pins]
      <4> SUFFICES ASSUME NEW i \in 1 .. 1
                   PROVE  sent'[Len(sent) + i] = [byte |-> <<byte>>[i], pins |-> pins]
        BY <3>5, Zenon
      <4>1. i = 1 /\ <<byte>>[i] = byte
        BY <3>5, Zenon
      <4> QED BY <3>3, <3>4, <4>1, Zenon DEF item
    <3>7. Len(sent') = Len(sent) + Len(<<byte>>)
      BY <3>3, <3>4, <3>5, Zenon
    <3> QED BY <3>3, <3>4, <3>6, <3>7, Zenon DEF Pushed
  <2>7. <<byte>> \in Offers
    BY <2>4, Zenon DEF Offers
  <2>8. LineType
    BY Zenon DEF LcdInv, TypeOK, LineType, Sent
  <2>9. Edges(<<byte>>, rx)
    BY <2>1, <2>2, <2>5, <2>6, <2>8, Zenon DEF Edges, PinsHold, Line, LcdInv
  <2>10. Line'
    BY <2>5, <2>7, <2>9, EdgeStep, Zenon
  <2>11. DriverInv'
    BY <2>1, <2>4 DEF DriverInv
  <2>12. pc' \in Places
    BY <2>1
  <2>13. Driven'
    BY <1>0, <2>1, <2>4, <2>12, Zenon DEF Driven
  <2> QED BY <1>1, <2>10, <2>11, <2>13
<1>8. CASE PollEmpty
  <2>1. pc = "poll_empty" /\ pc' = "see_empty" /\ UNCHANGED <<pins, left, calls, sent>> /\ Edge(<< >>)
    BY <1>8, Zenon DEF PollEmpty, Goto
  <2>2. Line'
    BY <2>1, QuietEdge, Zenon
  <2>3. DriverInv'
    BY <2>1 DEF DriverInv
  <2>4. Driven'
    BY <1>0, <2>1, Zenon DEF Driven
  <2> QED BY <1>1, <2>2, <2>3, <2>4
<1>9. CASE SeeEmpty
  <2>1. /\ pc = "see_empty" /\ pc' = (IF Status.empty THEN "main" ELSE "poll_empty")
        /\ UNCHANGED <<pins, left, calls, sent>> /\ Edge(<< >>)
    BY <1>9, Zenon DEF SeeEmpty, Goto
  <2>2. Line' /\ (tx_fifo = << >> => tx_fifo' = << >>)
    BY <2>1, QuietEdge, Zenon
  <2>3. Status.empty <=> tx_fifo = << >>
    BY DEF Status
  <2>4. DriverInv'
    BY <2>1, <2>2, <2>3 DEF DriverInv
  <2>5. Driven'
    BY <1>0, <2>1, Zenon DEF Driven
  <2> QED BY <1>1, <2>2, <2>4, <2>5
<1>10. CASE UNCHANGED vars
  BY <1>10, Zenon DEF LcdInv, TypeOK, SpiTypeOK, OrderInv, PinsInv, FrameInv, DriverInv, OutInv, InInv,
       Leaving, Shifts, Latched, vars, spiVars, swVars, peerVars
<1> QED BY <1>2, <1>3, <1>4, <1>5, <1>6, <1>7, <1>8, <1>9, <1>10, Zenon DEF Next, Driver

LEMMA LcdAlways == Spec => []LcdInv
<1> QED BY LcdInit, LcdStep, PTL DEF Spec

-----------------------------------------------------------------------------
(* Theorems.                                                               *)

(* The registers of the peripheral, the driver's variables and the         *)
(* histories stay within their types: the bit counter never goes below     *)
(* zero, the clock counter never passes its limit and the FIFO never holds *)
(* more than its depth.                                                    *)
THEOREM TypeCorrect == Spec => []TypeOK
<1>1. LcdInv => TypeOK
  BY DEF LcdInv
<1> QED BY <1>1, LcdAlways, PTL

(* The display takes the bytes spi_write was given, in order, each under   *)
(* the DC and CS levels it was sent with, whatever the strings, the depth  *)
(* of the FIFO and the rate of the serial clock.                           *)
THEOREM TakenCorrect == Spec => []TakenAsSent
<1>1. LcdInv => TakenAsSent
  <2> SUFFICES ASSUME LcdInv PROVE IsPrefix(taken, sent)
    BY DEF TakenAsSent
  <2>1. taken \in Seq(Sent) /\ sent \in Seq(Sent) /\ tx_fifo \in Seq(Byte)
    BY DEF LcdInv, TypeOK, SpiTypeOK, Sent
  <2>2. Leaving = 0 \/ (Leaving = 1 /\ tx_fifo # << >>)
    BY DEF LcdInv, FrameInv, Leaving
  <2>3. Len(sent) + Leaving = Len(taken) + Len(tx_fifo)
    BY Zenon DEF LcdInv, OrderInv
  <2>4. Len(taken) <= Len(sent)
    BY <2>1, <2>2, <2>3
  <2>5. \A i \in 1 .. Len(taken) : taken[i] = sent[i]
    BY Zenon DEF LcdInv, OrderInv
  <2>6. SubSeq(sent, 1, Len(taken)) = taken /\ SubSeq(taken, 1, Len(taken)) = taken
    BY <2>1, <2>4, <2>5
  <2> QED BY <2>4, <2>6, Zenon DEF IsPrefix
<1> QED BY <1>1, LcdAlways, PTL

(* The byte spi_host presents at STOP is the one the display drove while   *)
(* its own was shifted out, although the latch it goes through has no      *)
(* reset and holds what was left of the byte before.                       *)
THEOREM ReceivedCorrect == Spec => []ReceivedAsDriven
<1>1. LcdInv => ReceivedAsDriven
  BY Zenon DEF LcdInv, FrameInv, ReceivedAsDriven, byte_data_o
<1> QED BY <1>1, LcdAlways, PTL

(* DC and CS move only when the display has taken every byte sent and the  *)
(* serial clock is at rest, although spi_write waits for the FIFO alone.   *)
THEOREM PinsCorrect == Spec => PinsMoveWhenQuiet
<1>1. LcdInv /\ [Next]_vars =>
        [pins' # pins => Len(taken) = Len(sent) /\ partial = << >> /\ sck_o = CPOL]_vars
  <2> SUFFICES ASSUME LcdInv, [Next]_vars, pins' # pins
               PROVE  Len(taken) = Len(sent) /\ partial = << >> /\ sck_o = CPOL
    OBVIOUS
  <2>1. pc \in {"main", "set_cs"}
    BY Zenon DEF Next, Compute, Driver, SetDc, SetCs, PollFull, SeeFull, Push, PollEmpty, SeeEmpty,
         Goto, vars, swVars
  <2>2. tx_fifo = << >>
    BY <2>1, Zenon DEF LcdInv, DriverInv
  <2>3. state_q # "SEND" /\ Leaving = 0
    BY <2>2 DEF LcdInv, FrameInv, Leaving
  <2>4. partial = << >> /\ sck_o = CPOL
    BY <2>3, Zenon DEF LcdInv, FrameInv, sck_o, sck_en
  <2>5. Len(taken) = Len(sent)
    <3>1. taken \in Seq(Sent) /\ sent \in Seq(Sent)
      BY DEF LcdInv, TypeOK, Sent
    <3> QED BY <2>2, <2>3, <3>1 DEF LcdInv, OrderInv
  <2> QED BY <2>4, <2>5
<1> QED BY <1>1, LcdAlways, PTL DEF Spec, PinsMoveWhenQuiet

=============================================================================
