------------------------- MODULE UartTransmit_proofs -------------------------
(***************************************************************************)
(* Theorems about uart_out and the transmitter, for any frame, baud rate   *)
(* and FIFO, however long the program takes between its accesses.          *)
(***************************************************************************)
EXTENDS UartTransmit, SequenceTheorems, TLAPS

-----------------------------------------------------------------------------
(* The baud counter and the listener.                                      *)

C == ClocksPerBaud
Mid == C \div 2

\* Cycles since the start of a frame, in cycle b of its kth bit.
At(k, b) == k * C + b

\* The middle of a bit is a cycle of it, and not the first.
LEMMA Clocks ==
  /\ C \in Nat /\ C >= 2 /\ Mid \in Nat /\ 1 <= Mid /\ Mid < C
  /\ NumBits \in Nat /\ NumBits >= 1 /\ TxFifoDepth \in Nat /\ TxFifoDepth >= 1
BY UartTxAssumption, Z3 DEF C, Mid

\* Cycles count through a bit and on to the next one.
LEMMA Phase ==
  ASSUME NEW k \in Nat, NEW b \in 0 .. C - 1
  PROVE  /\ At(k, b) \in Nat /\ At(k, b) % C = b /\ At(0, b) = b
         /\ At(k, b + 1) = At(k, b) + 1
         /\ At(k, b) + 1 = (IF b = C - 1 THEN At(k + 1, 0) ELSE At(k, b + 1))
         /\ k > 0 => At(k, b) > 0
         /\ k <= NumBits + 1 => At(k, b) < (NumBits + 2) * C
<1>1. C \in Nat /\ C >= 2 /\ NumBits \in Nat
  BY Clocks
<1>2. (k * C + b) % C = b
  BY <1>1, Z3
<1>3. k * C \in Nat /\ 0 * C = 0 /\ (k + 1) * C = k * C + C
  BY <1>1, Z3
<1>4. k > 0 => k * C > 0
  BY <1>1, Z3
<1>5. k <= NumBits + 1 => k * C + C <= (NumBits + 2) * C
  BY <1>1, Z3
<1>6. (NumBits + 2) * C \in Nat
  BY <1>1, Z3
<1> QED BY <1>1, <1>2, <1>3, <1>4, <1>5, <1>6 DEF At

\* The listener in a frame samples the middle of each bit, and counts.
LEMMA ListenFrame ==
  ASSUME Listen, NEW k \in Nat, NEW b \in 0 .. C - 1, tick = At(k, b),
         k > 0 \/ uart_tx_o = 0, bits \in Seq(Bit), uart_tx_o \in Bit
  PROVE  /\ b # Mid => tick' = tick + 1 /\ UNCHANGED <<bits, heard>>
         /\ b = Mid /\ Len(bits) < NumBits + 1 =>
              tick' = tick + 1 /\ bits' = Append(bits, uart_tx_o) /\ UNCHANGED heard
         /\ b = Mid /\ Len(bits) = NumBits + 1 =>
              /\ tick' = 0 /\ bits' = << >>
              /\ heard' = IF bits[1] = 0 /\ uart_tx_o = 1 THEN Append(heard, Tail(bits)) ELSE heard
<1>1. tick \in Nat /\ tick % C = b /\ (tick = 0 => uart_tx_o = 0 /\ b = 0)
  <2>1. At(k, b) \in Nat /\ At(k, b) % C = b /\ At(0, b) = b /\ (k > 0 => At(k, b) > 0)
    BY Phase, Zenon
  <2>2. CASE k = 0
    BY <2>1, <2>2
  <2>3. CASE k > 0
    BY <2>1, <2>3
  <2> QED BY <2>2, <2>3
<1>2. Middle <=> b = Mid
  BY <1>1, Zenon DEF Middle, C, Mid
<1>3. tick = 0 \/ tick > 0
  BY <1>1
<1>4. ~(tick = 0 /\ tick > 0) /\ ~(uart_tx_o = 0 /\ uart_tx_o = 1)
  BY <1>1
<1>5. CASE b # Mid
  <2>1. (tick = 0 /\ uart_tx_o = 0) \/ (tick > 0 /\ ~Middle)
    BY <1>1, <1>2, <1>3, <1>5
  <2>2. tick' = tick + 1 /\ UNCHANGED <<bits, heard>>
    BY <2>1, <1>2, <1>4, <1>5, Zenon DEF Listen
  <2> QED BY <2>2, <1>5, Zenon
<1>6. CASE b = Mid
  <2>1. tick > 0 /\ tick # 0 /\ Middle
    BY <1>1, <1>2, <1>3, <1>6, Clocks
  <2>2. ~(Len(bits) < NumBits + 1 /\ Len(bits) = NumBits + 1)
    BY Clocks
  <2>3. Len(bits) < NumBits + 1 => tick' = tick + 1 /\ bits' = Append(bits, uart_tx_o) /\ UNCHANGED heard
    BY <2>1, <2>2, Zenon DEF Listen, Sampled
  <2>4. Len(bits) = NumBits + 1 =>
              /\ tick' = 0 /\ bits' = << >>
              /\ heard' = IF bits[1] = 0 /\ uart_tx_o = 1 THEN Append(heard, Tail(bits)) ELSE heard
    BY <2>1, <2>2, Zenon DEF Listen
  <2> QED BY <2>3, <2>4, <1>6, Zenon
<1> QED BY <1>5, <1>6

\* The listener out of a frame waits for the start bit.
LEMMA ListenIdle ==
  ASSUME Listen, tick = 0, uart_tx_o = 1
  PROVE  UNCHANGED <<tick, bits, heard>>
<1>1. ~(tick > 0) /\ ~(uart_tx_o = 0)
  OBVIOUS
<1> QED BY <1>1, Zenon DEF Listen

-----------------------------------------------------------------------------
(* The inductive invariant.                                                *)

\* One byte is on the line, neither in the FIFO nor heard yet.
InFlight ==
  IF tx_state_q = "PROC" \/ (tx_state_q = "STOP" /\ tx_baud_counter_q <= Mid) THEN 1 ELSE 0
Sending == written[Len(heard) + 1]

LineType ==
  /\ TxTypeOK
  /\ {written, heard} \subseteq Seq(Byte)
  /\ tick \in 0 .. (NumBits + 2) * ClocksPerBaud
  /\ bits \in Seq(Bit)

\* What was written is what was heard, then what is on the line, then the FIFO.
OrderInv ==
  /\ Len(written) = Len(heard) + InFlight + Len(tx_fifo)
  /\ \A i \in 1 .. Len(heard) : heard[i] = written[i]
  /\ \A i \in 1 .. Len(tx_fifo) : tx_fifo[i] = written[Len(heard) + InFlight + i]

\* A status that was not full stays true until the write, since only uart_out fills the FIFO.
RoomInv == pc = "write" \/ (pc = "see" /\ ~full) => Len(tx_fifo) < TxFifoDepth

\* The listener is in step with the transmitter, and the bits of the byte are sampled or to come.
ProcInv ==
  /\ tick = At(tx_bit_counter_q + 1, tx_baud_counter_q)
  /\ Len(bits) = tx_bit_counter_q + (IF tx_baud_counter_q <= Mid THEN 1 ELSE 2)
  /\ bits[1] = 0 /\ \A j \in 2 .. Len(bits) : bits[j] = Sending[j - 1]
  /\ \A i \in 1 .. NumBits - tx_bit_counter_q : tx_current_byte_q[i] = Sending[tx_bit_counter_q + i]
StopInv ==
  IF tx_baud_counter_q <= Mid
  THEN /\ tick = At(NumBits + 1, tx_baud_counter_q) /\ Len(bits) = NumBits + 1
       /\ bits[1] = 0 /\ \A j \in 2 .. NumBits + 1 : bits[j] = Sending[j - 1]
  ELSE tick = 0 /\ bits = << >>
FrameInv ==
  /\ tx_state_q = "IDLE" => tick = 0 /\ bits = << >>
  /\ tx_state_q = "START" =>
       /\ tx_fifo # << >> /\ tick = tx_baud_counter_q
       /\ bits = IF tx_baud_counter_q <= Mid THEN << >> ELSE << 0 >>
  /\ tx_state_q = "PROC" => ProcInv
  /\ tx_state_q = "STOP" => StopInv

LineInv == TypeOK /\ OrderInv /\ RoomInv /\ FrameInv

-----------------------------------------------------------------------------
(* Queues.                                                                 *)

\* A sequence loses d items at its head, and the offer is added at its end.
Passed(new, old, d, offer) ==
  /\ Len(new) = Len(old) - d + Len(offer)
  /\ \A i \in 1 .. Len(old) - d : new[i] = old[i + d]
  /\ \A i \in 1 .. Len(offer) : new[Len(old) - d + i] = offer[i]

Offers == {<< >>} \cup {<<byte>> : byte \in Byte}

LEMMA OfferType ==
  ASSUME NEW offer \in Offers
  PROVE  offer \in Seq(Byte) /\ Len(offer) \in {0, 1} /\ (offer = << >> <=> Len(offer) = 0)
<1>1. CASE offer = << >>
  BY <1>1
<1>2. CASE \E byte \in Byte : offer = <<byte>>
  <2>1. PICK byte \in Byte : offer = <<byte>>
    BY <1>2
  <2> QED BY <2>1
<1> QED BY <1>1, <1>2 DEF Offers

LEMMA Concatenated ==
  ASSUME NEW T, NEW s \in Seq(T), NEW offer \in Seq(T)
  PROVE  s \o offer \in Seq(T) /\ Passed(s \o offer, s, 0, offer)
<1>1. Len(s) \in Nat /\ Len(offer) \in Nat
  OBVIOUS
<1>2. s \o offer \in Seq(T) /\ Len(s \o offer) = Len(s) + Len(offer)
  BY ConcatProperties, Zenon
<1>3. \A i \in 1 .. Len(s) + Len(offer) : (s \o offer)[i] = IF i <= Len(s) THEN s[i] ELSE offer[i - Len(s)]
  BY ConcatProperties, Zenon
<1> DEFINE new == s \o offer
<1> HIDE DEF new
<1>4. Len(new) = Len(s) + Len(offer)
      /\ \A i \in 1 .. Len(s) + Len(offer) : new[i] = IF i <= Len(s) THEN s[i] ELSE offer[i - Len(s)]
  BY <1>2, <1>3 DEF new
<1>5. Passed(new, s, 0, offer)
  BY <1>1, <1>4 DEF Passed
<1> QED BY <1>2, <1>5 DEF new

\* With room for the offer, a clock edge pops and takes it.
LEMMA FifoEdge ==
  ASSUME NEW q \in Seq(Byte), NEW offer \in Offers, NEW pop \in BOOLEAN,
         Len(q) <= TxFifoDepth, offer # << >> => Len(q) < TxFifoDepth
  PROVE  LET new == AfterEdge(q, TxFifoDepth, offer, pop)
         IN  /\ new \in Seq(Byte) /\ Len(new) <= TxFifoDepth
             /\ Passed(new, q, IF pop /\ q # << >> THEN 1 ELSE 0, offer)
<1>1. offer \in Seq(Byte) /\ Len(offer) \in {0, 1} /\ (offer = << >> <=> Len(offer) = 0)
  BY OfferType
<1>2. Accepted(q, TxFifoDepth, offer) = offer
  BY Zenon DEF Accepted
<1> DEFINE rest == Remaining(q, pop)
           d == IF pop /\ q # << >> THEN 1 ELSE 0
           new == rest \o offer
<1>3. rest \in Seq(Byte) /\ Len(rest) = Len(q) - d /\ \A i \in 1 .. Len(q) - d : rest[i] = q[i + d]
  <2>1. CASE pop /\ q # << >>
    <3>1. rest = Tail(q) /\ d = 1
      BY <2>1, Zenon DEF Remaining
    <3> HIDE DEF rest, d
    <3>2. Tail(q) \in Seq(Byte) /\ Len(Tail(q)) = Len(q) - 1 /\ \A i \in 1 .. Len(Tail(q)) : Tail(q)[i] = q[i + 1]
      BY <2>1, HeadTailProperties, Zenon
    <3> QED BY <3>1, <3>2
  <2>2. CASE ~(pop /\ q # << >>)
    <3>1. rest = q /\ d = 0
      BY <2>2, Zenon DEF Remaining
    <3> HIDE DEF rest, d
    <3> QED BY <3>1
  <2> QED BY <2>1, <2>2
<1>4. d \in {0, 1}
  OBVIOUS
<1> HIDE DEF rest, d
<1>5. new \in Seq(Byte) /\ Passed(new, rest, 0, offer)
  BY <1>1, <1>3, Concatenated
<1> HIDE DEF new
<1>6. Passed(new, q, d, offer)
  BY <1>1, <1>3, <1>4, <1>5 DEF Passed
<1>7. Len(new) <= TxFifoDepth
  BY <1>1, <1>4, <1>6, Clocks DEF Passed
<1> QED BY <1>2, <1>5, <1>6, <1>7, Zenon DEF AfterEdge, new, rest, d

\* The order holds when the oldest byte of the FIFO goes on the line or the one on the line is heard.
LEMMA OrderStep ==
  ASSUME LineType, OrderInv, NEW offer \in Offers, NEW d \in {0, 1}, NEW h \in {0, 1},
         heard' \in Seq(Byte), written' \in Seq(Byte), tx_fifo' \in Seq(Byte),
         d <= Len(tx_fifo), h <= InFlight, InFlight' = InFlight + d - h,
         Passed(tx_fifo', tx_fifo, d, offer), Passed(written', written, 0, offer),
         h = 0 => heard' = heard, h = 1 => heard' = Append(heard, Sending)
  PROVE  /\ OrderInv'
         /\ InFlight = 1 /\ h = 0 => Sending' = Sending
         /\ d = 1 /\ InFlight = h => Sending' = tx_fifo[1]
<1>1. /\ Len(written) \in Nat /\ Len(heard) \in Nat /\ Len(tx_fifo) \in Nat /\ InFlight \in {0, 1}
      /\ Len(offer) \in {0, 1} /\ Len(heard') \in Nat
  BY OfferType, LenProperties DEF LineType, TxTypeOK, InFlight
<1>2. Len(heard') = Len(heard) + h /\ \A i \in 1 .. Len(heard) + h : heard'[i] = written[i]
  <2>1. CASE h = 0
    BY <1>1, <2>1 DEF OrderInv
  <2>2. CASE h = 1
    <3>1. Len(heard) + 1 \in 1 .. Len(written)
      BY <1>1, <2>2 DEF OrderInv
    <3>2. Sending \in Byte
      BY <3>1, ElementOfSeq DEF LineType, Sending
    <3>3. heard \in Seq(Byte)
      BY DEF LineType
    <3>4. /\ Len(heard') = Len(heard) + 1 /\ heard'[Len(heard) + 1] = Sending
          /\ \A i \in 1 .. Len(heard) : heard'[i] = heard[i]
      BY <2>2, <3>2, <3>3, AppendProperties
    <3> QED BY <1>1, <2>2, <3>4 DEF OrderInv, Sending
  <2> QED BY <2>1, <2>2
<1> DEFINE w == Len(written)
           e == Len(heard)
           f == Len(tx_fifo)
           o == Len(offer)
<1>0. /\ w \in Nat /\ e \in Nat /\ f \in Nat /\ o \in {0, 1} /\ w = e + InFlight + f /\ InFlight \in {0, 1}
      /\ Len(tx_fifo') = f - d + o /\ Len(written') = w + o /\ Len(heard') = e + h
  <2>1. w = e + InFlight + f
    BY Zenon DEF OrderInv
  <2>2. Len(tx_fifo') = f - d + o /\ Len(written') = w - 0 + o
    BY Zenon DEF Passed
  <2>3. Len(heard') = e + h
    BY <1>2, Zenon
  <2>4. w \in Nat /\ e \in Nat /\ f \in Nat /\ o \in {0, 1} /\ InFlight \in {0, 1}
    BY <1>1, Zenon
  <2> HIDE DEF w, e, f, o
  <2> QED BY <2>1, <2>2, <2>3, <2>4
<1>3. Len(written') = Len(heard') + InFlight' + Len(tx_fifo')
  <2> HIDE DEF w, e, f, o
  <2> QED BY <1>0
<1>4. \A i \in 1 .. Len(heard') : heard'[i] = written'[i]
  BY <1>1, <1>2 DEF OrderInv, Passed
<1>5. \A i \in 1 .. Len(tx_fifo') : tx_fifo'[i] = written'[Len(heard') + InFlight' + i]
  <2> SUFFICES ASSUME NEW i \in 1 .. Len(tx_fifo')
               PROVE  tx_fifo'[i] = written'[Len(heard') + InFlight' + i]
    OBVIOUS
  <2>1. Len(heard') + InFlight' + i = Len(heard) + InFlight + (i + d)
    BY <1>0
  <2>2. CASE i <= Len(tx_fifo) - d
    <3>1. tx_fifo'[i] = tx_fifo[i + d] /\ i + d \in 1 .. Len(tx_fifo)
      BY <1>1, <2>2 DEF Passed
    <3>2. tx_fifo[i + d] = written[Len(heard) + InFlight + (i + d)]
      BY <3>1 DEF OrderInv
    <3>3. e + InFlight + (i + d) \in 1 .. w
      <4>1. i + d \in 1 .. f
        BY <3>1, Zenon
      <4> HIDE DEF w, e, f, o
      <4> QED BY <1>0, <4>1
    <3>4. written'[Len(heard) + InFlight + (i + d)] = written[Len(heard) + InFlight + (i + d)]
      BY <1>0, <3>3 DEF Passed
    <3> QED BY <2>1, <3>1, <3>2, <3>4
  <2>3. CASE ~(i <= Len(tx_fifo) - d)
    <3>1. o = 1 /\ i = f - d + 1
      <4>1. ~(i <= f - d) /\ i \in 1 .. Len(tx_fifo')
        BY <2>3, Zenon
      <4> HIDE DEF w, e, f, o
      <4> QED BY <1>0, <4>1
    <3>2. tx_fifo'[i] = offer[1] /\ written'[Len(written) + 1] = offer[1]
      BY <1>1, <3>1 DEF Passed
    <3>3. Len(heard) + InFlight + (i + d) = Len(written) + 1
      BY <1>1, <3>1 DEF OrderInv
    <3> QED BY <2>1, <3>2, <3>3
  <2> QED BY <2>2, <2>3
<1>6. ASSUME InFlight = 1, h = 0 PROVE Sending' = Sending
  <2>1. Len(heard') = Len(heard) /\ Len(heard) + 1 \in 1 .. Len(written)
    BY <1>1, <1>2, <1>6 DEF OrderInv
  <2> QED BY <1>1, <2>1 DEF Sending, Passed
<1>7. ASSUME d = 1, InFlight = h PROVE Sending' = tx_fifo[1]
  <2>1. Len(heard') + 1 = Len(heard) + InFlight + 1 /\ Len(heard') + 1 \in 1 .. Len(written)
    BY <1>1, <1>2, <1>7 DEF OrderInv
  <2>2. written'[Len(heard') + 1] = written[Len(heard) + InFlight + 1]
    BY <1>1, <2>1 DEF Passed
  <2> QED BY <1>1, <1>7, <2>2 DEF Sending, OrderInv
<1> QED BY <1>3, <1>4, <1>5, <1>6, <1>7 DEF OrderInv

-----------------------------------------------------------------------------
(* A clock edge, state by state.                                           *)

Line == LineType /\ OrderInv /\ FrameInv

\* A clock edge in which uart_out writes the offer, or nothing.
Edges(offer) ==
  /\ Line /\ Edge(offer) /\ written' = written \o offer
  /\ offer # << >> => Len(tx_fifo) < TxFifoDepth

last == tx_baud_counter_q = C - 1
popped == IF last /\ tx_state_q = "START" /\ tx_fifo # << >> THEN 1 ELSE 0

Moves(offer) ==
  /\ written' \in Seq(Byte) /\ Passed(written', written, 0, offer)
  /\ tx_fifo' \in Seq(Byte) /\ Len(tx_fifo') <= TxFifoDepth /\ Passed(tx_fifo', tx_fifo, popped, offer)
  /\ tx_baud_counter_q' \in 0 .. C - 1 /\ tx_baud_counter_q' = IF last THEN 0 ELSE tx_baud_counter_q + 1
  /\ last => /\ tx_state_q' = tx_state_d /\ tx_bit_counter_q' = tx_bit_counter_d
             /\ tx_current_byte_q' = tx_current_byte_d
  /\ ~last => UNCHANGED <<tx_state_q, tx_bit_counter_q, tx_current_byte_q>>

LEMMA EdgeMoves ==
  ASSUME NEW offer \in Offers, Edges(offer)
  PROVE  Moves(offer) /\ Listen
<1>1. last <=> tx_baud_tick
  BY Zenon DEF last, tx_baud_tick, C
<1>2. tx_baud_counter_q' = IF last THEN 0 ELSE tx_baud_counter_q + 1
  BY <1>1, Zenon DEF Edges, Edge, TxEdge
<1>3. tx_baud_counter_q' \in 0 .. C - 1
  <2>1. tx_baud_counter_q \in 0 .. C - 1
    BY Zenon DEF Edges, Line, LineType, TxTypeOK, C
  <2> QED BY <1>2, <2>1, Clocks DEF last
<1>4. /\ last => /\ tx_state_q' = tx_state_d /\ tx_bit_counter_q' = tx_bit_counter_d
                 /\ tx_current_byte_q' = tx_current_byte_d
      /\ ~last => UNCHANGED <<tx_state_q, tx_bit_counter_q, tx_current_byte_q>>
  BY <1>1, Zenon DEF Edges, Edge, TxEdge, TransmitStep
<1>5. tx_fifo' = AfterEdge(tx_fifo, TxFifoDepth, offer, tx_fifo_rready)
  BY Zenon DEF Edges, Edge, TxEdge
<1>6. tx_fifo_rready \in BOOLEAN /\ (tx_fifo_rready <=> last /\ tx_state_q = "START")
  BY <1>1, Zenon DEF tx_fifo_rready, tx_next_byte, tx_baud_tick
<1>7. popped = IF tx_fifo_rready /\ tx_fifo # << >> THEN 1 ELSE 0
  BY <1>6, Zenon DEF popped
<1>8. tx_fifo' \in Seq(Byte) /\ Len(tx_fifo') <= TxFifoDepth /\ Passed(tx_fifo', tx_fifo, popped, offer)
  BY <1>5, <1>6, <1>7, FifoEdge, Zenon DEF Edges, Line, LineType, TxTypeOK
<1>9. written' \in Seq(Byte) /\ Passed(written', written, 0, offer)
  BY OfferType, Concatenated, Zenon DEF Edges, Line, LineType
<1> QED BY <1>2, <1>3, <1>4, <1>8, <1>9, Zenon DEF Moves, Edges, Edge

\* The shift register moves its bits down.
LEMMA Shifted ==
  ASSUME NEW byte \in Byte
  PROVE  /\ Head(byte) = byte[1] /\ byte[1] \in Bit
         /\ Append(Tail(byte), 0) \in Byte
         /\ \A i \in 1 .. NumBits - 1 : Append(Tail(byte), 0)[i] = byte[i + 1]
<1>1. byte \in Seq(Bit) /\ Len(byte) = NumBits /\ byte # << >>
  <2>1. byte \in [1 .. NumBits -> Bit] /\ NumBits \in Nat /\ NumBits >= 1
    BY Clocks DEF Byte
  <2>2. byte \in Seq(Bit) /\ Len(byte) = NumBits
    BY <2>1
  <2> QED BY <2>1, <2>2
<1>2. Tail(byte) \in Seq(Bit) /\ Len(Tail(byte)) = NumBits - 1 /\ \A i \in 1 .. NumBits - 1 : Tail(byte)[i] = byte[i + 1]
  BY <1>1, HeadTailProperties
<1> DEFINE t == Tail(byte)
           new == Append(t, 0)
<1>3. 0 \in Bit
  BY DEF Bit
<1> HIDE DEF t
<1>4. t \in Seq(Bit) /\ Len(t) = NumBits - 1 /\ \A i \in 1 .. NumBits - 1 : t[i] = byte[i + 1]
  BY <1>2 DEF t
<1>5. new \in Seq(Bit) /\ Len(new) = Len(t) + 1 /\ \A i \in 1 .. Len(t) : new[i] = t[i]
  BY <1>3, <1>4, AppendProperties, Zenon
<1> HIDE DEF new
<1>6. new \in Seq(Bit) /\ Len(new) = NumBits /\ \A i \in 1 .. NumBits - 1 : new[i] = byte[i + 1]
  BY <1>4, <1>5, Clocks
<1>7. new \in Byte
  BY <1>6, LenProperties DEF Byte
<1>8. Head(byte) = byte[1] /\ byte[1] \in Bit
  BY <1>1, Clocks DEF Byte
<1> QED BY <1>6, <1>7, <1>8 DEF new, t

\* The transmitter's registers keep their types.
LEMMA MovesType ==
  ASSUME NEW offer \in Offers, Edges(offer)
  PROVE  TxTypeOK'
<1> USE DEF Edges, Line, LineType, TxTypeOK
<1>1. Moves(offer)
  BY EdgeMoves, Zenon
<1>2. tx_state_q' \in {"IDLE", "START", "PROC", "STOP"}
  BY <1>1 DEF Moves, tx_state_d
<1>3. tx_bit_counter_q' \in 0 .. NumBits - 1
  BY <1>1, Clocks DEF Moves, tx_bit_counter_d
<1>4. tx_current_byte_q' \in Byte
  <2>1. tx_current_byte_d \in Byte
    <3>1. CASE tx_state_q = "START"
      <4>1. Zeros \in Byte
        BY DEF Zeros, Byte, Bit
      <4>2. tx_fifo_rvalid => Head(tx_fifo) \in Byte
        BY HeadTailProperties DEF tx_fifo_rvalid
      <4> QED BY <3>1, <4>1, <4>2, Zenon DEF tx_current_byte_d
    <3>2. CASE tx_state_q = "PROC"
      BY <3>2, Shifted, Zenon DEF tx_current_byte_d
    <3>3. CASE tx_state_q \notin {"START", "PROC"}
      BY <3>3 DEF tx_current_byte_d
    <3> QED BY <3>1, <3>2, <3>3
  <2> QED BY <1>1, <2>1, Zenon DEF Moves
<1>5. tx_baud_counter_q' \in 0 .. ClocksPerBaud - 1
  BY <1>1, Zenon DEF Moves, C
<1> QED BY <1>1, <1>2, <1>3, <1>4, <1>5, Zenon DEF Moves

\* The facts of a state that the lemmas below need.
LEMMA LineFacts ==
  ASSUME NEW offer \in Offers, Edges(offer)
  PROVE  /\ Moves(offer) /\ Listen /\ TxTypeOK'
         /\ tx_baud_counter_q \in 0 .. C - 1 /\ tx_bit_counter_q \in 0 .. NumBits - 1
         /\ tx_fifo \in Seq(Byte) /\ written \in Seq(Byte) /\ heard \in Seq(Byte) /\ bits \in Seq(Bit)
         /\ Len(tx_fifo) \in Nat /\ Len(offer) \in {0, 1} /\ tx_current_byte_q \in Byte
<1>1. Moves(offer) /\ Listen /\ TxTypeOK'
  BY EdgeMoves, MovesType, Zenon
<1>2. /\ tx_baud_counter_q \in 0 .. C - 1 /\ tx_bit_counter_q \in 0 .. NumBits - 1
      /\ tx_fifo \in Seq(Byte) /\ written \in Seq(Byte) /\ heard \in Seq(Byte) /\ bits \in Seq(Bit)
      /\ tx_current_byte_q \in Byte
  BY Zenon DEF Edges, Line, LineType, TxTypeOK, C
<1> QED BY <1>1, <1>2, LenProperties, OfferType, Zenon

\* OrderStep, for the two kinds of edges: the one in which a byte is heard, and the others.
LEMMA Unheard ==
  ASSUME NEW offer \in Offers, Edges(offer), heard' = heard, InFlight' = InFlight + popped
  PROVE  /\ OrderInv'
         /\ InFlight = 1 => Sending' = Sending
         /\ popped = 1 => Sending' = tx_fifo[1]
<1>1. Moves(offer) /\ heard \in Seq(Byte) /\ tx_fifo \in Seq(Byte) /\ Len(tx_fifo) \in Nat
  BY LineFacts, Zenon
<1>2. popped \in {0, 1} /\ popped <= Len(tx_fifo) /\ (popped = 1 => InFlight = 0)
  BY <1>1 DEF popped, InFlight
<1>3. InFlight \in {0, 1} /\ 0 <= InFlight /\ InFlight' = InFlight + popped - 0
  BY <1>2 DEF InFlight
<1>4. 0 # 1 /\ 0 \in {0, 1}
  OBVIOUS
<1>5. /\ OrderInv'
      /\ InFlight = 1 /\ 0 = 0 => Sending' = Sending
      /\ popped = 1 /\ InFlight = 0 => Sending' = tx_fifo[1]
  BY <1>1, <1>2, <1>3, <1>4, OrderStep, Zenon DEF Edges, Line, Moves
<1> QED BY <1>2, <1>5

LEMMA Heard ==
  ASSUME NEW offer \in Offers, Edges(offer), InFlight = 1, InFlight' = 0, popped = 0,
         heard' = Append(heard, Sending)
  PROVE  OrderInv' /\ heard' \in Seq(Byte)
<1>1. Moves(offer) /\ heard \in Seq(Byte) /\ tx_fifo \in Seq(Byte) /\ written \in Seq(Byte) /\ Len(tx_fifo) \in Nat
  BY LineFacts, Zenon
<1>2. Len(written) \in Nat /\ Len(heard) \in Nat
  BY <1>1, LenProperties
<1>3. Len(heard) + 1 \in 1 .. Len(written)
  BY <1>1, <1>2 DEF Edges, Line, OrderInv
<1>4. Sending \in Byte
  BY <1>1, <1>3, ElementOfSeq DEF Sending
<1>5. heard' \in Seq(Byte)
  BY <1>1, <1>4, AppendProperties, Zenon
<1>6. 0 \in {0, 1} /\ 1 \in {0, 1} /\ 0 <= Len(tx_fifo) /\ 1 <= InFlight /\ InFlight' = InFlight + 0 - 1 /\ 1 # 0
  BY <1>2, <1>1
<1> QED BY <1>1, <1>5, <1>6, OrderStep, Zenon DEF Edges, Line, Moves

\* After the middle of the stop bit the listener is out of the frame, until the next one starts.
LEMMA Waiting ==
  ASSUME NEW offer \in Offers, Edges(offer), tick' = 0, bits' = << >>,
         tx_state_q = "IDLE" \/ (tx_state_q = "STOP" /\ Mid <= tx_baud_counter_q)
  PROVE  FrameInv' /\ InFlight' = 0 /\ popped = 0
<1>1. Moves(offer) /\ tx_baud_counter_q \in 0 .. C - 1 /\ Len(tx_fifo) \in Nat /\ Len(offer) \in {0, 1}
  BY LineFacts, Zenon
<1>2. popped = 0
  BY DEF popped
<1>3. \/ tx_state_q' = "IDLE"
      \/ tx_state_q' = "START" /\ tx_fifo # << >> /\ tx_baud_counter_q' = 0
      \/ tx_state_q' = "STOP" /\ ~(tx_baud_counter_q' <= Mid)
  BY <1>1, Clocks DEF Moves, tx_state_d, tx_fifo_rvalid, last
<1>4. InFlight' = 0
  BY <1>3 DEF InFlight
<1>5. tx_fifo # << >> => tx_fifo' # << >>
  <2>1. Len(tx_fifo') = Len(tx_fifo) + Len(offer)
    BY <1>1, <1>2 DEF Moves, Passed
  <2> QED BY <1>1, <2>1 DEF Moves
<1>6. CASE tx_state_q' = "START"
  <2>1. FrameInv'
    BY <1>3, <1>5, <1>6, Clocks DEF FrameInv
  <2> QED BY <2>1, <1>2, <1>4
<1>7. CASE tx_state_q' # "START"
  <2>1. FrameInv'
    BY <1>3, <1>7 DEF FrameInv, StopInv
  <2> QED BY <2>1, <1>2, <1>4
<1> QED BY <1>6, <1>7

\* Between two frames the line is high, and the listener waits.
LEMMA BetweenEdge ==
  ASSUME NEW offer \in Offers, Edges(offer),
         tx_state_q = "IDLE" \/ (tx_state_q = "STOP" /\ ~(tx_baud_counter_q <= Mid))
  PROVE  Line'
<1>1. Moves(offer) /\ Listen /\ TxTypeOK' /\ tx_baud_counter_q \in 0 .. C - 1
      /\ bits \in Seq(Bit) /\ heard \in Seq(Byte)
  BY LineFacts, Zenon
<1>2. tick = 0 /\ bits = << >> /\ uart_tx_o = 1
  <2>1. uart_tx_o = 1
    BY DEF uart_tx_o
  <2> QED BY <2>1, Zenon DEF Edges, Line, FrameInv, StopInv
<1>3. UNCHANGED <<tick, bits, heard>>
  BY <1>1, <1>2, ListenIdle, Zenon
<1>4. tx_state_q = "IDLE" \/ (tx_state_q = "STOP" /\ Mid <= tx_baud_counter_q)
  BY <1>1, Clocks
<1>5. FrameInv' /\ InFlight' = 0 /\ popped = 0
  BY <1>2, <1>3, <1>4, Waiting, Zenon
<1>6. InFlight' = InFlight + popped
  BY <1>5 DEF InFlight
<1>7. OrderInv'
  BY <1>3, <1>6, Unheard, Zenon
<1>8. LineType'
  BY <1>1, <1>3, Zenon DEF LineType, Moves, Edges, Line
<1> QED BY <1>5, <1>7, <1>8, Zenon DEF Line

\* The first bit of a frame.
LEMMA FirstBit ==
  ASSUME NEW b \in 0 .. C - 1
  PROVE  /\ At(0, b) = b /\ b + 1 = (IF b = C - 1 THEN At(1, 0) ELSE b + 1)
         /\ b + 1 \in 0 .. (NumBits + 2) * C
<1>1. 0 \in Nat
  OBVIOUS
<1>2. /\ At(0, b) = b
      /\ At(0, b) + 1 = (IF b = C - 1 THEN At(0 + 1, 0) ELSE At(0, b + 1))
      /\ 0 <= NumBits + 1 => At(0, b) < (NumBits + 2) * C
  BY <1>1, Phase, Zenon
<1>3. 0 <= NumBits + 1 /\ 0 + 1 = 1
  BY Clocks
<1> DEFINE limit == (NumBits + 2) * C
<1>4. limit \in Nat
  BY Clocks, Z3
<1>5. b < limit
  BY <1>2, <1>3, Zenon
<1> HIDE DEF limit
<1>6. b + 1 \in 0 .. limit
  BY <1>4, <1>5
<1>7. At(0, b) + 1 = (IF b = C - 1 THEN At(1, 0) ELSE At(0, b + 1))
  BY <1>2, <1>3, Zenon
<1>8. b = C - 1 => b + 1 = At(1, 0)
  BY <1>2, <1>7, Zenon
<1> QED BY <1>2, <1>6, <1>8, Zenon DEF limit

LEMMA StartType ==
  ASSUME NEW offer \in Offers, Edges(offer), tx_state_q = "START",
         heard' = heard, tick' = tx_baud_counter_q + 1,
         bits' = IF tx_baud_counter_q < Mid THEN << >> ELSE << 0 >>
  PROVE  LineType'
<1>1. Moves(offer) /\ TxTypeOK' /\ tx_baud_counter_q \in 0 .. C - 1 /\ heard \in Seq(Byte)
  BY LineFacts, Zenon
<1>2. tick' \in 0 .. (NumBits + 2) * ClocksPerBaud
  BY <1>1, FirstBit, Zenon DEF C
<1>3. bits' \in Seq(Bit)
  <2>1. << >> \in Seq(Bit) /\ << 0 >> \in Seq(Bit)
    BY DEF Bit
  <2> QED BY <2>1, Zenon
<1> QED BY <1>1, <1>2, <1>3, Zenon DEF LineType, Moves

\* The start bit: the listener is in its first bit, and the byte leaves the FIFO in the last cycle.
LEMMA StartEdge ==
  ASSUME NEW offer \in Offers, Edges(offer), tx_state_q = "START"
  PROVE  Line'
<1> DEFINE b == tx_baud_counter_q
<1>1. Moves(offer) /\ Listen /\ TxTypeOK' /\ b \in 0 .. C - 1
      /\ Len(tx_fifo) \in Nat /\ Len(offer) \in {0, 1} /\ bits \in Seq(Bit) /\ heard \in Seq(Byte)
      /\ tx_fifo \in Seq(Byte)
  BY LineFacts, Zenon
<1>2. tx_fifo # << >> /\ tick = b /\ bits = (IF b <= Mid THEN << >> ELSE << 0 >>) /\ uart_tx_o = 0
  <2>1. uart_tx_o = 0
    BY DEF uart_tx_o
  <2> QED BY <2>1, Zenon DEF Edges, Line, FrameInv
<1>3. At(0, b) = b /\ b + 1 = (IF b = C - 1 THEN At(1, 0) ELSE b + 1)
  BY <1>1, FirstBit, Zenon
<1>4. /\ b # Mid => tick' = tick + 1 /\ UNCHANGED <<bits, heard>>
      /\ b = Mid => tick' = tick + 1 /\ bits' = << 0 >> /\ UNCHANGED heard
  <2>1. uart_tx_o \in Bit /\ 0 \in Nat
    BY <1>2 DEF Bit
  <2>2. b = Mid => Len(bits) < NumBits + 1 /\ Append(bits, 0) = << 0 >>
    BY <1>2, Clocks
  <2>3. tick = At(0, b)
    BY <1>2, <1>3
  <2>4. /\ b # Mid => tick' = tick + 1 /\ UNCHANGED <<bits, heard>>
        /\ b = Mid /\ Len(bits) < NumBits + 1 =>
              tick' = tick + 1 /\ bits' = Append(bits, uart_tx_o) /\ UNCHANGED heard
    <3> HIDE DEF b
    <3> QED BY <1>1, <1>2, <2>1, <2>3, ListenFrame, Zenon
  <2> QED BY <1>2, <2>2, <2>4, Zenon
<1>5. heard' = heard /\ tick' = b + 1 /\ bits' = (IF b < Mid THEN << >> ELSE << 0 >>)
  BY <1>1, <1>2, <1>4, Clocks
<1>9. LineType'
  <2>1. heard' = heard /\ tick' = tx_baud_counter_q + 1 /\ bits' = IF tx_baud_counter_q < Mid THEN << >> ELSE << 0 >>
    BY <1>5, Zenon
  <2> QED BY <2>1, StartType, Zenon
<1>6. InFlight = 0 /\ popped = IF last THEN 1 ELSE 0
  BY <1>2 DEF InFlight, popped
<1>7. CASE ~last
  <2>1. tx_state_q' = "START" /\ tx_baud_counter_q' = b + 1
    BY <1>1, <1>7, Zenon DEF Moves
  <2>2. InFlight' = InFlight + popped
    BY <1>6, <1>7, <2>1 DEF InFlight
  <2>3. OrderInv'
    BY <1>5, <2>2, Unheard, Zenon
  <2>4. tx_fifo' # << >>
    <3>1. Len(tx_fifo') = Len(tx_fifo) + Len(offer)
      BY <1>1, <1>6, <1>7 DEF Moves, Passed
    <3> QED BY <1>1, <1>2, <3>1 DEF Moves
  <2>5. FrameInv'
    BY <1>1, <1>5, <2>1, <2>4, Clocks DEF FrameInv
  <2> QED BY <1>9, <2>3, <2>5, Zenon DEF Line
<1>8. CASE last
  <2>1. tx_state_q' = "PROC" /\ tx_baud_counter_q' = 0 /\ tx_bit_counter_q' = 0 /\ tx_current_byte_q' = Head(tx_fifo)
    BY <1>1, <1>2, <1>8 DEF Moves, tx_state_d, tx_bit_counter_d, tx_current_byte_d, tx_fifo_rvalid
  <2>2. InFlight' = InFlight + popped
    BY <1>6, <1>8, <2>1 DEF InFlight
  <2>3. OrderInv' /\ Sending' = tx_fifo[1]
    BY <1>5, <1>6, <1>8, <2>2, Unheard, Zenon
  <2>4. tx_current_byte_q' = Sending'
    BY <1>1, <1>2, <2>1, <2>3
  <2>5. tick' = At(1, 0) /\ bits' = << 0 >>
    BY <1>1, <1>3, <1>5, <1>8, Clocks DEF last
  <2>6. ProcInv'
    BY <2>1, <2>4, <2>5, Clocks DEF ProcInv
  <2>7. FrameInv'
    BY <2>1, <2>6 DEF FrameInv
  <2> QED BY <1>9, <2>3, <2>7, Zenon DEF Line
<1> QED BY <1>7, <1>8

\* In a data bit the listener is on the line, which carries the next bit of the byte.
LEMMA ProcListen ==
  ASSUME NEW offer \in Offers, Edges(offer), tx_state_q = "PROC"
  PROVE  /\ heard' = heard /\ tick' = tick + 1 /\ bits' \in Seq(Bit)
         /\ Len(bits') = tx_bit_counter_q + (IF tx_baud_counter_q < Mid THEN 1 ELSE 2)
         /\ bits'[1] = 0 /\ \A j \in 2 .. Len(bits') : bits'[j] = Sending[j - 1]
<1> DEFINE b == tx_baud_counter_q
           k == tx_bit_counter_q
<1>1. /\ Listen /\ b \in 0 .. C - 1 /\ k \in 0 .. NumBits - 1
      /\ bits \in Seq(Bit) /\ tx_current_byte_q \in Byte
  BY LineFacts, Zenon
<1>2. ProcInv
  BY Zenon DEF Edges, Line, FrameInv
<1>3. uart_tx_o = Sending[k + 1] /\ uart_tx_o \in Bit
  <2>1. uart_tx_o = Head(tx_current_byte_q)
    BY DEF uart_tx_o
  <2>2. Head(tx_current_byte_q) = tx_current_byte_q[1] /\ tx_current_byte_q[1] \in Bit
    BY <1>1, Shifted, Zenon
  <2>3. tx_current_byte_q[1] = Sending[k + 1]
    BY <1>1, <1>2, Clocks DEF ProcInv
  <2> QED BY <2>1, <2>2, <2>3
<1>4. k + 1 \in Nat /\ k + 1 > 0 /\ tick = At(k + 1, b)
  BY <1>1, <1>2, Clocks DEF ProcInv
<1>5. /\ b # Mid => tick' = tick + 1 /\ UNCHANGED <<bits, heard>>
      /\ b = Mid /\ Len(bits) < NumBits + 1 =>
            tick' = tick + 1 /\ bits' = Append(bits, uart_tx_o) /\ UNCHANGED heard
  <2> HIDE DEF b, k
  <2> QED BY <1>1, <1>3, <1>4, ListenFrame, Zenon
<1>6. /\ Len(bits) = k + (IF b <= Mid THEN 1 ELSE 2)
      /\ bits[1] = 0 /\ \A j \in 2 .. Len(bits) : bits[j] = Sending[j - 1]
  BY <1>2, Zenon DEF ProcInv
<1>7. CASE b # Mid
  BY <1>1, <1>5, <1>6, <1>7, Clocks
<1>8. CASE b = Mid
  <2>1. Len(bits) = k + 1 /\ Len(bits) < NumBits + 1
    BY <1>1, <1>6, <1>8, Clocks
  <2>2. heard' = heard /\ tick' = tick + 1 /\ bits' = Append(bits, uart_tx_o)
    BY <1>5, <1>8, <2>1
  <2>3. /\ bits' \in Seq(Bit) /\ Len(bits') = Len(bits) + 1 /\ bits'[Len(bits) + 1] = uart_tx_o
        /\ \A i \in 1 .. Len(bits) : bits'[i] = bits[i]
    <3> DEFINE new == Append(bits, uart_tx_o)
    <3>1. /\ new \in Seq(Bit) /\ Len(new) = Len(bits) + 1 /\ new[Len(bits) + 1] = uart_tx_o
          /\ \A i \in 1 .. Len(bits) : new[i] = bits[i]
      BY <1>1, <1>3, AppendProperties
    <3> HIDE DEF new
    <3>2. bits' = new
      BY <2>2, Zenon DEF new
    <3> QED BY <3>1, <3>2, Zenon
  <2>4. Len(bits') = k + 2 /\ bits'[k + 2] = Sending[k + 1] /\ \A i \in 1 .. k + 1 : bits'[i] = bits[i]
    BY <1>1, <1>3, <2>1, <2>3
  <2>5. bits'[1] = 0 /\ \A j \in 2 .. k + 2 : bits'[j] = Sending[j - 1]
    <3>1. bits'[1] = 0
      BY <1>1, <1>6, <2>4
    <3>2. ASSUME NEW j \in 2 .. k + 2 PROVE bits'[j] = Sending[j - 1]
      <4>1. CASE j = k + 2
        BY <1>1, <2>4, <4>1
      <4>2. CASE j # k + 2
        BY <1>1, <1>6, <2>1, <2>4, <4>2, <3>2
      <4> QED BY <4>1, <4>2
    <3> QED BY <3>1, <3>2
  <2>6. 2 = (IF b < Mid THEN 1 ELSE 2)
    BY <1>1, <1>8, Clocks
  <2> QED BY <2>2, <2>3, <2>4, <2>5, <2>6, Zenon
<1> QED BY <1>7, <1>8

\* The data bits: each is sampled in its middle, and the last one is followed by the stop bit.
LEMMA ProcEdge ==
  ASSUME NEW offer \in Offers, Edges(offer), tx_state_q = "PROC"
  PROVE  Line'
<1> DEFINE b == tx_baud_counter_q
           k == tx_bit_counter_q
<1>1. /\ Moves(offer) /\ TxTypeOK' /\ b \in 0 .. C - 1 /\ k \in 0 .. NumBits - 1
      /\ tx_current_byte_q \in Byte /\ heard \in Seq(Byte)
  BY LineFacts, Zenon
<1>2. ProcInv
  BY Zenon DEF Edges, Line, FrameInv
<1>3. /\ heard' = heard /\ tick' = tick + 1 /\ bits' \in Seq(Bit)
      /\ Len(bits') = k + (IF b < Mid THEN 1 ELSE 2)
      /\ bits'[1] = 0 /\ \A j \in 2 .. Len(bits') : bits'[j] = Sending[j - 1]
  BY ProcListen, Zenon
<1>4. /\ At(k + 1, b) + 1 = (IF b = C - 1 THEN At(k + 2, 0) ELSE At(k + 1, b + 1))
      /\ tick = At(k + 1, b) /\ tick + 1 \in 0 .. (NumBits + 2) * C
  <2>1. tick = At(k + 1, b) /\ k + 1 \in Nat /\ k + 1 <= NumBits + 1 /\ (k + 1) + 1 = k + 2
    BY <1>1, <1>2, Clocks DEF ProcInv
  <2>2. /\ At(k + 1, b) \in Nat
        /\ At(k + 1, b) + 1 = (IF b = C - 1 THEN At((k + 1) + 1, 0) ELSE At(k + 1, b + 1))
        /\ k + 1 <= NumBits + 1 => At(k + 1, b) < (NumBits + 2) * C
    <3> HIDE DEF b, k
    <3> QED BY <1>1, <2>1, Phase, Zenon
  <2> DEFINE limit == (NumBits + 2) * C
  <2>3. limit \in Nat
    BY Clocks, Z3
  <2>4. tick \in Nat /\ tick < limit
    BY <2>1, <2>2, Zenon
  <2> HIDE DEF limit
  <2>5. tick + 1 \in 0 .. limit
    BY <2>3, <2>4
  <2> QED BY <2>1, <2>2, <2>5, Zenon DEF limit
<1>5. LineType'
  BY <1>1, <1>3, <1>4, Zenon DEF LineType, Moves, C
<1>6. InFlight = 1 /\ popped = 0
  BY DEF InFlight, popped
<1>7. CASE ~last
  <2>1. /\ tx_state_q' = "PROC" /\ tx_baud_counter_q' = b + 1
        /\ tx_bit_counter_q' = k /\ tx_current_byte_q' = tx_current_byte_q
    BY <1>1, <1>7, Zenon DEF Moves
  <2>2. InFlight' = InFlight + popped
    BY <1>6, <2>1 DEF InFlight
  <2>3. OrderInv' /\ Sending' = Sending
    BY <1>3, <1>6, <2>2, Unheard, Zenon
  <2>4. tick' = At(k + 1, b + 1)
    BY <1>3, <1>4, <1>7, Zenon DEF last
  <2>5. b + 1 <= Mid <=> b < Mid
    BY <1>1, Clocks
  <2>6. ProcInv'
    BY <1>2, <1>3, <2>1, <2>3, <2>4, <2>5, Zenon DEF ProcInv
  <2>7. FrameInv'
    BY <2>1, <2>6 DEF FrameInv
  <2> QED BY <1>5, <2>3, <2>7, Zenon DEF Line
<1>8. CASE last
  <2>1. tx_baud_counter_q' = 0 /\ tick' = At(k + 2, 0) /\ Len(bits') = k + 2 /\ 0 <= Mid
    BY <1>1, <1>3, <1>4, <1>8, Clocks DEF Moves, last
  <2>2. CASE k = NumBits - 1
    <3>1. tx_state_q' = "STOP"
      BY <1>1, <1>8, <2>2 DEF Moves, tx_state_d
    <3>2. InFlight' = InFlight + popped
      BY <1>6, <2>1, <3>1 DEF InFlight
    <3>3. OrderInv' /\ Sending' = Sending
      BY <1>3, <1>6, <3>2, Unheard, Zenon
    <3>4. k + 2 = NumBits + 1
      BY <2>2, Clocks
    <3>5. FrameInv'
      BY <1>3, <2>1, <3>1, <3>3, <3>4 DEF FrameInv, StopInv
    <3> QED BY <1>5, <3>3, <3>5, Zenon DEF Line
  <2>3. CASE k # NumBits - 1
    <3>1. /\ tx_state_q' = "PROC" /\ tx_bit_counter_q' = k + 1
          /\ tx_current_byte_q' = Append(Tail(tx_current_byte_q), 0)
      BY <1>1, <1>8, <2>3 DEF Moves, tx_state_d, tx_bit_counter_d, tx_current_byte_d
    <3>2. InFlight' = InFlight + popped
      BY <1>6, <3>1 DEF InFlight
    <3>3. OrderInv' /\ Sending' = Sending
      BY <1>3, <1>6, <3>2, Unheard, Zenon
    <3>4. \A i \in 1 .. NumBits - 1 : tx_current_byte_q'[i] = tx_current_byte_q[i + 1]
      BY <1>1, <3>1, Shifted, Zenon
    <3>5. \A i \in 1 .. NumBits - (k + 1) : tx_current_byte_q'[i] = Sending[(k + 1) + i]
      BY <1>1, <1>2, <3>4, Clocks DEF ProcInv
    <3>6. k + 2 = (k + 1) + 1
      BY <1>1
    <3>7. ProcInv'
      BY <1>3, <2>1, <3>1, <3>3, <3>5, <3>6, Zenon DEF ProcInv
    <3>8. FrameInv'
      BY <3>1, <3>7 DEF FrameInv
    <3> QED BY <1>5, <3>3, <3>8, Zenon DEF Line
  <2> QED BY <2>2, <2>3
<1> QED BY <1>7, <1>8

\* The first half of the stop bit: in its middle the listener takes the byte it sampled.
LEMMA StopEdge ==
  ASSUME NEW offer \in Offers, Edges(offer), tx_state_q = "STOP", tx_baud_counter_q <= Mid
  PROVE  Line'
<1> DEFINE b == tx_baud_counter_q
           k == NumBits + 1
<1>1. /\ Moves(offer) /\ Listen /\ TxTypeOK' /\ b \in 0 .. C - 1 /\ k \in Nat /\ k > 0
      /\ bits \in Seq(Bit) /\ heard \in Seq(Byte) /\ written \in Seq(Byte)
  BY LineFacts, Clocks
<1>2. /\ tick = At(k, b) /\ Len(bits) = NumBits + 1
      /\ bits[1] = 0 /\ \A j \in 2 .. NumBits + 1 : bits[j] = Sending[j - 1]
  BY Zenon DEF Edges, Line, FrameInv, StopInv
<1>3. uart_tx_o = 1 /\ uart_tx_o \in Bit
  BY DEF uart_tx_o, Bit
<1>4. /\ b # Mid => tick' = tick + 1 /\ UNCHANGED <<bits, heard>>
      /\ b = Mid /\ Len(bits) = NumBits + 1 =>
            /\ tick' = 0 /\ bits' = << >>
            /\ heard' = IF bits[1] = 0 /\ uart_tx_o = 1 THEN Append(heard, Tail(bits)) ELSE heard
  <2> HIDE DEF b, k
  <2> QED BY <1>1, <1>2, <1>3, ListenFrame, Zenon
<1>5. InFlight = 1 /\ popped = 0
  BY DEF InFlight, popped
<1>6. CASE b # Mid
  <2>1. tick' = tick + 1 /\ UNCHANGED <<bits, heard>>
    BY <1>4, <1>6, Zenon
  <2>2. ~last /\ b + 1 <= Mid
    BY <1>1, <1>6, Clocks DEF last
  <2>3. tx_state_q' = "STOP" /\ tx_baud_counter_q' = b + 1
    BY <1>1, <2>2, Zenon DEF Moves
  <2>4. InFlight' = InFlight + popped
    BY <1>5, <2>2, <2>3 DEF InFlight
  <2>5. OrderInv' /\ Sending' = Sending
    BY <1>5, <2>1, <2>4, Unheard, Zenon
  <2>6. tick' = At(k, b + 1) /\ tick' \in 0 .. (NumBits + 2) * C
    <3>1. /\ At(k, b) \in Nat /\ At(k, b + 1) = At(k, b) + 1
          /\ k <= NumBits + 1 => At(k, b) < (NumBits + 2) * C
      <4> HIDE DEF b, k
      <4> QED BY <1>1, Phase, Zenon
    <3>2. k <= NumBits + 1
      BY Clocks
    <3> DEFINE limit == (NumBits + 2) * C
    <3>3. limit \in Nat
      BY Clocks, Z3
    <3>4. tick \in Nat /\ tick < limit /\ tick' = tick + 1
      BY <1>2, <2>1, <3>1, <3>2, Zenon
    <3> HIDE DEF limit
    <3>5. tick' \in 0 .. limit
      BY <3>3, <3>4
    <3> QED BY <1>2, <2>1, <3>1, <3>5, Zenon DEF limit
  <2>7. LineType'
    BY <1>1, <2>1, <2>6, Zenon DEF LineType, Moves, C
  <2>8. StopInv'
    BY <1>2, <2>1, <2>2, <2>3, <2>5, <2>6, Zenon DEF StopInv
  <2>9. FrameInv'
    BY <2>3, <2>8 DEF FrameInv
  <2> QED BY <2>5, <2>7, <2>9, Zenon DEF Line
<1>7. CASE b = Mid
  <2>1. tick' = 0 /\ bits' = << >> /\ heard' = Append(heard, Tail(bits))
    BY <1>2, <1>3, <1>4, <1>7
  <2>2. Tail(bits) = Sending
    <3>1. Tail(bits) \in Seq(Bit) /\ Len(Tail(bits)) = NumBits /\ \A i \in 1 .. NumBits : Tail(bits)[i] = bits[i + 1]
      <4>1. bits # << >>
        BY <1>1, <1>2, Clocks
      <4>2. Tail(bits) \in Seq(Bit) /\ Len(Tail(bits)) = Len(bits) - 1 /\ \A i \in 1 .. Len(bits) - 1 : Tail(bits)[i] = bits[i + 1]
        BY <1>1, <4>1, HeadTailProperties
      <4> QED BY <1>2, <4>2, Clocks
    <3>2. Sending \in Byte
      <4>1. Len(heard) + 1 \in 1 .. Len(written)
        BY <1>1, <1>5, LineFacts DEF Edges, Line, OrderInv
      <4> QED BY <1>1, <4>1, ElementOfSeq DEF Sending
    <3>3. \A i \in 1 .. NumBits : Tail(bits)[i] = Sending[i]
      BY <1>2, <3>1, Clocks
    <3> DEFINE t == Tail(bits)
    <3> HIDE DEF t
    <3>4. t \in [1 .. NumBits -> Bit]
      <4>1. t \in [1 .. Len(t) -> Bit] /\ Len(t) = NumBits
        BY <3>1, LenProperties DEF t
      <4> QED BY <4>1, Zenon
    <3> DEFINE u == Sending
    <3> HIDE DEF u
    <3>5. u \in [1 .. NumBits -> Bit] /\ \A i \in 1 .. NumBits : t[i] = u[i]
      BY <3>2, <3>3, Zenon DEF t, u, Byte
    <3>6. t = [i \in 1 .. NumBits |-> t[i]] /\ u = [i \in 1 .. NumBits |-> u[i]]
      BY <3>4, <3>5
    <3>7. t = u
      BY <3>5, <3>6, Zenon
    <3> QED BY <3>7 DEF t, u
  <2>3. Mid <= tx_baud_counter_q
    BY <1>1, <1>7
  <2>4. FrameInv' /\ InFlight' = 0
    BY <2>1, <2>3, Waiting, Zenon
  <2>5. OrderInv' /\ heard' \in Seq(Byte)
    BY <1>5, <2>1, <2>2, <2>4, Heard, Zenon
  <2>6. tick' \in 0 .. (NumBits + 2) * C /\ bits' \in Seq(Bit)
    <3> DEFINE limit == (NumBits + 2) * C
    <3>1. limit \in Nat
      BY Clocks, Z3
    <3> HIDE DEF limit
    <3>2. tick' \in 0 .. limit /\ bits' \in Seq(Bit)
      BY <2>1, <3>1
    <3> QED BY <3>2 DEF limit
  <2>7. LineType'
    BY <1>1, <2>5, <2>6, Zenon DEF LineType, Moves, C
  <2> QED BY <2>4, <2>5, <2>7, Zenon DEF Line
<1> QED BY <1>6, <1>7

\* Every clock edge keeps the listener in step, and the FIFO grows only by what is offered.
LEMMA EdgeStep ==
  ASSUME NEW offer \in Offers, Edges(offer)
  PROVE  Line' /\ Len(tx_fifo') \in Nat /\ Len(tx_fifo') <= Len(tx_fifo) + Len(offer)
<1>1. \/ tx_state_q = "IDLE" \/ (tx_state_q = "STOP" /\ ~(tx_baud_counter_q <= Mid))
      \/ tx_state_q = "START" \/ tx_state_q = "PROC"
      \/ tx_state_q = "STOP" /\ tx_baud_counter_q <= Mid
  BY DEF Edges, Line, LineType, TxTypeOK
<1>2. Line'
  BY <1>1, BetweenEdge, StartEdge, ProcEdge, StopEdge, Zenon
<1>3. Len(tx_fifo') \in Nat /\ Len(tx_fifo') <= Len(tx_fifo) + Len(offer)
  <2>1. Moves(offer) /\ Len(tx_fifo) \in Nat /\ Len(offer) \in {0, 1}
    BY LineFacts, Zenon
  <2>2. Len(tx_fifo') = Len(tx_fifo) - popped + Len(offer) /\ popped \in {0, 1}
    BY <2>1, Zenon DEF Moves, Passed, popped
  <2>3. tx_fifo' \in Seq(Byte)
    BY <2>1, Zenon DEF Moves
  <2>4. Len(tx_fifo') \in Nat
    BY <2>3, LenProperties, Zenon
  <2> QED BY <2>1, <2>2, <2>4
<1> QED BY <1>2, <1>3

\* An edge in which uart_out writes nothing.
LEMMA QuietEdge ==
  ASSUME LineInv, Edge(<< >>), written' = written
  PROVE  Line' /\ Len(tx_fifo) \in Nat /\ Len(tx_fifo') \in Nat /\ Len(tx_fifo') <= Len(tx_fifo)
<1>1. << >> \in Offers
  BY DEF Offers
<1>2. written' = written \o << >> /\ Len(<< >>) = 0 /\ Len(tx_fifo) \in Nat
  <2>1. written \in Seq(Byte) /\ tx_fifo \in Seq(Byte)
    BY DEF LineInv, TypeOK, TxTypeOK
  <2> QED BY <2>1
<1>3. Edges(<< >>)
  BY <1>2, Zenon DEF Edges, Line, LineType, LineInv, TypeOK
<1>4. Line' /\ Len(tx_fifo') \in Nat /\ Len(tx_fifo') <= Len(tx_fifo) + Len(<< >>)
  BY <1>1, <1>3, EdgeStep, Zenon
<1> QED BY <1>2, <1>4

LEMMA LineInit == Init => LineInv
<1> SUFFICES ASSUME Init PROVE LineInv
  OBVIOUS
<1> USE DEF Init, TxInit
<1>1. TypeOK
  <2>1. Zeros \in Byte
    BY DEF Zeros, Byte, Bit
  <2>2. TxTypeOK
    BY <2>1, Clocks DEF TxTypeOK, C
  <2>3. tick \in 0 .. (NumBits + 2) * ClocksPerBaud
    <3> DEFINE limit == (NumBits + 2) * C
    <3>1. limit \in Nat
      BY Clocks, Z3
    <3> HIDE DEF limit
    <3>2. tick \in 0 .. limit
      BY <3>1
    <3> QED BY <3>2 DEF limit, C
  <2>4. pc \in {"away", "status", "see", "write"} /\ full \in BOOLEAN
    BY Zenon
  <2>5. {written, heard} \subseteq Seq(Byte) /\ bits \in Seq(Bit)
    OBVIOUS
  <2> QED BY <2>2, <2>3, <2>4, <2>5, Zenon DEF TypeOK
<1>2. InFlight = 0
  BY DEF InFlight
<1>3. OrderInv
  BY <1>2 DEF OrderInv
<1>4. RoomInv /\ FrameInv
  BY DEF RoomInv, FrameInv
<1> QED BY <1>1, <1>3, <1>4 DEF LineInv

LEMMA LineStep == LineInv /\ [Next]_vars => LineInv'
<1> SUFFICES ASSUME LineInv, [Next]_vars PROVE LineInv'
  OBVIOUS
<1>1. CASE Elsewhere
  <2>1. Line' /\ Len(tx_fifo) \in Nat /\ Len(tx_fifo') \in Nat /\ Len(tx_fifo') <= Len(tx_fifo)
    BY <1>1, QuietEdge, Zenon DEF Elsewhere
  <2>2. RoomInv'
    BY <1>1, <2>1, Clocks DEF LineInv, RoomInv, Elsewhere
  <2>3. TypeOK'
    BY <1>1, <2>1, Zenon DEF LineInv, TypeOK, Line, LineType, Elsewhere
  <2> QED BY <2>1, <2>2, <2>3, Zenon DEF LineInv, Line
<1>2. CASE Call
  <2>1. Line'
    BY <1>2, QuietEdge, Zenon DEF Call
  <2>2. RoomInv'
    BY <1>2 DEF RoomInv, Call
  <2>3. TypeOK'
    <3>1. pc' \in {"away", "status", "see", "write"} /\ full' \in BOOLEAN
      BY <1>2, Zenon DEF LineInv, TypeOK, Call
    <3> QED BY <2>1, <3>1, Zenon DEF TypeOK, Line, LineType
  <2> QED BY <2>1, <2>2, <2>3, Zenon DEF LineInv, Line
<1>3. CASE ReadStatus
  <2>1. Line' /\ Len(tx_fifo) \in Nat /\ Len(tx_fifo') \in Nat /\ Len(tx_fifo') <= Len(tx_fifo)
    BY <1>3, QuietEdge, Zenon DEF ReadStatus
  <2>2. full' \in BOOLEAN /\ (full' <=> Len(tx_fifo) = TxFifoDepth)
    BY <1>3, Zenon DEF ReadStatus, tx_fifo_full
  <2>3. Len(tx_fifo) <= TxFifoDepth
    BY DEF LineInv, TypeOK, TxTypeOK
  <2>4. RoomInv'
    BY <1>3, <2>1, <2>2, <2>3, Clocks DEF RoomInv, ReadStatus
  <2>5. TypeOK'
    <3>1. pc' \in {"away", "status", "see", "write"}
      BY <1>3, Zenon DEF ReadStatus
    <3> QED BY <2>1, <2>2, <3>1, Zenon DEF TypeOK, Line, LineType
  <2> QED BY <2>1, <2>4, <2>5, Zenon DEF LineInv, Line
<1>4. CASE SeeStatus
  <2>1. Line' /\ Len(tx_fifo) \in Nat /\ Len(tx_fifo') \in Nat /\ Len(tx_fifo') <= Len(tx_fifo)
    BY <1>4, QuietEdge, Zenon DEF SeeStatus
  <2>2. pc = "see" /\ full' = full /\ pc' = IF full THEN "status" ELSE "write"
    BY <1>4, Zenon DEF SeeStatus
  <2>3. RoomInv'
    <3>1. pc' = "write" \/ (pc' = "see" /\ ~full') => ~full
      BY <2>2
    <3>2. ~full => Len(tx_fifo) < TxFifoDepth
      BY <2>2, Zenon DEF LineInv, RoomInv
    <3>3. ~full => Len(tx_fifo') < TxFifoDepth
      BY <2>1, <3>2, Clocks
    <3> QED BY <3>1, <3>3, Zenon DEF RoomInv
  <2>4. TypeOK'
    <3>1. pc' \in {"away", "status", "see", "write"} /\ full' \in BOOLEAN
      BY <2>2, Zenon DEF LineInv, TypeOK
    <3> QED BY <2>1, <3>1, Zenon DEF TypeOK, Line, LineType
  <2> QED BY <2>1, <2>3, <2>4, Zenon DEF LineInv, Line
<1>5. ASSUME NEW byte \in Byte, Write(byte) PROVE LineInv'
  <2>1. <<byte>> \in Offers
    BY <1>5, Zenon DEF Offers
  <2>2. written' = written \o <<byte>>
    <3>1. written \in Seq(Byte)
      BY DEF LineInv, TypeOK
    <3> QED BY <1>5, <3>1 DEF Write
  <2>3. Len(tx_fifo) < TxFifoDepth
    BY <1>5, Zenon DEF LineInv, RoomInv, Write
  <2>4. Edges(<<byte>>)
    BY <1>5, <2>2, <2>3, Zenon DEF Edges, Line, LineType, LineInv, TypeOK, Write
  <2>5. Line'
    BY <2>1, <2>4, EdgeStep, Zenon
  <2>6. RoomInv'
    BY <1>5 DEF RoomInv, Write
  <2>7. TypeOK'
    <3>1. pc' \in {"away", "status", "see", "write"} /\ full' \in BOOLEAN
      BY <1>5, Zenon DEF LineInv, TypeOK, Write
    <3> QED BY <2>5, <3>1, Zenon DEF TypeOK, Line, LineType
  <2> QED BY <2>5, <2>6, <2>7, Zenon DEF LineInv, Line
<1>6. CASE UNCHANGED vars
  BY <1>6, Zenon DEF LineInv, TypeOK, TxTypeOK, OrderInv, RoomInv, FrameInv, ProcInv, StopInv, InFlight,
       Sending, vars, txVars
<1> QED BY <1>1, <1>2, <1>3, <1>4, <1>5, <1>6 DEF Next

LEMMA LineAlways == Spec => []LineInv
<1> QED BY LineInit, LineStep, PTL DEF Spec

-----------------------------------------------------------------------------
(* Theorems.                                                               *)

(* The transmitter's registers, its FIFO and the listener stay within their*)
(* ranges: the bit counter never passes the last bit of a byte, and the    *)
(* FIFO never holds more than its depth.                                   *)
THEOREM TypeCorrect == Spec => []TypeOK
<1>1. LineInv => TypeOK
  BY DEF LineInv
<1> QED BY <1>1, LineAlways, PTL

(* What the listener hears is a prefix of what uart_out wrote, for every   *)
(* number of bytes, depth of the FIFO, frame length and baud rate.         *)
THEOREM HeardCorrect == Spec => []HeardAsWritten
<1>1. LineInv => HeardAsWritten
  <2> SUFFICES ASSUME LineInv PROVE IsPrefix(heard, written)
    BY DEF HeardAsWritten
  <2>1. heard \in Seq(Byte) /\ written \in Seq(Byte) /\ tx_fifo \in Seq(Byte)
    BY DEF LineInv, TypeOK, TxTypeOK
  <2>2. Len(heard) <= Len(written)
    BY <2>1 DEF LineInv, OrderInv, InFlight
  <2>3. \A i \in 1 .. Len(heard) : heard[i] = written[i]
    BY Zenon DEF LineInv, OrderInv
  <2>4. SubSeq(written, 1, Len(heard)) = heard
    BY <2>1, <2>2, <2>3
  <2> QED BY <2>2, <2>4 DEF IsPrefix
<1> QED BY <1>1, LineAlways, PTL

=============================================================================
