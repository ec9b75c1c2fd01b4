------------------------------- MODULE UartRx -------------------------------
(***************************************************************************)
(* The receive half of the UART: synchroniser, baud counter, receive state *)
(* machine and FIFO.  RxEdge is one rising edge of clk_i, with the level of*)
(* uart_rx_i before it and whether the bus reads UartRxReg in that cycle.  *)
(* A byte is the sequence of its bits in line order, least significant     *)
(* first.                                                                  *)
(***************************************************************************)
EXTENDS BoundedQueue, FiniteSets

CONSTANTS NumBits,        \* data bits of a frame, 8 in the code
          ClocksPerBaud,  \* ClockFrequency / BaudRate
          RxFifoDepth

ASSUME UartRxAssumption ==
  /\ NumBits \in Nat \ {0}
  /\ ClocksPerBaud \in Nat \ {0, 1}
  /\ RxFifoDepth \in Nat \ {0}

VARIABLES rx_q,               \* rx_q[i + 1] is the code's rx_q[i]
          rx_baud_counter_q,
          rx_state_q, rx_bit_counter_q, rx_current_byte_q,
          rx_fifo

rxVars == <<rx_q, rx_baud_counter_q, rx_state_q, rx_bit_counter_q,
            rx_current_byte_q, rx_fifo>>

Bit == {0, 1}
Byte == [1 .. NumBits -> Bit]
Zeros == [i \in 1 .. NumBits |-> 0]

RxTypeOK ==
  /\ rx_q \in [1 .. 3 -> Bit]
  /\ rx_baud_counter_q \in 0 .. ClocksPerBaud - 1
  /\ rx_state_q \in {"IDLE", "START", "PROC", "STOP"}
  /\ rx_bit_counter_q \in 0 .. NumBits - 1
  /\ rx_current_byte_q \in Byte
  /\ rx_fifo \in Seq(Byte) /\ Len(rx_fifo) <= RxFifoDepth

-----------------------------------------------------------------------------

rx_baud_tick == rx_baud_counter_q = ClocksPerBaud - 1
(* Faulty variant of rx_start: looks for the wrong edge.                   *)
rxStartRising == rx_q[2] = 1 /\ rx_q[3] = 0 /\ rx_state_q = "IDLE"

rx_start == rx_q[2] = 0 /\ rx_q[3] = 1 /\ rx_state_q = "IDLE"
(* Faulty variant of rx_valid: the stop bit is not looked at.              *)
rxValidAlways == rx_state_q = "STOP"

rx_valid == rx_state_q = "STOP" /\ rx_q[3] = 1
rx_fifo_wvalid == rx_baud_tick /\ rx_valid
rx_fifo_empty == rx_fifo = << >>
rx_fifo_rdata == IF rx_fifo_empty THEN Zeros ELSE Head(rx_fifo)
uart_irq_o == ~rx_fifo_empty

RxInit ==
  /\ rx_q = <<0, 0, 0>>
  /\ rx_baud_counter_q = 0
  /\ rx_state_q = "IDLE" /\ rx_bit_counter_q = 0 /\ rx_current_byte_q = Zeros
  /\ rx_fifo = << >>

(* A start edge moves the counter half a bit on, unless the tick of the    *)
(* free-running counter falls in the same cycle: the tick comes first.     *)
rx_baud_counter_d ==
  IF rx_baud_tick THEN 0
  ELSE IF rx_start THEN ClocksPerBaud \div 2
  ELSE rx_baud_counter_q + 1

rx_state_d ==
  CASE rx_state_q = "IDLE" -> IF rx_start THEN "START" ELSE "IDLE"
    [] rx_state_q = "START" -> IF rx_q[3] = 0 THEN "PROC" ELSE "IDLE"
    [] rx_state_q = "PROC" -> IF rx_bit_counter_q = NumBits - 1 THEN "STOP" ELSE "PROC"
    [] rx_state_q = "STOP" -> "IDLE"

(* Faulty variant of rx_bit_counter_d: counts past the last bit.           *)
rxBitCounterFree ==
  CASE rx_state_q = "START" -> 0
    [] rx_state_q = "PROC" -> rx_bit_counter_q + 1
    [] OTHER -> rx_bit_counter_q

rx_bit_counter_d ==
  CASE rx_state_q = "START" -> 0
    [] rx_state_q = "PROC" /\ rx_bit_counter_q # NumBits - 1 -> rx_bit_counter_q + 1
    [] OTHER -> rx_bit_counter_q

rx_current_byte_d ==
  CASE rx_state_q = "START" -> Zeros
    [] rx_state_q = "PROC" -> Append(Tail(rx_current_byte_q), rx_q[3])
    [] OTHER -> rx_current_byte_q

ReceiveStep ==
  IF rx_start \/ rx_baud_tick
  THEN /\ rx_state_q' = rx_state_d
       /\ rx_bit_counter_q' = rx_bit_counter_d
       /\ rx_current_byte_q' = rx_current_byte_d
  ELSE UNCHANGED <<rx_state_q, rx_bit_counter_q, rx_current_byte_q>>

RxEdge(uart_rx_i, rx_fifo_rready) ==
  /\ rx_q' = <<uart_rx_i, rx_q[1], rx_q[2]>>
  /\ rx_baud_counter_q' = rx_baud_counter_d
  /\ ReceiveStep
  /\ rx_fifo' = AfterEdge(rx_fifo, RxFifoDepth,
                          IF rx_fifo_wvalid THEN <<rx_current_byte_q>> ELSE << >>,
                          rx_fifo_rready)

=============================================================================
