------------------------------- MODULE UartTx -------------------------------
(***************************************************************************)
(* The transmit half of the UART: FIFO, free-running baud counter and      *)
(* transmit state machine.  TxEdge is one rising edge of clk_i, with what  *)
(* the bus writes to UartTxReg in that cycle.  A byte is the sequence of   *)
(* its bits in line order, least significant first.                        *)
(***************************************************************************)
EXTENDS BoundedQueue

CONSTANTS NumBits,        \* data bits of a frame, 8 in the code
          ClocksPerBaud,  \* ClockFrequency / BaudRate
          TxFifoDepth

ASSUME UartTxAssumption ==
  /\ NumBits \in Nat \ {0}
  /\ ClocksPerBaud \in Nat \ {0, 1}
  /\ TxFifoDepth \in Nat \ {0}

VARIABLES tx_baud_counter_q, tx_state_q, tx_bit_counter_q, tx_current_byte_q,
          tx_fifo

txVars == <<tx_baud_counter_q, tx_state_q, tx_bit_counter_q, tx_current_byte_q, tx_fifo>>

Bit == {0, 1}
Byte == [1 .. NumBits -> Bit]
Zeros == [i \in 1 .. NumBits |-> 0]

TxTypeOK ==
  /\ tx_baud_counter_q \in 0 .. ClocksPerBaud - 1
  /\ tx_state_q \in {"IDLE", "START", "PROC", "STOP"}
  /\ tx_bit_counter_q \in 0 .. NumBits - 1
  /\ tx_current_byte_q \in Byte
  /\ tx_fifo \in Seq(Byte) /\ Len(tx_fifo) <= TxFifoDepth

-----------------------------------------------------------------------------

tx_baud_tick == tx_baud_counter_q = ClocksPerBaud - 1
tx_fifo_rvalid == tx_fifo # << >>
tx_fifo_full == Len(tx_fifo) = TxFifoDepth
tx_next_byte == tx_state_q = "START"
(* Faulty variant of tx_fifo_rready: pops in every cycle of the start bit. *)
txRreadyUntimed == tx_next_byte

tx_fifo_rready == tx_baud_tick /\ tx_next_byte

uart_tx_o ==
  CASE tx_state_q \in {"IDLE", "STOP"} -> 1
    [] tx_state_q = "START" -> 0
    [] tx_state_q = "PROC" -> Head(tx_current_byte_q)

TxInit ==
  /\ tx_baud_counter_q = 0
  /\ tx_state_q = "IDLE" /\ tx_bit_counter_q = 0 /\ tx_current_byte_q = Zeros
  /\ tx_fifo = << >>

tx_state_d ==
  CASE tx_state_q = "IDLE" -> IF tx_fifo_rvalid THEN "START" ELSE "IDLE"
    [] tx_state_q = "START" -> "PROC"
    [] tx_state_q = "PROC" -> IF tx_bit_counter_q = NumBits - 1 THEN "STOP" ELSE "PROC"
    [] tx_state_q = "STOP" -> IF tx_fifo_rvalid THEN "START" ELSE "IDLE"

(* Faulty variant of tx_bit_counter_d: counts past the last bit.           *)
txBitCounterFree ==
  CASE tx_state_q = "START" -> 0
    [] tx_state_q = "PROC" -> tx_bit_counter_q + 1
    [] OTHER -> tx_bit_counter_q

tx_bit_counter_d ==
  CASE tx_state_q = "START" -> 0
    [] tx_state_q = "PROC" /\ tx_bit_counter_q # NumBits - 1 -> tx_bit_counter_q + 1
    [] OTHER -> tx_bit_counter_q

tx_current_byte_d ==
  CASE tx_state_q = "START" -> IF tx_fifo_rvalid THEN Head(tx_fifo) ELSE Zeros
    [] tx_state_q = "PROC" -> Append(Tail(tx_current_byte_q), 0)
    [] OTHER -> tx_current_byte_q

TransmitStep ==
  IF tx_baud_tick
  THEN /\ tx_state_q' = tx_state_d
       /\ tx_bit_counter_q' = tx_bit_counter_d
       /\ tx_current_byte_q' = tx_current_byte_d
  ELSE UNCHANGED <<tx_state_q, tx_bit_counter_q, tx_current_byte_q>>

TxEdge(offer) ==
  /\ tx_baud_counter_q' = IF tx_baud_tick THEN 0 ELSE tx_baud_counter_q + 1
  /\ TransmitStep
  /\ tx_fifo' = AfterEdge(tx_fifo, TxFifoDepth, offer, tx_fifo_rready)

=============================================================================
