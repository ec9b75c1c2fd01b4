------------------------------- MODULE SpiTop -------------------------------
(***************************************************************************)
(* The SPI peripheral: spi_top (registers and transmit FIFO) around        *)
(* spi_host (serial clock and shifter), with CPOL = 0 and CPHA = 1 as both *)
(* top levels set them.  ClockEdge is one rising edge of clk_i: it takes   *)
(* what the bus offers the transmit register and the level of the incoming *)
(* data line, and moves every register of both modules.                    *)
(***************************************************************************)
EXTENDS BoundedQueue

CONSTANTS NumBits,      \* bits of a byte, 8 in the code
          ToggleCount,  \* clock cycles of half an SCK period
          Depth         \* of the transmit FIFO, 127 in the code

ASSUME SpiAssumption ==
  /\ NumBits \in Nat \ {0}
  /\ ToggleCount \in Nat \ {0}
  /\ Depth \in Nat \ {0}

VARIABLES count, sck,        \* serial clock generator
          state_q, bit_counter_q, current_byte_q,
          recieved_byte_q,   \* spelt as in the code
          recieved_byte_d,   \* a latch without reset, despite its name
          next_tx_byte_q,    \* edge detector of spi_top
          tx_fifo            \* contents of u_tx_fifo

spiVars == <<count, sck, state_q, bit_counter_q, current_byte_q, recieved_byte_q,
             recieved_byte_d, next_tx_byte_q, tx_fifo>>

States == {"IDLE", "START", "SEND", "STOP"}
Bit == {0, 1}
Byte == [1 .. NumBits -> Bit]   \* most significant bit first
Zeros == [i \in 1 .. NumBits |-> 0]

SpiTypeOK ==
  /\ count \in 0 .. ToggleCount - 1
  /\ sck \in Bit
  /\ state_q \in States
  /\ bit_counter_q \in 0 .. NumBits - 1
  /\ {current_byte_q, recieved_byte_q, recieved_byte_d} \subseteq Byte
  /\ next_tx_byte_q \in BOOLEAN
  /\ tx_fifo \in Seq(Byte) /\ Len(tx_fifo) <= Depth

-----------------------------------------------------------------------------
(* Combinational signals.                                                  *)

CPOL == 0
(* Faulty variant of start_i: a lone byte does not start the host.         *)
startOnTwo == Len(tx_fifo) > 1

start_i == tx_fifo # << >>
sck_en == state_q = "SEND"
(* Faulty variant of count_at_limit: one cycle too many.                   *)
countPastLimit == count >= ToggleCount

count_at_limit == count >= ToggleCount - 1
sck_pos == count_at_limit /\ sck = 0
sck_neg == count_at_limit /\ sck = 1

sck_o == IF sck_en THEN sck ELSE CPOL
spi_tx_o == IF state_q = "SEND" THEN current_byte_q[1] ELSE 1
(* Faulty variant of byte_data_o: the shifted-out register.                *)
byteDataSent == IF state_q = "STOP" THEN current_byte_q ELSE Zeros

byte_data_o == IF state_q = "STOP" THEN recieved_byte_q ELSE Zeros
next_tx_byte_o == state_q = "STOP"

(* Faulty variant of tx_fifo_rready: pops as long as STOP lasts.           *)
txRreadyLevel == next_tx_byte_o

(* Popped once per byte: when STOP is entered, however long it lasts.      *)
tx_fifo_rready == next_tx_byte_o /\ ~next_tx_byte_q

(* Faulty variant of Status: empty before the last byte has left.          *)
StatusEarly == [full |-> Len(tx_fifo) = Depth, empty |-> Len(tx_fifo) <= 1]

(* What a read of SpiStatusReg answers, in the cycle of its response.      *)
Status == [full |-> Len(tx_fifo) = Depth, empty |-> tx_fifo = << >>]

ShiftLeft(byte, bit) == Append(Tail(byte), bit)

-----------------------------------------------------------------------------

SpiInit ==
  /\ count = 0 /\ sck = CPOL
  /\ state_q = "IDLE" /\ bit_counter_q = 0
  /\ current_byte_q = Zeros
  /\ recieved_byte_q = Zeros
  /\ recieved_byte_d \in Byte
  /\ next_tx_byte_q = FALSE
  /\ tx_fifo = << >>

(* The clock runs only while there is a byte to send or one being sent.    *)
SerialClock ==
  IF ~(sck_en \/ start_i) THEN count' = 0 /\ sck' = CPOL
  ELSE IF count_at_limit THEN count' = 0 /\ sck' = 1 - sck
  ELSE count' = count + 1 /\ UNCHANGED sck

state_d ==
  CASE state_q = "IDLE" -> IF start_i THEN "START" ELSE "IDLE"
    [] state_q = "START" -> "SEND"
    [] state_q = "SEND" -> IF bit_counter_q = 0 THEN "STOP" ELSE "SEND"
    [] state_q = "STOP" -> "IDLE"

bit_counter_d ==
  CASE state_q = "START" -> NumBits - 1
    [] state_q = "SEND" /\ bit_counter_q # 0 -> bit_counter_q - 1
    [] OTHER -> bit_counter_q

(* byte_data_i is zero when the FIFO is empty (OutputZeroIfEmpty).         *)
current_byte_d ==
  CASE state_q = "START" -> IF start_i THEN Head(tx_fifo) ELSE Zeros
    [] state_q = "SEND" -> ShiftLeft(current_byte_q, 0)
    [] OTHER -> current_byte_q

(* With CPHA = 1 the state moves on the rising edge of SCK, and the byte   *)
(* shifts, and the incoming bit is taken, on the falling one.              *)
Shifter(spi_rx_i) ==
  /\ bit_counter_q' = IF sck_pos THEN bit_counter_d ELSE bit_counter_q
  /\ recieved_byte_q' = IF sck_pos THEN recieved_byte_d ELSE recieved_byte_q
  /\ state_q' = IF sck_pos THEN state_d ELSE state_q
  /\ current_byte_q' = IF sck_neg THEN current_byte_d ELSE current_byte_q
  /\ recieved_byte_d' = IF sck_neg /\ state_q = "SEND"
                        THEN ShiftLeft(recieved_byte_q, spi_rx_i)
                        ELSE recieved_byte_d

ClockEdge(offer, spi_rx_i) ==
  /\ SerialClock
  /\ Shifter(spi_rx_i)
  /\ tx_fifo' = AfterEdge(tx_fifo, Depth, offer, tx_fifo_rready)
  /\ next_tx_byte_q' = next_tx_byte_o

=============================================================================
