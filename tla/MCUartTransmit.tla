--------------------------- MODULE MCUartTransmit ---------------------------
(* Two data bits at three clocks per bit, a FIFO of two and four bytes: the*)
(* FIFO fills, uart_out waits, frames run back to back and restart.        *)
EXTENDS UartTransmit

MCNumBits == 2
MCClocksPerBaud == 3
MCTxFifoDepth == 2
MCMaxBytes == 4

=============================================================================
