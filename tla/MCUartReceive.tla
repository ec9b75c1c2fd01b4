--------------------------- MODULE MCUartReceive ---------------------------
(* Frames of two data bits at four clocks per bit, a FIFO of one, and three*)
(* frames: every phase of the baud counter against the start edge, and a   *)
(* FIFO that overflows when the program is away.                           *)
EXTENDS UartReceive

MCNumBits == 2
MCClocksPerBaud == 4
MCRxFifoDepth == 1
MCBitTimes == {4}
MCMinGap == 0
MCGlitchCycles == 1
MCMaxFrames == 3

=============================================================================
