------------------------------ MODULE MCLcdSpi ------------------------------
(* Two-bit bytes, a FIFO of two, and calls of up to three bytes: the FIFO  *)
(* fills, drains and idles between calls.                                  *)
EXTENDS LcdSpi

MCNumBits == 2
MCToggleCount == 2
MCDepth == 2
MCPayloads == {<<<<1, 0>>>>, <<<<0, 1>>, <<1, 1>>, <<0, 0>>>>}
MCMaxCalls == 2

=============================================================================
