--------------------------- MODULE MCPrimFifoSync ---------------------------
(* A FIFO whose depth, like the SPI host's 127, is not a power of two.     *)
EXTENDS PrimFifoSync

MCDepth == 3
MCData == {"a", "b"}
MCZero == "zero"

=============================================================================
