---------------------------- MODULE BoundedQueue ----------------------------
(***************************************************************************)
(* What one clock edge does to a synchronous FIFO, as every user of        *)
(* prim_fifo_sync in the SoC sees it.  The UART and SPI modules are built  *)
(* on these operators; PrimFifoSync shows the ring buffer implements them. *)
(*                                                                         *)
(* A write port is a sequence: << >> when wvalid_i is low, <<d>> when the  *)
(* port offers d.                                                          *)
(***************************************************************************)
EXTENDS Naturals, Sequences

(* The write port is taken only when the queue had room before the edge:   *)
(* a read in the same cycle does not make room for it.                     *)
Accepted(q, depth, offer) == IF Len(q) < depth THEN offer ELSE << >>

(* The read port pops only what was there before the edge.                 *)
Remaining(q, pop) == IF pop /\ q # << >> THEN Tail(q) ELSE q

AfterEdge(q, depth, offer, pop) == Remaining(q, pop) \o Accepted(q, depth, offer)

=============================================================================
