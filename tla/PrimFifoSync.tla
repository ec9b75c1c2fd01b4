---------------------------- MODULE PrimFifoSync ----------------------------
(***************************************************************************)
(* prim_fifo_sync with prim_fifo_sync_cnt, as the UART (Depth 128) and the *)
(* SPI host (Depth 127) instantiate it: Pass = 0, Secure = 0, clr_i = 0.   *)
(* A pointer is a wrap bit and an index; one step is one rising clock      *)
(* edge, or an assertion of rst_ni.                                        *)
(***************************************************************************)
EXTENDS BoundedQueue

CONSTANTS Depth,   \* parameter Depth
          Data,    \* what wdata_i can carry
          Zero     \* rdata_o of an empty FIFO (OutputZeroIfEmpty = 1)

ASSUME FifoAssumption == Depth \in Nat \ {0}

VARIABLES wptr, rptr,  \* fifo_wptr, fifo_rptr
          storage,     \* the Depth entries
          under_rst    \* module under reset flag

fifoVars == <<wptr, rptr, storage, under_rst>>

Index == 0 .. Depth - 1
Pointer == [msb : {0, 1}, value : Index]
Origin == [msb |-> 0, value |-> 0]

-----------------------------------------------------------------------------
(* Combinational outputs.                                                  *)

(* Faulty variant of full: tells one entry late.                           *)
fullLate == wptr.msb # rptr.msb /\ wptr.value = rptr.value + 1

full == wptr = [rptr EXCEPT !.msb = 1 - @]
fifo_empty == wptr = rptr
(* Faulty variant of wready_o: the flag of the first cycle is forgotten.   *)
wreadyInReset == ~full

wready_o == ~full /\ ~under_rst
rvalid_o == ~fifo_empty /\ ~under_rst
rdata_o == IF fifo_empty THEN Zero ELSE storage[rptr.value]

(* Faulty variant of depth_o: wraps at the next power of two.              *)
depthOfPowerOfTwo ==
  IF full THEN Depth
  ELSE IF wptr.msb = rptr.msb THEN wptr.value - rptr.value
  ELSE Depth + 1 - rptr.value + wptr.value

depth_o ==
  IF full THEN Depth
  ELSE IF wptr.msb = rptr.msb THEN wptr.value - rptr.value
  ELSE Depth - rptr.value + wptr.value

-----------------------------------------------------------------------------

FifoInit ==
  /\ wptr = Origin
  /\ rptr = Origin
  /\ storage \in [Index -> Data]   \* the entries have no reset value
  /\ under_rst = TRUE

(* Faulty variant of Advance: wraps one entry late.                        *)
AdvanceLate(ptr) ==
  IF ptr.value = Depth THEN [msb |-> 1 - ptr.msb, value |-> 0]
  ELSE [ptr EXCEPT !.value = @ + 1]

Advance(ptr) ==
  IF ptr.value = Depth - 1 THEN [msb |-> 1 - ptr.msb, value |-> 0]
  ELSE [ptr EXCEPT !.value = @ + 1]

Offers == {<< >>} \cup {<<d>> : d \in Data}

ClockEdge(offer, rready) ==
  LET incr_wptr == offer # << >> /\ wready_o
      incr_rptr == rready /\ rvalid_o
  IN /\ wptr' = IF incr_wptr THEN Advance(wptr) ELSE wptr
     /\ rptr' = IF incr_rptr THEN Advance(rptr) ELSE rptr
     /\ storage' = IF incr_wptr
                   THEN [storage EXCEPT ![wptr.value] = Head(offer)]
                   ELSE storage
     /\ under_rst' = FALSE

Reset ==
  /\ wptr' = Origin
  /\ rptr' = Origin
  /\ under_rst' = TRUE
  /\ UNCHANGED storage

FifoNext == Reset \/ \E offer \in Offers, rready \in BOOLEAN : ClockEdge(offer, rready)

FifoSpec == FifoInit /\ [][FifoNext]_fifoVars

-----------------------------------------------------------------------------
(* The abstract queue the pointers stand for: depth_o entries from the     *)
(* read pointer on, wrapping at Depth (not at a power of two).             *)

Entry(k) == IF rptr.value + k >= Depth THEN rptr.value + k - Depth ELSE rptr.value + k
Contents == [k \in 1 .. depth_o |-> storage[Entry(k - 1)]]

Queue == INSTANCE SyncQueue WITH queue <- Contents

-----------------------------------------------------------------------------

FifoTypeOK ==
  /\ wptr \in Pointer
  /\ rptr \in Pointer
  /\ storage \in [Index -> Data]
  /\ under_rst \in BOOLEAN

(* The write pointer is never more than one lap ahead of the read pointer  *)
(* nor behind it: with equal wrap bits it is not behind, with different    *)
(* wrap bits it has not overtaken.                                         *)
PointersOrdered ==
  IF wptr.msb = rptr.msb THEN rptr.value <= wptr.value ELSE wptr.value <= rptr.value

(* The occupancy flags software and the FSMs rely on agree with the entries*)
(* held, at every depth (127 is no power of two): full_o exactly at Depth  *)
(* entries, fifo_empty exactly at none, rvalid_o exactly when there is one *)
(* and reset is over, depth_o in range (depthShallNotExceedParamDepth),    *)
(* and rdata_o the oldest.                                                 *)
FlagsAgree ==
  /\ depth_o \in 0 .. Depth
  /\ full <=> Len(Contents) = Depth
  /\ fifo_empty <=> Contents = << >>
  /\ rvalid_o <=> Contents # << >> /\ ~under_rst
  /\ ~fifo_empty => rdata_o = Head(Contents)

(* The ring buffer is a bounded queue: nothing written is lost, repeated   *)
(* or reordered, through any number of wraps and resets.                   *)
ImplementsQueue == Queue!Spec

=============================================================================
