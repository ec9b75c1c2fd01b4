---------------------------- MODULE UartTransmit ----------------------------
(***************************************************************************)
(* uart_out writing to the transmitter, and an ideal listener on the line  *)
(* that waits for a start bit and then samples the middle of each bit.     *)
(* Every step is a clock edge.                                             *)
(***************************************************************************)
EXTENDS UartTx, SequencesExt

CONSTANT MaxBytes   \* bound: bytes the program writes

VARIABLES pc,       \* where uart_out is
          full,     \* TX_FULL as uart_out last read it
          written,  \* history: bytes uart_out wrote
          tick,     \* the listener's cycles since the start edge, 0 if none
          bits,     \* what it sampled in this frame
          heard     \* history: bytes of the frames it took

vars == <<txVars, pc, full, written, tick, bits, heard>>

TypeOK ==
  /\ TxTypeOK
  /\ pc \in {"away", "status", "see", "write"}
  /\ full \in BOOLEAN
  /\ {written, heard} \subseteq Seq(Byte)
  /\ tick \in 0 .. (NumBits + 2) * ClocksPerBaud
  /\ bits \in Seq(Bit)

Init ==
  /\ TxInit
  /\ pc = "away" /\ full = FALSE /\ written = << >>
  /\ tick = 0 /\ bits = << >> /\ heard = << >>

-----------------------------------------------------------------------------
(* The listener hears a byte only in a frame whose start bit is low and    *)
(* whose stop bit is high.                                                 *)

Middle == tick % ClocksPerBaud = ClocksPerBaud \div 2
Sampled == Append(bits, uart_tx_o)

Listen ==
  CASE tick = 0 /\ uart_tx_o = 1 -> UNCHANGED <<tick, bits, heard>>
    [] (tick = 0 /\ uart_tx_o = 0) \/ (tick > 0 /\ ~Middle) ->
         tick' = tick + 1 /\ UNCHANGED <<bits, heard>>
    [] tick > 0 /\ Middle /\ Len(bits) < NumBits + 1 ->
         tick' = tick + 1 /\ bits' = Sampled /\ UNCHANGED heard
    [] tick > 0 /\ Middle /\ Len(bits) = NumBits + 1 ->
         /\ tick' = 0 /\ bits' = << >>
         /\ heard' = IF bits[1] = 0 /\ uart_tx_o = 1 THEN Append(heard, Tail(bits)) ELSE heard

Edge(offer) == TxEdge(offer) /\ Listen

-----------------------------------------------------------------------------
(* uart_out: the status register is sampled in the cycle of its request,   *)
(* and looked at, and acted on, any time later.                            *)

Elsewhere == Edge(<< >>) /\ UNCHANGED <<pc, full, written>>

Call ==
  /\ pc = "away" /\ Len(written) < MaxBytes /\ pc' = "status"
  /\ Edge(<< >>) /\ UNCHANGED <<full, written>>

ReadStatus ==
  /\ pc = "status" /\ pc' = "see"
  /\ full' = tx_fifo_full
  /\ Edge(<< >>) /\ UNCHANGED written

(* Faulty variants of SeeStatus: the flag ignored, and read upside down.   *)
SeeStatusIgnored ==
  /\ pc = "see" /\ pc' = "write"
  /\ Edge(<< >>) /\ UNCHANGED <<full, written>>
SeeStatusInverted ==
  /\ pc = "see" /\ pc' = IF full THEN "write" ELSE "status"
  /\ Edge(<< >>) /\ UNCHANGED <<full, written>>

SeeStatus ==
  /\ pc = "see" /\ pc' = IF full THEN "status" ELSE "write"
  /\ Edge(<< >>) /\ UNCHANGED <<full, written>>

Write(byte) ==
  /\ pc = "write" /\ pc' = "away"
  /\ written' = Append(written, byte)
  /\ Edge(<<byte>>) /\ UNCHANGED full

Next == Elsewhere \/ Call \/ ReadStatus \/ SeeStatus \/ \E byte \in Byte : Write(byte)

Spec == Init /\ [][Next]_vars
FairSpec == Spec /\ WF_vars(Next) /\ WF_vars(ReadStatus) /\ WF_vars(SeeStatus)
                 /\ WF_vars(\E byte \in Byte : Write(byte))

-----------------------------------------------------------------------------

(* The line carries the bytes uart_out wrote, whole and in order, even when*)
(* frames follow each other without an idle bit or start from idle at any  *)
(* phase of the baud counter.                                              *)
HeardAsWritten == IsPrefix(heard, written)

(* Every byte written is heard: none was dropped at a full FIFO, although  *)
(* the program acts on a status that is cycles old, and none is stuck in   *)
(* the FIFO.                                                               *)
EveryByteHeard == \A n \in 1 .. MaxBytes : (Len(written) = n) ~> (Len(heard) >= n)

(* uart_out returns: a full FIFO drains without help from the program.     *)
CallsReturn == (pc # "away") ~> (pc = "away")

=============================================================================
