------------------------------- MODULE LcdSpi -------------------------------
(***************************************************************************)
(* The LCD demo on the SPI peripheral: the driver's gpio_write (the DC and *)
(* CS pins) and spi_write, the peripheral, and a display that takes a bit  *)
(* on every falling edge of the serial clock.  Every step is a clock edge, *)
(* during which the driver does at most one bus access.                    *)
(***************************************************************************)
EXTENDS SpiTop, SequencesExt

CONSTANTS Payloads,   \* byte strings the driver is asked to send
          MaxCalls    \* bound: spi_write calls made

ASSUME LcdSpiAssumption == Payloads \subseteq Seq(Byte) /\ MaxCalls \in Nat

VARIABLES pc,        \* where the driver is
          pins,      \* GPIO outputs [dc, cs] to the display
          left,      \* bytes spi_write has still to push
          calls,     \* spi_write calls made
          sent,      \* history: [byte, pins] pushed by the driver
          taken,     \* history: [byte, pins] assembled by the display
          partial,   \* bits the display holds of the byte under way
          fed        \* bits the display drove for the byte under way

swVars == <<pc, pins, left, calls>>
peerVars == <<taken, partial, fed>>
vars == <<spiVars, swVars, sent, peerVars>>

Pins == [dc : BOOLEAN, cs : BOOLEAN]

TypeOK ==
  /\ SpiTypeOK
  /\ pc \in {"main", "set_cs", "poll_full", "see_full", "push", "poll_empty", "see_empty"}
  /\ pins \in Pins
  /\ left \in Seq(Byte)
  /\ calls \in 0 .. MaxCalls
  /\ sent \in Seq([byte : Byte, pins : Pins]) /\ taken \in Seq([byte : Byte, pins : Pins])
  /\ partial \in Seq(Bit) /\ fed \in Seq(Bit)

Init ==
  /\ SpiInit
  /\ pc = "main" /\ left = << >> /\ calls = 0
  /\ pins = [dc |-> FALSE, cs |-> FALSE]
  /\ sent = << >> /\ taken = << >> /\ partial = << >> /\ fed = << >>

-----------------------------------------------------------------------------
(* The display: it watches the pads across the edge, and drives one bit.   *)
Display(spi_rx_i) ==
  IF sck_o = 1 /\ sck_o' = 0
  THEN LET byte == Append(partial, spi_tx_o)
           bits == Append(fed, spi_rx_i)
           last == Len(byte) = NumBits
       IN /\ partial' = IF last THEN << >> ELSE byte
          /\ taken' = IF last THEN Append(taken, [byte |-> byte, pins |-> pins]) ELSE taken
          /\ fed' = IF Len(fed) = NumBits THEN <<spi_rx_i>> ELSE bits
  ELSE UNCHANGED peerVars

Edge(offer) == \E spi_rx_i \in Bit : ClockEdge(offer, spi_rx_i) /\ Display(spi_rx_i)

Goto(from, to) == pc = from /\ pc' = to

-----------------------------------------------------------------------------
(* The driver.                                                             *)

(* A cycle the CPU spends on something else.                               *)
Compute == Edge(<< >>) /\ UNCHANGED <<swVars, sent>>

(* gpio_write: DC first, then CS, each a read and a write of GPIO_OUT; the *)
(* write is what the pads see.                                             *)
SetDc(dc) ==
  /\ calls < MaxCalls
  /\ Goto("main", "set_cs")
  /\ pins' = [pins EXCEPT !.dc = dc]
  /\ Edge(<< >>) /\ UNCHANGED <<left, calls, sent>>

(* Then spi_write, or gpio_write alone as at the end of a drawing.         *)
SetCs(cs) ==
  /\ pc = "set_cs"
  /\ pins' = [pins EXCEPT !.cs = cs]
  /\ \/ /\ left' \in Payloads
        /\ calls' = calls + 1
        /\ pc' = IF left' = << >> THEN "poll_empty" ELSE "poll_full"
     \/ pc' = "main" /\ UNCHANGED <<left, calls>>
  /\ Edge(<< >>) /\ UNCHANGED sent

(* spi_send_byte_blocking: a status read answered a cycle later ...        *)
PollFull == Goto("poll_full", "see_full") /\ Edge(<< >>) /\ UNCHANGED <<pins, left, calls, sent>>

SeeFull ==
  /\ Goto("see_full", IF Status.full THEN "poll_full" ELSE "push")
  /\ Edge(<< >>) /\ UNCHANGED <<pins, left, calls, sent>>

(* ... and the write to SpiTxReg.                                          *)
Push ==
  /\ Goto("push", IF Len(left) > 1 THEN "poll_full" ELSE "poll_empty")
  /\ left' = Tail(left)
  /\ sent' = Append(sent, [byte |-> Head(left), pins |-> pins])
  /\ Edge(<<Head(left)>>) /\ UNCHANGED <<pins, calls>>

(* spi_write returns when the status register says the FIFO is empty.      *)
PollEmpty == Goto("poll_empty", "see_empty") /\ Edge(<< >>) /\ UNCHANGED <<pins, left, calls, sent>>

SeeEmpty ==
  /\ Goto("see_empty", IF Status.empty THEN "main" ELSE "poll_empty")
  /\ Edge(<< >>) /\ UNCHANGED <<pins, left, calls, sent>>

Driver ==
  \/ \E b \in BOOLEAN : SetDc(b) \/ SetCs(b)
  \/ PollFull \/ SeeFull \/ Push \/ PollEmpty \/ SeeEmpty

Next == Compute \/ Driver

(* The clock never stops, and the CPU gets on with a started call.         *)
Spec == Init /\ [][Next]_vars
FairSpec ==
  /\ Spec
  /\ WF_vars(Next)
  /\ WF_vars(PollFull) /\ WF_vars(SeeFull) /\ WF_vars(Push)
  /\ WF_vars(PollEmpty) /\ WF_vars(SeeEmpty)

-----------------------------------------------------------------------------

(* The display takes exactly the bytes the driver pushed, in order, each   *)
(* under the DC and CS levels the driver had set for it: no byte is lost   *)
(* to a full FIFO, sent twice by a long STOP, or latched as the wrong kind *)
(* of word because the pins moved before it was out.                       *)
TakenAsSent == IsPrefix(taken, sent)

(* DC and CS move only while no bit is on its way: an empty FIFO, which is *)
(* all spi_write waits for, means the last byte has left the shifter.      *)
PinsMoveWhenQuiet ==
  [][pins' # pins => Len(taken) = Len(sent) /\ partial = << >> /\ sck_o = CPOL]_vars

(* The byte presented at STOP is the one the display drove while its own   *)
(* byte was being sent, whatever the latch held before.                    *)
ReceivedAsDriven == state_q = "STOP" => byte_data_o = fed

(* Every spi_write returns: the transmitter drains the FIFO by itself.     *)
CallsReturn == (pc # "main") ~> (pc = "main")

(* What the comment on gen_cpha says of the outgoing data: within a byte it*)
(* changes only on a rising edge of the serial clock.                      *)
ShiftedOutOnRisingEdge ==
  [][state_q = "SEND" /\ state_q' = "SEND" /\ spi_tx_o' # spi_tx_o
       => sck_o = 0 /\ sck_o' = 1]_vars

=============================================================================
