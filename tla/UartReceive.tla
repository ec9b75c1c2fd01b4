---------------------------- MODULE UartReceive ----------------------------
(***************************************************************************)
(* The UART receiver between a line and a program: a sender that puts      *)
(* frames, frames with a broken stop bit and short glitches on the line at *)
(* any moment, and uart_in fetching bytes.  Every step is a clock edge.    *)
(***************************************************************************)
EXTENDS UartRx, SequencesExt

CONSTANTS BitTimes,     \* clock cycles that a bit of the sender may take
          MinGap,       \* idle cycles the sender keeps at least after what it sent
          GlitchCycles, \* length of a glitch, below half a bit
          MaxFrames     \* bound: things put on the line

(* A bit outlasts the synchroniser, and the sender's clock is close enough *)
(* to this one: the middle of the stop bit as the receiver counts is       *)
(* within the sender's stop bit.                                           *)
ASSUME UartReceiveAssumption ==
  /\ ClocksPerBaud > 3
  /\ \A b \in BitTimes :
       /\ b \in Nat
       /\ (NumBits + 1) * b < (NumBits + 2) * ClocksPerBaud - ClocksPerBaud \div 2
       /\ (NumBits + 2) * ClocksPerBaud - ClocksPerBaud \div 2 < (NumBits + 2) * b
  /\ MinGap \in Nat
  /\ GlitchCycles \in Nat \ {0} /\ GlitchCycles < ClocksPerBaud - ClocksPerBaud \div 2
  /\ MaxFrames \in Nat

VARIABLES signal,    \* what the sender puts on the line: kind, byte and cycles per bit
          t,         \* cycles since it began; 0 when the line is free
          frames,    \* things put on the line so far
          sent,      \* history: bytes of sound frames, in order
          coincided, \* history: the last start edge came in the cycle of a tick
          slipped,   \* history: such a signal was too short for the receiver
          arrived,   \* history: bytes offered to the receive FIFO
          kept,      \* history: which of them found room, as indices of arrived
          dropped,   \* history: which of them found it full
          pc,        \* where uart_in is
          res,       \* its result, << >> for UART_EOF
          got        \* history: bytes uart_in returned

lineVars == <<signal, t, frames, sent, coincided, slipped>>
vars == <<rxVars, lineVars, arrived, kept, dropped, pc, res, got>>

Signals == [kind : {"frame", "bad_stop", "glitch"}, byte : Byte, clocks : BitTimes]

(* Idle cycles after the signal at least: a stop bit that is low must be   *)
(* over before anything can begin.                                         *)
Gap == IF signal.kind = "bad_stop" /\ MinGap = 0 THEN 1 ELSE MinGap

(* Cycles the signal takes the line for, and the level it then has.        *)
Duration == (IF signal.kind = "glitch" THEN 1 ELSE NumBits + 2) * signal.clocks + Gap

Level ==
  LET slot == (t - 1) \div signal.clocks
  IN CASE t = 0 -> 1
       [] t > 0 /\ signal.kind = "glitch" -> IF t <= GlitchCycles THEN 0 ELSE 1
       [] t > 0 /\ signal.kind # "glitch" /\ slot = 0 -> 0
       [] t > 0 /\ signal.kind # "glitch" /\ slot \in 1 .. NumBits -> signal.byte[slot]
       [] t > 0 /\ signal.kind = "bad_stop" /\ slot = NumBits + 1 -> 0
       [] OTHER -> 1

TypeOK ==
  /\ RxTypeOK
  /\ signal \in Signals /\ t \in 0 .. Duration
  /\ frames \in 0 .. MaxFrames
  /\ {sent, arrived, got} \subseteq Seq(Byte)
  /\ coincided \in BOOLEAN /\ slipped \in BOOLEAN
  /\ kept \in Seq(1 .. Len(arrived)) /\ dropped \subseteq 1 .. Len(arrived)
  /\ pc \in {"away", "status", "fetch", "take"}
  /\ res \in Seq(Byte) /\ Len(res) <= 1

Init ==
  /\ RxInit
  /\ signal \in [kind : {"frame"}, byte : {Zeros}, clocks : BitTimes]
  /\ t = 0 /\ frames = 0
  /\ coincided = FALSE /\ slipped = FALSE
  /\ sent = << >> /\ arrived = << >> /\ kept = << >> /\ dropped = {} /\ got = << >>
  /\ pc = "away" /\ res = << >>

-----------------------------------------------------------------------------
(* The sender moves once per clock cycle.                                  *)

Begin(kind, byte, clocks) ==
  /\ t = 0 \/ t = Duration
  /\ frames < MaxFrames
  /\ signal' = [kind |-> kind, byte |-> byte, clocks |-> clocks]
  /\ t' = 1
  /\ frames' = frames + 1
  /\ sent' = IF kind = "frame" THEN Append(sent, byte) ELSE sent

Continue ==
  /\ t' = IF t = 0 \/ t = Duration THEN 0 ELSE t + 1
  /\ UNCHANGED <<signal, frames, sent>>

Sender ==
  \/ Continue
  \/ \E clocks \in BitTimes :
       \/ \E kind \in {"frame", "bad_stop"}, byte \in Byte : Begin(kind, byte, clocks)
       \/ Begin("glitch", Zeros, clocks)

(* After a start edge in the cycle of a tick the receiver is half a bit    *)
(* late for the whole frame. It then samples the bits of a faster sender   *)
(* past their ends, and after one as fast that leaves no gap it is not yet *)
(* back in IDLE when the next start edge comes.                            *)
Slip ==
  /\ coincided' = IF rx_start THEN rx_baud_tick ELSE coincided
  /\ slipped' = \/ slipped
                \/ rx_start /\ rx_baud_tick /\ signal.clocks < ClocksPerBaud
                \/ /\ t = Duration /\ t' = 1 /\ Gap = 0
                   /\ coincided /\ signal.clocks = ClocksPerBaud

Edge(rx_fifo_rready) ==
  /\ RxEdge(Level, rx_fifo_rready)
  /\ Sender
  /\ Slip
  /\ LET full == Len(rx_fifo) = RxFifoDepth
         next == Len(arrived) + 1
     IN IF rx_fifo_wvalid
        THEN /\ arrived' = Append(arrived, rx_current_byte_q)
             /\ kept' = IF full THEN kept ELSE Append(kept, next)
             /\ dropped' = IF full THEN dropped \cup {next} ELSE dropped
        ELSE UNCHANGED <<arrived, kept, dropped>>

-----------------------------------------------------------------------------
(* uart_in: the status register is sampled in the cycle of the request and *)
(* answered in the next, and so is the data register, which it also pops.  *)

Elsewhere == Edge(FALSE) /\ UNCHANGED <<pc, res, got>>

Call == pc = "away" /\ pc' = "status" /\ Edge(FALSE) /\ UNCHANGED <<res, got>>

ReadStatus ==
  /\ pc = "status"
  /\ pc' = IF rx_fifo_empty THEN "away" ELSE "fetch"
  /\ Edge(FALSE) /\ UNCHANGED <<res, got>>

(* Faulty variant of ReadData: the read leaves the byte in the FIFO.       *)
ReadDataKept ==
  /\ pc = "fetch" /\ pc' = "take"
  /\ res' = <<rx_fifo_rdata>>
  /\ Edge(FALSE) /\ UNCHANGED got

ReadData ==
  /\ pc = "fetch" /\ pc' = "take"
  /\ res' = <<rx_fifo_rdata>>
  /\ Edge(TRUE) /\ UNCHANGED got

Return ==
  /\ pc = "take" /\ pc' = "away"
  /\ got' = got \o res /\ res' = << >>
  /\ Edge(FALSE)

Next == Elsewhere \/ Call \/ ReadStatus \/ ReadData \/ Return

Spec == Init /\ [][Next]_vars
FairSpec == Spec /\ WF_vars(Next)

-----------------------------------------------------------------------------

(* What is offered to the FIFO is what sound frames carried, in order:     *)
(* glitches and frames with a broken stop bit leave nothing behind, and a  *)
(* sampling instant never falls into a neighbouring bit, whatever the      *)
(* phase of the free-running baud counter when the start bit arrives.  The *)
(* exception is a start edge in the cycle of a tick, when the sender does  *)
(* not make up for it by a gap or a slower clock.                          *)
OnlySentBytes == slipped \/ IsPrefix(arrived, sent)

(* What the program has, and has waiting, is what arrived, each byte once  *)
(* and in order, except for the bytes that found the FIFO full.            *)
ReadOnceInOrder ==
  /\ got \o res \o rx_fifo = [i \in 1 .. Len(kept) |-> arrived[kept[i]]]
  /\ \A i \in 2 .. Len(kept) : kept[i - 1] < kept[i]
  /\ {kept[i] : i \in 1 .. Len(kept)} = 1 .. Len(arrived) \ dropped

(* No sound frame is missed, with the same exception; frames may touch.    *)
FramesArrive == \A n \in 1 .. MaxFrames : (Len(sent) = n) ~> (Len(arrived) >= n \/ slipped)

(* What the comment on rx_baud_counter_d promises of the data bits: they   *)
(* are sampled in the middle, so at least not in the first or last clock   *)
(* cycle of a bit.  The synchroniser delays the line by three cycles.      *)
SampledInTheMiddle ==
  rx_baud_tick /\ rx_state_q = "PROC" /\ signal.kind # "glitch" /\ t > 3
    => (t - 4) % signal.clocks \notin {0, signal.clocks - 1}

=============================================================================
