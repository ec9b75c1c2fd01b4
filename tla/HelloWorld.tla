----------------------------- MODULE HelloWorld -----------------------------
(***************************************************************************)
(* The hello_world demo: main, its two interrupt handlers, the vectors     *)
(* they are installed in, and the UART they share. A step is one access or *)
(* less; the handlers come between any two of main's. A text that is       *)
(* printed is one character; the timer is the one of TimerDelay, reduced   *)
(* to its interrupt.                                                       *)
(***************************************************************************)
EXTENDS Integers, SequencesExt

CONSTANTS
  Chars,          \* what can be typed at the other end of the UART
  MaxChars,       \* bound: characters typed
  TxDepth,        \* entries of the FIFOs: 127 in the source
  RxDepth,
  Links,          \* maps from a handler's interrupt to how far from its vector it is linked
  Digits,         \* hex digits of a word: 8 in the source
  DigitBits,      \* bits of a digit: 4 in the source
  Inputs,         \* what the buttons and switches can show
  Leds,           \* green LEDs, above the LCD's four outputs: 4 in the source
  Channels,       \* RGB channels that make a colour: 3 in the source
  NumPwm,         \* NUM_PWM_MODULES: 12 in the source
  Counter,        \* count of a lit channel: UINT8_MAX in the source
  FullBrightness, \* 5 in the source
  Times           \* bound: time_elapsed counts modulo Times

ASSUME HelloAssumption ==
  /\ "LF" \notin Chars
  /\ DigitBits \in 1 .. 4   \* Glyph has sixteen
  /\ {MaxChars, Digits, Leds, Channels, NumPwm, Counter, FullBrightness} \subseteq Nat \ {0}
  /\ TxDepth \in Nat \ {0} /\ RxDepth \in Nat \ {0}
  /\ Links \subseteq [{7, 16} -> {offset \in -(2^19) .. 2^19 - 1 : offset % 2 = 0}]
  /\ Inputs \subseteq 0 .. 2^(Digits * DigitBits) - 1
  /\ Times \in 3 .. 2^(Digits * DigitBits)

VARIABLES
  pc,           \* where main is
  handler,      \* the handler that interrupts it, or "none"
  todo, ready,  \* of main and of the handler: what uart_out still has to send,
                \* and whether it has seen room for the first of it
  mie,          \* the interrupts enabled, by number
  mstatus_mie,  \* the global enable bit
  vectors,      \* the jumps installed, by interrupt
  entry,        \* where the linker put the handler of each interrupt
  tx, rx,       \* bytes in the transmit FIFO; the receive FIFO
  typed,        \* characters typed so far
  timer_irq,    \* the timer's interrupt line
  time_elapsed, last_elapsed_time,
  in_val,
  gpio_out, pwm,
  module,       \* the PWM module main's loop is at: its i
  brightness, ascending, color,
  line          \* history: what was sent since the last line feed

coreVars == <<handler, mie, mstatus_mie, vectors, entry>>
uartVars == <<todo, ready, tx, line>>
inputVars == <<rx, typed, timer_irq>>
lightVars == <<gpio_out, pwm, module, brightness, ascending, color>>
timeVars == <<time_elapsed, last_elapsed_time, in_val>>
vars == <<pc, coreVars, uartVars, inputVars, lightVars, timeVars>>

UartIrq == 16
TimerIrq == 7
Irqs == {UartIrq, TimerIrq}
FirstLed == 16
Mod(n, bits) == n % 2^bits

-----------------------------------------------------------------------------
(* The core: install_exception_handler writes a jal to the handler into its*)
(* vector, field by field; the core adds the fields up again. An interrupt *)
(* enabled in mie wakes it from wfi, and with the global bit is taken, UART*)
(* first, before main's next step. Traps clear that bit and mret sets it.  *)

\* Faulty variant of jmp_ins: without the line for imm[11].
jmpInsWithout11(offset) ==
  [imm10_1 |-> Mod(offset \div 2, 10), imm11 |-> 0,
   imm19_12 |-> Mod(offset \div 2^12, 8), imm20 |-> Mod(offset \div 2^20, 1)]

jmp_ins(offset) ==
  [imm10_1 |-> Mod(offset \div 2, 10), imm11 |-> Mod(offset \div 2^11, 1),
   imm19_12 |-> Mod(offset \div 2^12, 8), imm20 |-> Mod(offset \div 2^20, 1)]

\* How far the core jumps.
Target(ins) == 2 * ins.imm10_1 + 2^11 * ins.imm11 + 2^12 * ins.imm19_12 - 2^20 * ins.imm20

TooFar(offset) == offset >= 2^19 \/ offset < -(2^19)

Install(num) ==
  vectors' = IF num >= 32 \/ TooFar(entry[num]) THEN vectors
             ELSE [n \in DOMAIN vectors \cup {num} |-> IF n = num THEN jmp_ins(entry[num]) ELSE vectors[n]]

\* From a vector that is not installed the core enters simple_exc_handler and
\* its endless loop, from a wrong jump anything: both count as lost.
Entered(num) ==
  CASE num \notin DOMAIN vectors \/ Target(vectors[num]) # entry[num] -> "lost"
    [] OTHER -> IF num = UartIrq THEN "uart" ELSE "timer"

irqs == {num \in mie : (num = UartIrq /\ rx # << >>) \/ (num = TimerIrq /\ timer_irq)}
handle_irq == mstatus_mie /\ irqs # {}
running == IF handler = "none" THEN "main" ELSE "handler"

Interrupt ==
  /\ irqs # {} /\ handler = "none" /\ (mstatus_mie \/ pc = "asleep")
  /\ handler' = IF mstatus_mie THEN Entered(IF UartIrq \in irqs THEN UartIrq ELSE TimerIrq) ELSE "none"
  /\ mstatus_mie' = FALSE
  /\ pc' = IF pc = "asleep" THEN "check" ELSE pc
  /\ UNCHANGED <<mie, vectors, entry, uartVars, inputVars, lightVars, timeVars>>

-----------------------------------------------------------------------------
(* The UART: uart_out polls the status until it shows room, and then writes*)
(* the byte. A byte written to a full FIFO, and one received into one, is  *)
(* lost.                                                                   *)

Returning == todo[running] = << >>

Poll ==
  /\ ~Returning /\ ~ready[running] /\ ~(running = "main" /\ handle_irq)
  /\ tx < TxDepth
  /\ ready' = [ready EXCEPT ![running] = TRUE]
  /\ UNCHANGED <<pc, coreVars, todo, tx, line, inputVars, lightVars, timeVars>>

Write ==
  /\ ready[running] /\ ~(running = "main" /\ handle_irq)
  /\ LET c == Head(todo[running])
     IN  IF tx < TxDepth
         THEN tx' = tx + 1 /\ line' = IF c = "LF" THEN << >> ELSE Append(line, c)
         ELSE UNCHANGED <<tx, line>>
  /\ todo' = [todo EXCEPT ![running] = Tail(@)]
  /\ ready' = [ready EXCEPT ![running] = FALSE]
  /\ UNCHANGED <<pc, coreVars, inputVars, lightVars, timeVars>>

Drain ==
  /\ tx > 0 /\ tx' = tx - 1
  /\ UNCHANGED <<pc, coreVars, todo, ready, line, inputVars, lightVars, timeVars>>

Type(c) ==
  /\ typed < MaxChars /\ typed' = typed + 1
  /\ rx' = IF Len(rx) < RxDepth THEN Append(rx, c) ELSE rx
  /\ UNCHANGED <<pc, coreVars, uartVars, timer_irq, lightVars, timeVars>>

\* Ticks are 5000000 cycles apart, more than main's turn takes, so at most one
\* falls between two sleeps.
Tick ==
  /\ ~timer_irq /\ (time_elapsed = last_elapsed_time \/ pc = "asleep")
  /\ timer_irq' = TRUE
  /\ UNCHANGED <<pc, coreVars, uartVars, rx, typed, lightVars, timeVars>>

-----------------------------------------------------------------------------
(* The handlers: test_uart_irq_handler echoes until nothing is received;   *)
(* simple_timer_handler sets the next tick, which lowers the interrupt.    *)

Echo ==
  /\ handler = "uart" /\ Returning /\ rx # << >>
  /\ rx' = Tail(rx)
  /\ todo' = [todo EXCEPT !["handler"] = <<Head(rx), "CR", "LF">>]
  /\ UNCHANGED <<pc, coreVars, ready, tx, line, typed, timer_irq, lightVars, timeVars>>

\* Faulty variant of Mret: a handler compiled without the interrupt attribute.
MretPlain == handler' = "none" /\ UNCHANGED <<mstatus_mie, pc, mie, vectors, entry, uartVars>>

Mret == handler' = "none" /\ mstatus_mie' = TRUE /\ UNCHANGED <<pc, mie, vectors, entry, uartVars>>

EchoDone ==
  /\ handler = "uart" /\ Returning /\ rx = << >>
  /\ Mret /\ UNCHANGED <<inputVars, lightVars, timeVars>>

Count ==
  /\ handler = "timer"
  /\ timer_irq' = FALSE /\ time_elapsed' = (time_elapsed + 1) % Times
  /\ Mret /\ UNCHANGED <<rx, typed, lightVars, last_elapsed_time, in_val>>

-----------------------------------------------------------------------------
(* main. The first steps set the demo up; the loop begins at "check".      *)

Step(here, there) ==
  /\ pc = here /\ pc' = there
  /\ handler = "none" /\ ~handle_irq /\ Returning

InstallUart ==
  /\ Step("install uart", "enable uart") /\ Install(UartIrq)
  /\ UNCHANGED <<handler, mie, mstatus_mie, entry, uartVars, inputVars, lightVars, timeVars>>

EnableInterrupts(num, here, there) ==
  /\ Step(here, there) /\ mie' = mie \cup {num}
  /\ UNCHANGED <<handler, mstatus_mie, vectors, entry, uartVars, inputVars, lightVars, timeVars>>

SetGlobalInterruptEnable(enable, here, there) ==
  /\ Step(here, there) /\ mstatus_mie' = enable
  /\ UNCHANGED <<handler, mie, vectors, entry, uartVars, inputVars, lightVars, timeVars>>

\* timer_init.
InstallTimer ==
  /\ Step("install timer", "start timer") /\ Install(TimerIrq)
  /\ UNCHANGED <<handler, mie, mstatus_mie, entry, uartVars, inputVars, lightVars, timeVars>>

\* timer_enable up to its two enables.
StartTimer ==
  /\ Step("start timer", "enable timer")
  /\ time_elapsed' = 0 /\ timer_irq' = FALSE
  /\ UNCHANGED <<coreVars, uartVars, rx, typed, lightVars, last_elapsed_time, in_val>>

FirstTime ==
  /\ Step("first time", "first led") /\ last_elapsed_time' = time_elapsed
  /\ UNCHANGED <<coreVars, uartVars, inputVars, lightVars, time_elapsed, in_val>>

SetOutputs ==
  /\ Step("first led", "check") /\ gpio_out' = FirstLed
  /\ UNCHANGED <<coreVars, uartVars, inputVars, pwm, module, brightness, ascending, color, timeVars>>

UartEnableRxInt ==
  \/ EnableInterrupts(UartIrq, "enable uart", "enable global")
  \/ SetGlobalInterruptEnable(TRUE, "enable global", "install timer")

Startup ==
  \/ InstallUart
  \/ UartEnableRxInt
  \/ InstallTimer \/ StartTimer
  \/ EnableInterrupts(TimerIrq, "enable timer", "enable again")
  \/ SetGlobalInterruptEnable(TRUE, "enable again", "first time")
  \/ FirstTime \/ SetOutputs

Check ==
  /\ Step("check", IF time_elapsed # last_elapsed_time THEN "mask" ELSE "wfi")
  /\ last_elapsed_time' = time_elapsed
  /\ UNCHANGED <<coreVars, uartVars, inputVars, lightVars, time_elapsed, in_val>>

\* Faulty variant of Mask: main prints with interrupts on.
MaskForgotten ==
  /\ Step("mask", "hello")
  /\ UNCHANGED <<coreVars, uartVars, inputVars, lightVars, timeVars>>

Mask == SetGlobalInterruptEnable(FALSE, "mask", "hello")

\* Faulty variant of Unmask: main goes on without interrupts.
UnmaskForgotten ==
  /\ Step("unmask", "leds")
  /\ UNCHANGED <<coreVars, uartVars, inputVars, lightVars, timeVars>>

Unmask == SetGlobalInterruptEnable(TRUE, "unmask", "leds")

putchar(c) == IF c = "LF" THEN <<"CR", "LF">> ELSE <<c>>
puts(str) == FlattenSeq([i \in DOMAIN str |-> putchar(str[i])])

\* '0' + d below ten, 'A' - 10 + d from there.
Glyph(d) == <<"0", "1", "2", "3", "4", "5", "6", "7", "8", "9", "A", "B", "C", "D", "E", "F">>[d + 1]

\* The digits puthex prints: the top one each time, then h moves up by a digit.
puthex(h) ==
  LET word == Digits * DigitBits
      left[i \in 1 .. Digits] == IF i = 1 THEN h ELSE Mod(left[i - 1] * 2^DigitBits, word)
  IN  [i \in 1 .. Digits |-> Glyph(left[i] \div 2^(word - DigitBits))]

Send(here, there, chars) ==
  /\ Step(here, there) /\ todo' = [todo EXCEPT !["main"] = chars]
  /\ UNCHANGED <<coreVars, ready, tx, line, inputVars, lightVars, timeVars>>

ReadGpio ==
  /\ Step("read input", "value") /\ in_val' \in Inputs
  /\ UNCHANGED <<coreVars, uartVars, inputVars, lightVars, time_elapsed, last_elapsed_time>>

Output ==
  \/ Send("hello", "time", puts(<<"Hello World! ">>))
  \/ Send("time", "input", puthex(last_elapsed_time))
  \/ Send("input", "read input", puts(<<"   Input Value: ">>))
  \/ ReadGpio
  \/ Send("value", "newline", puthex(in_val))
  \/ Send("newline", "unmask", putchar("LF"))

\* Faulty variant of NextLed: the LED that leaves the mask stays in the register.
NextLedUnmasked ==
  LET out_val == gpio_out * 2
  IN  IF in_val % 2 = 1 \/ out_val = 0 THEN FirstLed ELSE out_val

NextLed ==
  LET out_val == FirstLed * Mod((gpio_out * 2) \div FirstLed, Leds)
  IN  IF in_val % 2 = 1 \/ out_val = 0 THEN FirstLed ELSE out_val

CycleLeds ==
  /\ Step("leds", "pwm counter") /\ gpio_out' = NextLed
  /\ UNCHANGED <<coreVars, uartVars, inputVars, pwm, module, brightness, ascending, color, timeVars>>

\* set_pwm writes the counter of a module and then its width; an interrupt may come before each.
SetCounter ==
  /\ Step("pwm counter", "pwm width")
  /\ pwm' = [pwm EXCEPT ![module].counter = IF (color \div 2^(module % Channels)) % 2 = 1 THEN Counter ELSE 0]
  /\ UNCHANGED <<coreVars, uartVars, inputVars, gpio_out, module, brightness, ascending, color, timeVars>>

Width == IF brightness # 0 THEN 2^(brightness - 1) ELSE 0

SetWidth ==
  /\ Step("pwm width", IF module + 1 < NumPwm THEN "pwm counter" ELSE "shade")
  /\ pwm' = [pwm EXCEPT ![module].width = Width]
  /\ module' = (module + 1) % NumPwm   \* 0 for the next round
  /\ UNCHANGED <<coreVars, uartVars, inputVars, gpio_out, brightness, ascending, color, timeVars>>

SetPwm == SetCounter \/ SetWidth

NextColor == IF color + 1 >= 2^Channels THEN 1 ELSE color + 1

\* Faulty variant of Shade: the colour moves on at the bright end.
ShadeBright ==
  /\ Step("shade", "wfi")
  /\ brightness' = IF ascending THEN brightness + 1 ELSE brightness - 1
  /\ ascending' = IF ascending THEN brightness' < FullBrightness ELSE brightness' = 0
  /\ color' = IF ascending /\ ~ascending' THEN NextColor ELSE color
  /\ UNCHANGED <<coreVars, uartVars, inputVars, gpio_out, pwm, module, timeVars>>

Shade ==
  /\ Step("shade", "wfi")
  /\ brightness' = IF ascending THEN brightness + 1 ELSE brightness - 1
  /\ ascending' = IF ascending THEN brightness' < FullBrightness ELSE brightness' = 0
  /\ color' = IF ~ascending /\ brightness' = 0 THEN NextColor ELSE color
  /\ UNCHANGED <<coreVars, uartVars, inputVars, gpio_out, pwm, module, timeVars>>

\* The tick may come between Check and this step, and main sleep all the same.
Wfi ==
  /\ Step("wfi", "asleep")
  /\ UNCHANGED <<coreVars, uartVars, inputVars, lightVars, timeVars>>

Loop == Check \/ Mask \/ Output \/ Unmask \/ CycleLeds \/ SetPwm \/ Shade \/ Wfi

-----------------------------------------------------------------------------

Init ==
  /\ pc = "install uart" /\ handler = "none"
  /\ todo = [r \in {"main", "handler"} |-> << >>]
  /\ ready = [r \in {"main", "handler"} |-> FALSE]
  /\ mie = {} /\ mstatus_mie = FALSE
  /\ vectors = [num \in {} |-> jmp_ins(0)]
  /\ entry \in Links
  /\ tx = 0 /\ rx = << >> /\ typed = 0
  /\ timer_irq = TRUE   \* mtimecmp is zero from reset
  /\ time_elapsed = 0 /\ last_elapsed_time = 0 /\ in_val = 0
  /\ gpio_out = 0
  /\ pwm = [i \in 0 .. NumPwm - 1 |-> [counter |-> 0, width |-> 0]] /\ module = 0
  /\ brightness = 0 /\ ascending = TRUE /\ color = 2^Channels - 1
  /\ line = << >>

Program == Startup \/ Loop \/ Poll \/ Write \/ Echo \/ EchoDone \/ Count \/ Interrupt
Next == Program \/ Drain \/ Tick \/ \E c \in Chars : Type(c)

Spec == Init /\ [][Next]_vars
FairSpec == Spec /\ WF_vars(Program) /\ WF_vars(Drain) /\ WF_vars(Tick)

-----------------------------------------------------------------------------

TypeOK ==
  /\ handler \in {"none", "uart", "timer", "lost"}
  /\ mie \subseteq Irqs /\ mstatus_mie \in BOOLEAN
  /\ tx \in 0 .. TxDepth /\ rx \in Seq(Chars) /\ Len(rx) <= RxDepth
  /\ {time_elapsed, last_elapsed_time} \subseteq 0 .. Times - 1
  /\ in_val \in Inputs \cup {0}
  /\ gpio_out \in {0} \cup {FirstLed * 2^i : i \in 0 .. Leds - 1}
  /\ pwm \in [0 .. NumPwm - 1 -> [counter : {0, Counter}, width : {0} \cup {2^i : i \in 0 .. FullBrightness - 1}]]
  /\ module \in 0 .. NumPwm - 1
  /\ brightness \in 0 .. FullBrightness
  /\ color \in 1 .. 2^Channels - 1

(***************************************************************************)
(* What leaves the UART up to the next line feed is the start of main's    *)
(* line, with the digits of the time and of the inputs it read, or of one  *)
(* echo: no handler gets in between the status main read and the byte it   *)
(* writes, or between two of its bytes, and none is lost at a full FIFO.   *)
(***************************************************************************)
Hex(h) == [i \in 1 .. Digits |-> Glyph(Mod(h \div 2^(DigitBits * (Digits - i)), DigitBits))]
MainLine ==
  <<"Hello World! ">> \o Hex(last_elapsed_time) \o <<"   Input Value: ">> \o Hex(in_val) \o <<"CR">>

OutputNotMixed == IsPrefix(line, MainLine) \/ \E c \in Chars : IsPrefix(line, <<c, "CR">>)

(***************************************************************************)
(* No interrupt is lost: whichever is taken, at any point of the start-up  *)
(* and wherever the handlers were linked, its vector holds a jump to its   *)
(* handler.                                                                *)
(***************************************************************************)
InterruptsReachHandler == handler # "lost"

(***************************************************************************)
(* The colour changes module by module, from one bus write to the next and *)
(* with interrupts between them. A module changes its counter only while   *)
(* its width is the dimmest or zero, and the modules before it are off by  *)
(* then: never do two show the new colour.                                 *)
(***************************************************************************)
ColourChangesDim ==
  [][\A i \in DOMAIN pwm :
       pwm'[i].counter # pwm[i].counter =>
         pwm[i].width <= 1 /\ \A j \in 0 .. i - 1 : pwm[j].width = 0]_pwm

(***************************************************************************)
(* A tick is printed in the end, although it may find main between its     *)
(* test and wfi, or masked: if main sleeps on it, the next one wakes it.   *)
(***************************************************************************)
TickPrinted == timer_irq ~> (pc = "unmask" /\ todo["main"] = << >>)

(***************************************************************************)
(* What is received is taken in the end, also while main prints with       *)
(* interrupts off, and while the handler, which sends three bytes for one, *)
(* waits for room behind what main sent.                                   *)
(***************************************************************************)
CharsTaken == (rx # << >>) ~> (rx = << >>)

=============================================================================
