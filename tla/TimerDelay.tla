----------------------------- MODULE TimerDelay -----------------------------
(***************************************************************************)
(* timer_delay of the LCD demo, with timer.c under it and the timer's      *)
(* interrupt handler. Every step is a clock edge in which the program      *)
(* makes at most one access. Nothing bounds the time between two calls,    *)
(* nor the time asleep; any other step takes at most MaxStall cycles more  *)
(* than one.                                                               *)
(***************************************************************************)
EXTENDS Timer

CONSTANTS Increment,   \* cycles from a tick to the next: 50000 in the source
          Delays,      \* the delays asked for, in ticks
          MaxStall,    \* bound: cycles an access or instruction may wait
          MaxTime      \* bound: value of mtime at which the model stops

\* The program gets on between two ticks and two carries of mtime, and no
\* time in reach wraps.
ASSUME DelayAssumption ==
  /\ MaxStall \in Nat /\ 5 * (MaxStall + 1) < Half
  /\ Increment \in Nat /\ Increment > 7 * (MaxStall + 1)
  /\ Delays \subseteq Nat \ {0}
  /\ MaxTime \in Nat /\ MaxTime + Increment < Half * Half

VARIABLES pc,            \* the next step of the routine that runs
          mepc,          \* where the handler returns to, "none" outside it
          mie_mtie,      \* the timer interrupt's enable bit in mie
          mstatus_mie,   \* the global enable bit
          current_timeh, \* local variables of timer_read
          current_time,
          time_elapsed,
          ms, timeout,   \* argument and local variable of timer_delay
          stall,         \* cycles the next step has waited
          begun          \* history: mtime when timer_delay was called

progVars == <<pc, mepc, mie_mtie, mstatus_mie, current_timeh, current_time,
              time_elapsed, ms, timeout>>
vars == <<timerVars, progVars, stall, begun>>

TimecmpSteps == {"read_high", "read_low", "reread", "compare_max", "compare_high", "compare_low"}
MainSteps == {"away", "enable", "global", "start", "check", "wfi", "asleep", "disable"}
HandlerSteps == {"count", "mret"}

TypeOK ==
  /\ TimerTypeOK
  /\ pc \in TimecmpSteps \cup MainSteps \cup HandlerSteps
  /\ mepc \in MainSteps \cup {"none"}
  /\ {mie_mtie, mstatus_mie} \subseteq BOOLEAN
  /\ {current_timeh, current_time} \subseteq Word
  /\ {time_elapsed, timeout} \subseteq Nat
  /\ ms \in Delays \cup {0}
  /\ stall \in 0 .. MaxStall
  /\ begun \in Time

Init ==
  /\ TimerInit
  /\ pc = "away" /\ mepc = "none"
  /\ mie_mtie = FALSE /\ mstatus_mie = FALSE
  /\ current_timeh = 0 /\ current_time = 0
  /\ time_elapsed = 0 /\ ms = 0 /\ timeout = 0
  /\ stall = 0 /\ begun = 0

-----------------------------------------------------------------------------
(* The core. irq_pending wakes it from wfi; with the global enable bit it  *)
(* also interrupts main before its next instruction. (The one in progress  *)
(* completes first: that is the step in the cycle the interrupt rises.)    *)
(* Traps clear the bit and mret sets it again, so a handler is not         *)
(* interrupted.                                                            *)

irq_pending == interrupt_q /\ mie_mtie
handle_irq == irq_pending /\ mstatus_mie

NoWrite == [reg \in {} |-> 0]
Store(reg, word) == [r \in {reg} |-> word]

Edge(written) == mtime_q < MaxTime /\ TimerEdge(written)

\* A step of the running program from pc = here to pc = there, storing written.
Step(here, there, written) ==
  /\ pc = here /\ ~handle_irq
  /\ pc' = there
  /\ stall' = 0
  /\ Edge(written)

Stall ==
  /\ pc \notin {"away", "asleep"} \/ handle_irq
  /\ stall < MaxStall /\ stall' = stall + 1
  /\ Edge(NoWrite)
  /\ UNCHANGED <<progVars, begun>>

Interrupt ==
  /\ handle_irq
  /\ pc' = "read_high" /\ mepc' = (IF pc = "asleep" THEN "check" ELSE pc)
  /\ mstatus_mie' = FALSE
  /\ stall' = 0
  /\ Edge(NoWrite)
  /\ UNCHANGED <<mie_mtie, current_timeh, current_time, time_elapsed, ms, timeout, begun>>

Mret ==
  /\ pc = "mret" /\ pc' = mepc /\ mepc' = "none"
  /\ mstatus_mie' = TRUE
  /\ stall' = 0
  /\ Edge(NoWrite)
  /\ UNCHANGED <<mie_mtie, current_timeh, current_time, time_elapsed, ms, timeout, begun>>

-----------------------------------------------------------------------------
(* increment_timecmp, called by timer_enable and by the handler: read      *)
(* mtime until both looks at its high word agree, and set mtimecmp         *)
(* Increment later, by way of a low word of all ones.                      *)

UnchangedButReads == UNCHANGED <<mepc, mie_mtie, mstatus_mie, time_elapsed, ms, timeout, begun>>

ReadHigh ==
  /\ Step("read_high", "read_low", NoWrite)
  /\ current_timeh' = High(mtime_q)
  /\ UNCHANGED current_time /\ UnchangedButReads

ReadLow ==
  /\ Step("read_low", "reread", NoWrite)
  /\ current_time' = Low(mtime_q)
  /\ UNCHANGED current_timeh /\ UnchangedButReads

\* Faulty variant of Reread: corrects the high word and keeps the old low word.
RereadCorrects ==
  /\ Step("reread", "compare_max", NoWrite)
  /\ current_timeh' = High(mtime_q)
  /\ UNCHANGED current_time /\ UnchangedButReads

Reread ==
  /\ Step("reread", IF current_timeh = High(mtime_q) THEN "compare_max" ELSE "read_high", NoWrite)
  /\ UNCHANGED <<current_timeh, current_time>> /\ UnchangedButReads

new_time == (Joined(current_timeh, current_time) + Increment) % (Half * Half)

CompareMax ==
  /\ Step("compare_max", "compare_high", Store("MTIMECMP_LOW", Half - 1))
  /\ UNCHANGED <<current_timeh, current_time>> /\ UnchangedButReads

CompareHigh ==
  /\ Step("compare_high", "compare_low", Store("MTIMECMP_HIGH", High(new_time)))
  /\ UNCHANGED <<current_timeh, current_time>> /\ UnchangedButReads

\* Faulty variant of CompareLow: the time is not cut to a word.
CompareLowUncut ==
  /\ Step("compare_low", IF mepc = "none" THEN "enable" ELSE "count",
          Store("MTIMECMP_LOW", new_time))
  /\ UNCHANGED <<current_timeh, current_time>> /\ UnchangedButReads

CompareLow ==
  /\ Step("compare_low", IF mepc = "none" THEN "enable" ELSE "count",
          Store("MTIMECMP_LOW", Low(new_time)))
  /\ UNCHANGED <<current_timeh, current_time>> /\ UnchangedButReads

\* The handler's time_elapsed++.
Count ==
  /\ Step("count", "mret", NoWrite)
  /\ time_elapsed' = time_elapsed + 1
  /\ UNCHANGED <<mepc, mie_mtie, mstatus_mie, current_timeh, current_time, ms, timeout, begun>>

-----------------------------------------------------------------------------
(* timer_delay. time_elapsed is read at once: its high word stays zero for *)
(* 2^32 ticks, longer than any delay.                                      *)

UnchangedButDelay == UNCHANGED <<mepc, current_timeh, current_time, begun>>

\* timer_delay enters timer_enable.
Call(delay) ==
  /\ Step("away", "read_high", NoWrite)
  /\ ms' = delay /\ time_elapsed' = 0 /\ begun' = mtime_q
  /\ UNCHANGED <<mepc, mie_mtie, mstatus_mie, current_timeh, current_time, timeout>>

EnableInterrupts ==
  /\ Step("enable", "global", NoWrite)
  /\ mie_mtie' = TRUE
  /\ UNCHANGED <<mstatus_mie, time_elapsed, ms, timeout>> /\ UnchangedButDelay

SetGlobalInterruptEnable ==
  /\ Step("global", "start", NoWrite)
  /\ mstatus_mie' = TRUE
  /\ UNCHANGED <<mie_mtie, time_elapsed, ms, timeout>> /\ UnchangedButDelay

Start ==
  /\ Step("start", "check", NoWrite)
  /\ timeout' = time_elapsed + ms
  /\ UNCHANGED <<mie_mtie, mstatus_mie, time_elapsed, ms>> /\ UnchangedButDelay

\* Faulty variant of Check: waits for the very tick, which wfi may sleep through.
CheckEqual ==
  /\ Step("check", IF time_elapsed # timeout THEN "wfi" ELSE "disable", NoWrite)
  /\ UNCHANGED <<mie_mtie, mstatus_mie, time_elapsed, ms, timeout>> /\ UnchangedButDelay

Check ==
  /\ Step("check", IF time_elapsed < timeout THEN "wfi" ELSE "disable", NoWrite)
  /\ UNCHANGED <<mie_mtie, mstatus_mie, time_elapsed, ms, timeout>> /\ UnchangedButDelay

\* The tick that main waits for may come between Check and this step.
Wfi ==
  /\ Step("wfi", "asleep", NoWrite)
  /\ UNCHANGED <<mie_mtie, mstatus_mie, time_elapsed, ms, timeout>> /\ UnchangedButDelay

TimerDisable ==
  /\ Step("disable", "away", NoWrite)
  /\ mie_mtie' = FALSE
  /\ UNCHANGED <<mstatus_mie, time_elapsed, ms, timeout>> /\ UnchangedButDelay

\* Cycles away from timer_delay, or asleep.
Elsewhere ==
  /\ pc \in {"away", "asleep"}
  /\ Step(pc, pc, NoWrite)
  /\ UNCHANGED <<mie_mtie, mstatus_mie, time_elapsed, ms, timeout>> /\ UnchangedButDelay

IncrementTimecmp == ReadHigh \/ ReadLow \/ Reread \/ CompareMax \/ CompareHigh \/ CompareLow
Delay == EnableInterrupts \/ SetGlobalInterruptEnable \/ Start \/ Check \/ Wfi \/ TimerDisable

Next ==
  \/ Stall \/ Interrupt \/ Mret \/ Elsewhere
  \/ IncrementTimecmp \/ Count \/ Delay
  \/ \E delay \in Delays: Call(delay)

Spec == Init /\ [][Next]_vars

-----------------------------------------------------------------------------

(***************************************************************************)
(* A tick never comes early: what time_elapsed has counted since           *)
(* timer_enable has taken at least an Increment each, whatever interrupt   *)
(* was pending before, and however mtime carries while it is read. So      *)
(* timer_delay is never short.                                             *)
(***************************************************************************)
TicksNotEarly == time_elapsed * Increment <= mtime_q - begun

(***************************************************************************)
(* The core never sleeps on a tick that is lost or far away: the interrupt *)
(* it waits for is enabled, and it is up or at most one Increment ahead.   *)
(***************************************************************************)
SleeperWillWake ==
  pc = "asleep" =>
    /\ mie_mtie /\ mstatus_mie
    /\ interrupt_q \/ mtimecmp_q - mtime_q \in 0 .. Increment

(***************************************************************************)
(* timer_delay is never long: it is over one tick after the last one asked *)
(* for, the one wfi can sleep through, and no tick takes more than an      *)
(* Increment and the handler's way to its read of mtime, around once more  *)
(* if mtime carries. The rest is the way to the first read and, after the  *)
(* last tick, two handlers, the second if a tick comes before              *)
(* timer_disable, and main.                                                *)
(***************************************************************************)
DelayNotLong ==
  LET Steps(n) == n * (MaxStall + 1)
  IN  pc # "away" =>
        mtime_q - begun <= Steps(5) + (ms + 1) * (Increment + Steps(6)) + Steps(20)

=============================================================================
