------------------------------- MODULE Timer --------------------------------
(***************************************************************************)
(* The timer: mtime counts clock cycles, and its interrupt rises once      *)
(* mtime has reached mtimecmp. Both have two words of DataWidth bits, and  *)
(* the bus reaches one word at a time.                                     *)
(***************************************************************************)
EXTENDS Integers

CONSTANT DataWidth

ASSUME TimerAssumption == DataWidth \in Nat \ {0}

VARIABLES mtime_q, mtimecmp_q, interrupt_q

timerVars == <<mtime_q, mtimecmp_q, interrupt_q>>

Half == 2 ^ DataWidth
Word == 0 .. Half - 1
Time == 0 .. Half * Half - 1   \* TW = 2 * DataWidth bits

Low(t) == t % Half
High(t) == t \div Half
Joined(high, low) == high * Half + low

TimerTypeOK ==
  /\ {mtime_q, mtimecmp_q} \subseteq Time
  /\ interrupt_q \in BOOLEAN

\* mtimecmp resets to zero, which mtime has reached at once.
TimerInit == mtime_q = 0 /\ mtimecmp_q = 0 /\ interrupt_q = FALSE

-----------------------------------------------------------------------------
(* The clock edge that ends a cycle in which the words in written are      *)
(* written: a function from registers to whole words, with at most one     *)
(* register in its domain. A read has no effect on the registers.          *)

Written(written, reg, word) == IF reg \in DOMAIN written THEN written[reg] ELSE word

mtime_d(written) ==
  LET mtime_inc == (mtime_q + 1) % (Half * Half)
  IN  Joined(Written(written, "MTIME_HIGH", High(mtime_inc)),
             Written(written, "MTIME_LOW", Low(mtime_inc)))

mtimecmp_d(written) ==
  Joined(Written(written, "MTIMECMP_HIGH", High(mtimecmp_q)),
         Written(written, "MTIMECMP_LOW", Low(mtimecmp_q)))

\* Faulty variant of interrupt_d: a write to mtimecmp does not take the interrupt back.
interruptKept(written) == mtime_q >= mtimecmp_q \/ interrupt_q

\* Set from the cycle after mtime reaches mtimecmp until mtimecmp is written.
interrupt_d(written) ==
  /\ mtime_q >= mtimecmp_q \/ interrupt_q
  /\ DOMAIN written \cap {"MTIMECMP_LOW", "MTIMECMP_HIGH"} = {}

TimerEdge(written) ==
  /\ mtime_q' = mtime_d(written)
  /\ mtimecmp_q' = mtimecmp_d(written)
  /\ interrupt_q' = interrupt_d(written)

=============================================================================
