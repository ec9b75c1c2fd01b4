-------------------------- MODULE TimerDelay_proofs --------------------------
(***************************************************************************)
(* Theorems about timer_delay, for any Increment and any delays, and       *)
(* however long the program waits for its accesses, within bounds.         *)
(***************************************************************************)
EXTENDS TimerDelay, FiniteSetTheorems, TLAPS

-----------------------------------------------------------------------------
(* Words and times.                                                        *)

\* 2 ^ DataWidth is the number of subsets of DataWidth elements.
LEMMA HalfType == Half \in Nat \ {0}
<1>1. DataWidth \in Nat
  BY TimerAssumption
<1>2. IsFiniteSet(1 .. DataWidth) /\ Cardinality(1 .. DataWidth) = DataWidth
  BY <1>1, FS_Interval
<1>3. IsFiniteSet(SUBSET (1 .. DataWidth)) /\ Cardinality(SUBSET (1 .. DataWidth)) = Half
  BY <1>2, FS_SUBSET, Zenon DEF Half
<1>4. SUBSET (1 .. DataWidth) # {}
  OBVIOUS
<1> QED BY <1>3, <1>4, FS_CardinalityType, FS_EmptySet

\* Division with remainder is unique.
LEMMA Division ==
  ASSUME NEW n \in Nat \ {0}, NEW q \in Nat, NEW r \in 0 .. n - 1
  PROVE  (q * n + r) \div n = q /\ (q * n + r) % n = r
BY Z3

LEMMA Divided ==
  ASSUME NEW n \in Nat \ {0}, NEW a \in Nat
  PROVE  a \div n \in Nat /\ a % n \in 0 .. n - 1 /\ a = (a \div n) * n + (a % n)
BY Z3

\* A time is made of its words, and each cycle counts the lower one or carries.
LEMMA Parts ==
  ASSUME NEW t \in Nat
  PROVE  High(t) \in Nat /\ Low(t) \in Word /\ Joined(High(t), Low(t)) = t
BY HalfType, Divided DEF High, Low, Joined, Word

\* The words of a time that was joined from them.
LEMMA JoinedParts ==
  ASSUME NEW h \in Nat, NEW l \in Word
  PROVE  Joined(h, l) \in Nat /\ High(Joined(h, l)) = h /\ Low(Joined(h, l)) = l
<1>1. High(Joined(h, l)) = h /\ Low(Joined(h, l)) = l
  BY HalfType, Division DEF High, Low, Joined, Word
<1>2. h * Half \in Nat
  BY HalfType, Z3
<1> QED BY <1>1, <1>2, HalfType DEF Joined, Word

LEMMA Carry ==
  ASSUME NEW t \in Nat
  PROVE  IF Low(t) = Half - 1
         THEN High(t + 1) = High(t) + 1 /\ Low(t + 1) = 0
         ELSE High(t + 1) = High(t) /\ Low(t + 1) = Low(t) + 1
<1> DEFINE h == High(t)
           l == Low(t)
<1>1. h \in Nat /\ l \in Word /\ t = Joined(h, l)
  BY Parts
<1> HIDE DEF h, l
<1>2. CASE l = Half - 1
  <2>1. t + 1 = Joined(h + 1, 0)
    <3>1. h * Half \in Nat /\ (h + 1) * Half = h * Half + Half
      BY <1>1, HalfType, Z3
    <3> QED BY <1>1, <1>2, <3>1, HalfType DEF Joined
  <2>2. h + 1 \in Nat /\ 0 \in Word
    BY <1>1, HalfType DEF Word
  <2>3. High(t + 1) = h + 1 /\ Low(t + 1) = 0
    BY <2>1, <2>2, JoinedParts
  <2> QED BY <1>2, <2>3 DEF h, l
<1>3. CASE l # Half - 1
  <2>1. t + 1 = Joined(h, l + 1)
    <3>1. h * Half \in Nat
      BY <1>1, HalfType, Z3
    <3> QED BY <1>1, <3>1, HalfType DEF Joined, Word
  <2>2. l + 1 \in Word
    BY <1>1, <1>3, HalfType DEF Word
  <2>3. High(t + 1) = h /\ Low(t + 1) = l + 1
    BY <1>1, <2>1, <2>2, JoinedParts
  <2> QED BY <1>3, <2>3 DEF h, l
<1> QED BY <1>2, <1>3

\* A time of two words has two words.
LEMMA Bounded ==
  /\ Half * Half \in Nat
  /\ \A t \in Time : High(t) \in Word /\ Low(t) \in Word /\ t \in Nat
  /\ \A h, l \in Word : Joined(h, l) \in Time
<1>1. Half * Half \in Nat
  BY HalfType, Z3
<1>2. ASSUME NEW t \in Time PROVE High(t) \in Word /\ Low(t) \in Word /\ t \in Nat
  <2>1. t \in Nat /\ t < Half * Half
    BY <1>1 DEF Time
  <2>2. High(t) \in Nat /\ Low(t) \in Word /\ t = Joined(High(t), Low(t))
    BY <2>1, Parts
  <2>3. High(t) < Half
    <3> DEFINE h == High(t)
               l == Low(t)
    <3>1. h \in Nat /\ l \in Nat /\ h * Half + l < Half * Half
      BY <2>1, <2>2, HalfType DEF Joined, Word
    <3> HIDE DEF h, l
    <3>2. h < Half
      BY <3>1, HalfType, Z3
    <3> QED BY <3>2 DEF h
  <2> QED BY <2>1, <2>2, <2>3, HalfType DEF Word
<1>3. ASSUME NEW h \in Word, NEW l \in Word PROVE Joined(h, l) \in Time
  <2>1. h * Half + l < Half * Half /\ h * Half + l \in Nat
    BY HalfType, Z3 DEF Word
  <2> QED BY <1>1, <2>1 DEF Joined, Time
<1> QED BY <1>1, <1>2, <1>3

-----------------------------------------------------------------------------
(* Clock edges.                                                            *)

\* What the assumptions say of the constants.
LEMMA Constants ==
  /\ Increment \in Nat /\ MaxStall \in Nat /\ MaxTime \in Nat /\ Delays \subseteq Nat
  /\ MaxTime + Increment < Half * Half /\ Half * Half \in Nat
  /\ Increment > 7 * (MaxStall + 1)
BY DelayAssumption, Bounded

\* What a clock edge does that writes nothing.
Tick == /\ mtime_q' = mtime_q + 1 /\ mtime_q' <= MaxTime
        /\ mtimecmp_q' = mtimecmp_q
        /\ interrupt_q' = (mtime_q >= mtimecmp_q \/ interrupt_q)

\* mtime counts every cycle but those that write it, which the program has none of.
LEMMA MtimeTicks ==
  ASSUME TimerTypeOK, NEW written, DOMAIN written \cap {"MTIME_LOW", "MTIME_HIGH"} = {}, Edge(written)
  PROVE  mtime_q' = mtime_q + 1 /\ mtime_q' <= MaxTime
<1>1. mtime_q + 1 \in Nat /\ mtime_q + 1 <= MaxTime /\ mtime_q + 1 < Half * Half
  BY Constants DEF Edge, TimerTypeOK, Time
<1>2. (mtime_q + 1) % (Half * Half) = mtime_q + 1
  <2> DEFINE n == Half * Half
  <2>1. n \in Nat \ {0} /\ mtime_q + 1 \in 0 .. n - 1
    BY <1>1, Constants
  <2> HIDE DEF n
  <2>2. (mtime_q + 1) % n = mtime_q + 1
    BY <2>1
  <2> QED BY <2>2 DEF n
<1>3. mtime_q' = Joined(High(mtime_q + 1), Low(mtime_q + 1))
  BY <1>2, Zenon DEF Edge, TimerEdge, mtime_d, Written
<1> QED BY <1>1, <1>3, Parts

LEMMA Clock ==
  ASSUME TimerTypeOK, Edge(NoWrite)
  PROVE  Tick
<1>1. DOMAIN NoWrite = {}
  BY DEF NoWrite
<1>2. mtime_q' = mtime_q + 1 /\ mtime_q' <= MaxTime
  <2>1. DOMAIN NoWrite \cap {"MTIME_LOW", "MTIME_HIGH"} = {}
    BY <1>1
  <2> QED BY <2>1, MtimeTicks
<1>3. mtimecmp_q' = Joined(High(mtimecmp_q), Low(mtimecmp_q))
  BY <1>1, Zenon DEF Edge, TimerEdge, mtimecmp_d, Written
<1>4. mtimecmp_q \in Nat
  BY Bounded DEF TimerTypeOK
<1>5. interrupt_q' <=> mtime_q >= mtimecmp_q \/ interrupt_q
  BY <1>1, Zenon DEF Edge, TimerEdge, interrupt_d
<1>6. interrupt_q' = (mtime_q >= mtimecmp_q \/ interrupt_q)
  BY <1>1, Zenon DEF Edge, TimerEdge, interrupt_d
<1> QED BY <1>2, <1>3, <1>4, <1>6, Parts, Zenon DEF Tick

\* A write to the low word of mtimecmp keeps the high one, and takes the interrupt back.
LEMMA LowStored ==
  ASSUME TimerTypeOK, NEW word, Edge(Store("MTIMECMP_LOW", word))
  PROVE  /\ mtime_q' = mtime_q + 1 /\ mtime_q' <= MaxTime
         /\ mtimecmp_q' = Joined(High(mtimecmp_q), word) /\ interrupt_q' = FALSE
<1> DEFINE written == Store("MTIMECMP_LOW", word)
<1>1. DOMAIN written = {"MTIMECMP_LOW"} /\ written["MTIMECMP_LOW"] = word
  BY DEF Store
<1>2. DOMAIN written \cap {"MTIME_LOW", "MTIME_HIGH"} = {} /\ "MTIMECMP_HIGH" \notin DOMAIN written
      /\ DOMAIN written \cap {"MTIMECMP_LOW", "MTIMECMP_HIGH"} # {}
  BY <1>1
<1> HIDE DEF written
<1>3. Edge(written)
  BY Zenon DEF written
<1>4. mtimecmp_q' = Joined(High(mtimecmp_q), word) /\ interrupt_q' = FALSE
  BY <1>1, <1>2, <1>3, Zenon DEF Edge, TimerEdge, mtimecmp_d, interrupt_d, Written
<1> QED BY <1>2, <1>3, <1>4, MtimeTicks, Zenon

\* The same of the high word.
LEMMA HighStored ==
  ASSUME TimerTypeOK, NEW word, Edge(Store("MTIMECMP_HIGH", word))
  PROVE  /\ mtime_q' = mtime_q + 1 /\ mtime_q' <= MaxTime
         /\ mtimecmp_q' = Joined(word, Low(mtimecmp_q)) /\ interrupt_q' = FALSE
<1> DEFINE written == Store("MTIMECMP_HIGH", word)
<1>1. DOMAIN written = {"MTIMECMP_HIGH"} /\ written["MTIMECMP_HIGH"] = word
  BY DEF Store
<1>2. DOMAIN written \cap {"MTIME_LOW", "MTIME_HIGH"} = {} /\ "MTIMECMP_LOW" \notin DOMAIN written
      /\ DOMAIN written \cap {"MTIMECMP_LOW", "MTIMECMP_HIGH"} # {}
  BY <1>1
<1> HIDE DEF written
<1>3. Edge(written)
  BY Zenon DEF written
<1>4. mtimecmp_q' = Joined(word, Low(mtimecmp_q)) /\ interrupt_q' = FALSE
  BY <1>1, <1>2, <1>3, Zenon DEF Edge, TimerEdge, mtimecmp_d, interrupt_d, Written
<1> QED BY <1>2, <1>3, <1>4, MtimeTicks, Zenon

-----------------------------------------------------------------------------
(* What timer_read reads, and what mtimecmp is set to.                     *)

Reading == {"read_high", "read_low", "reread"}
Comparing == {"compare_max", "compare_high", "compare_low"}
Enabled == {"global", "start", "check", "wfi", "asleep", "disable"}

\* The interrupt is enabled wherever main is interrupted, and main sleeps only with it enabled.
PathInv ==
  /\ mepc # "none" =>
       /\ pc \in TimecmpSteps \cup HandlerSteps
       /\ mepc \in Enabled \ {"asleep"} /\ mie_mtie /\ ~mstatus_mie
  /\ mepc = "none" =>
       /\ pc \notin HandlerSteps
       /\ mie_mtie <=> pc \in Enabled
       /\ pc \in Enabled \ {"global"} => mstatus_mie

\* The earliest time of the nth tick, and of the one that is under way.
Due(start, n) == start + n * Increment
Earliest == IF mepc = "none" THEN Due(begun, time_elapsed) ELSE Due(begun, time_elapsed + 1)

\* What is read is a time there was, after the tick before.
ReadTime == Joined(current_timeh, current_time)
ReadInv ==
  /\ pc \in Reading => Earliest <= mtime_q
  /\ pc \in {"read_low", "reread"} => current_timeh <= High(mtime_q)
  /\ pc = "reread" /\ current_timeh = High(mtime_q) => Earliest <= ReadTime /\ ReadTime < mtime_q
  /\ pc \in Comparing => Earliest <= ReadTime /\ ReadTime < mtime_q
  /\ pc = "compare_low" => High(mtimecmp_q) = High(ReadTime + Increment)

\* mtimecmp is not early, and no further ahead than the sleeper may wait.
TickInv ==
  /\ mtime_q <= MaxTime /\ Due(begun, time_elapsed) <= mtime_q
  /\ pc \in Enabled \cup HandlerSteps \cup {"enable"} =>
       /\ (IF pc = "count" THEN Due(begun, time_elapsed + 2) ELSE Due(begun, time_elapsed + 1)) <= mtimecmp_q
       /\ mtimecmp_q <= mtime_q + Increment
       /\ interrupt_q => mtimecmp_q < mtime_q
  /\ pc \in Enabled \cup {"mret"} => interrupt_q \/ mtime_q <= mtimecmp_q

DelayInv == TypeOK /\ PathInv /\ ReadInv /\ TickInv

\* The range of the model's numbers, and what the words of mtime do at a clock edge.
Facts ==
  /\ Half \in Nat \ {0}
  /\ Increment \in Nat /\ Increment > 7 * (MaxStall + 1) /\ MaxStall \in Nat /\ MaxTime \in Nat
  /\ \A t \in Time : High(t) \in Word /\ Low(t) \in Word /\ t \in Nat /\ Joined(High(t), Low(t)) = t
  /\ \A h, l \in Word : Joined(h, l) \in Time /\ High(Joined(h, l)) = h /\ Low(Joined(h, l)) = l
  /\ \A t \in Nat : t <= MaxTime + Increment => t \in Time
  /\ \A t \in Time : High(t) <= High(t + 1)
  /\ \A s, n \in Nat : Due(s, n) \in Nat /\ Due(s, n + 1) = Due(s, n) + Increment
  /\ \A s \in Nat : Due(s, 0) = s
  /\ \A w \in Word : w \in Nat

\* They hold of every instance.
LEMMA FactsHold == Facts
<1>1. \A s, n \in Nat : Due(s, n) \in Nat /\ Due(s, n + 1) = Due(s, n) + Increment
  BY Constants, Z3 DEF Due
<1>2. \A s \in Nat : Due(s, 0) = s
  BY Constants, Z3 DEF Due
<1>3. \A t \in Time : High(t) <= High(t + 1)
  <2> SUFFICES ASSUME NEW t \in Time PROVE High(t) <= High(t + 1)
    OBVIOUS
  <2>1. t \in Nat /\ High(t) \in Nat
    BY Bounded, HalfType DEF Word
  <2> QED BY <2>1, Carry
<1>4. \A h, l \in Word : Joined(h, l) \in Time /\ High(Joined(h, l)) = h /\ Low(Joined(h, l)) = l
  BY Bounded, JoinedParts, HalfType DEF Word
<1>5. \A t \in Nat : t <= MaxTime + Increment => t \in Time
  BY Constants DEF Time
<1>6. \A t \in Time : High(t) \in Word /\ Low(t) \in Word /\ t \in Nat /\ Joined(High(t), Low(t)) = t
  BY Bounded, Parts
<1>7. \A w \in Word : w \in Nat
  BY HalfType DEF Word
<1> QED BY <1>1, <1>2, <1>3, <1>4, <1>5, <1>6, <1>7, HalfType, Constants, Zenon DEF Facts

\* What the invariant says of the numbers of a state.
Numbers ==
  /\ {mtime_q, mtimecmp_q, begun} \subseteq Time
  /\ mtime_q \in Nat /\ mtimecmp_q \in Nat /\ begun \in Nat /\ stall \in Nat
  /\ time_elapsed \in Nat /\ ms \in Nat /\ timeout \in Nat
  /\ current_timeh \in Word /\ current_time \in Word /\ current_timeh \in Nat /\ current_time \in Nat
  /\ ReadTime \in Time /\ ReadTime \in Nat /\ Earliest \in Nat
  /\ Due(begun, time_elapsed) \in Nat
  /\ Due(begun, time_elapsed + 1) = Due(begun, time_elapsed) + Increment
  /\ Due(begun, time_elapsed + 2) = Due(begun, time_elapsed) + 2 * Increment
  /\ Increment \in Nat /\ Increment > 7 * (MaxStall + 1) /\ MaxStall \in Nat /\ MaxTime \in Nat

\* They follow from the types.
LEMMA NumbersHold == TypeOK => Numbers
<1> SUFFICES ASSUME TypeOK PROVE Numbers
  OBVIOUS
<1>1. {mtime_q, mtimecmp_q, begun} \subseteq Time /\ time_elapsed \in Nat /\ timeout \in Nat
      /\ current_timeh \in Word /\ current_time \in Word /\ ms \in Delays \cup {0} /\ stall \in 0 .. MaxStall
  BY Zenon DEF TypeOK, TimerTypeOK
<1>2. mtime_q \in Nat /\ mtimecmp_q \in Nat /\ begun \in Nat /\ current_timeh \in Nat /\ current_time \in Nat
  BY <1>1, FactsHold, Zenon DEF Facts
<1>3. stall \in Nat /\ ms \in Nat
  BY <1>1, Constants
<1>4. ReadTime \in Time /\ ReadTime \in Nat
  BY <1>1, FactsHold, Zenon DEF Facts, ReadTime
<1>5. /\ Due(begun, time_elapsed) \in Nat
      /\ Due(begun, time_elapsed + 1) = Due(begun, time_elapsed) + Increment
      /\ Due(begun, time_elapsed + 2) = Due(begun, time_elapsed) + 2 * Increment
  <2>1. \A s, n \in Nat : Due(s, n) \in Nat /\ Due(s, n + 1) = Due(s, n) + Increment
    BY FactsHold, Zenon DEF Facts
  <2>2. Due(begun, (time_elapsed + 1) + 1) = Due(begun, time_elapsed + 1) + Increment
    BY <1>1, <1>2, <2>1
  <2>3. (time_elapsed + 1) + 1 = time_elapsed + 2
    BY <1>1
  <2>4. Due(begun, time_elapsed + 2) = Due(begun, time_elapsed + 1) + Increment
    BY <2>2, <2>3, Zenon
  <2>5. Due(begun, time_elapsed) \in Nat /\ Due(begun, time_elapsed + 1) = Due(begun, time_elapsed) + Increment
    BY <1>1, <1>2, <2>1, Zenon
  <2> QED BY <2>4, <2>5, Constants
<1>6. Earliest \in Nat
  BY <1>5, Constants DEF Earliest
<1> QED BY <1>1, <1>2, <1>3, <1>4, <1>5, <1>6, FactsHold, Zenon DEF Numbers, Facts

\* Nothing has been read or counted, and mtimecmp is not relied on.
LEMMA DelayInit == Init => DelayInv
<1> SUFFICES ASSUME Init PROVE DelayInv
  OBVIOUS
<1>1. 0 \in Word /\ 0 \in Time
  BY HalfType, Constants, Bounded DEF Word, Time
<1>2. TypeOK
  <2>1. TimerTypeOK
    BY <1>1 DEF Init, TimerInit, TimerTypeOK
  <2>2. {current_timeh, current_time} \subseteq Word /\ begun \in Time /\ ms \in Delays \cup {0}
    BY <1>1, Zenon DEF Init
  <2>3. stall \in 0 .. MaxStall /\ {time_elapsed, timeout} \subseteq Nat
    BY Constants DEF Init
  <2>4. pc \in MainSteps /\ mepc = "none" /\ {mie_mtie, mstatus_mie} \subseteq BOOLEAN
    BY DEF Init, MainSteps
  <2> QED BY <2>1, <2>2, <2>3, <2>4, Zenon DEF TypeOK
<1>3. PathInv
  BY DEF Init, PathInv, HandlerSteps, Enabled
<1>4. ReadInv
  BY DEF Init, ReadInv, Reading, Comparing
<1>5. TickInv
  BY FactsHold DEF Init, TimerInit, TickInv, Facts, Enabled, HandlerSteps
<1> QED BY <1>2, <1>3, <1>4, <1>5 DEF DelayInv

\* What a clock edge that writes nothing does to these numbers.
Passes ==
  /\ mtime_q' = mtime_q + 1 /\ mtime_q' <= MaxTime /\ mtimecmp_q' = mtimecmp_q
  /\ interrupt_q' <=> mtime_q >= mtimecmp_q \/ interrupt_q
  /\ High(mtime_q) <= High(mtime_q') /\ High(mtime_q) \in Nat /\ High(mtime_q') \in Nat
  /\ High(mtime_q) \in Word /\ Low(mtime_q) \in Word /\ Joined(High(mtime_q), Low(mtime_q)) = mtime_q
  /\ TimerTypeOK'

\* They hold of every step but the three writes.
LEMMA Quiet == TypeOK /\ Edge(NoWrite) => Numbers /\ Passes
<1> SUFFICES ASSUME TypeOK, Edge(NoWrite) PROVE Numbers /\ Passes
  OBVIOUS
<1>1. Numbers /\ Tick
  BY NumbersHold, Clock, Zenon DEF TypeOK
<1>2. /\ mtime_q' = mtime_q + 1 /\ mtime_q' <= MaxTime /\ mtimecmp_q' = mtimecmp_q
      /\ interrupt_q' <=> mtime_q >= mtimecmp_q \/ interrupt_q
      /\ interrupt_q' \in BOOLEAN
  BY <1>1, Zenon DEF Tick
<1>3. mtime_q' \in Time
  BY <1>1, <1>2, FactsHold DEF Facts, Numbers
<1>4. High(mtime_q) \in Word /\ Low(mtime_q) \in Word /\ Joined(High(mtime_q), Low(mtime_q)) = mtime_q
  BY <1>1, FactsHold, Zenon DEF Facts, Numbers
<1>5. High(mtime_q) \in Nat /\ High(mtime_q') \in Nat
  BY <1>3, <1>4, FactsHold, Zenon DEF Facts
<1>6. High(mtime_q) <= High(mtime_q')
  BY <1>1, <1>2, FactsHold, Zenon DEF Facts, Numbers
<1>7. TimerTypeOK'
  BY <1>1, <1>2, <1>3, Zenon DEF TimerTypeOK, Numbers
<1> QED BY <1>1, <1>2, <1>4, <1>5, <1>6, <1>7, Zenon DEF Passes

\* Nothing moves but the clock.
LEMMA StallStep == DelayInv /\ Stall => DelayInv'
<1> SUFFICES ASSUME DelayInv, Stall PROVE DelayInv'
  OBVIOUS
<1>1. Numbers /\ Passes
  BY Quiet, Zenon DEF DelayInv, Stall, progVars
<1>2. TypeOK'
  BY <1>1 DEF DelayInv, TypeOK, Passes, Numbers, Stall, progVars
<1>3. PathInv'
  BY <1>1 DEF DelayInv, PathInv, Stall, progVars
<1>4. ReadInv'
  BY <1>1 DEF DelayInv, ReadInv, Earliest, ReadTime, Passes, Numbers, Stall, progVars
<1>5. TickInv'
  BY <1>1 DEF DelayInv, TickInv, Passes, Numbers, Stall, progVars
<1> QED BY <1>2, <1>3, <1>4, <1>5, Zenon DEF DelayInv

\* Main is interrupted with the interrupt enabled, once mtime is past mtimecmp, which was the tick to come.
LEMMA InterruptStep == DelayInv /\ Interrupt => DelayInv'
<1> SUFFICES ASSUME DelayInv, Interrupt PROVE DelayInv'
  OBVIOUS
<1>1. Numbers /\ Passes
  BY Quiet, Zenon DEF DelayInv, Interrupt, handle_irq, irq_pending
<1>2. TypeOK'
  <2>1. {mie_mtie', mstatus_mie'} \subseteq BOOLEAN
    BY Zenon DEF DelayInv, TypeOK, Interrupt
  <2>2. pc' \in TimecmpSteps \cup MainSteps \cup HandlerSteps /\ mepc' \in MainSteps \cup {"none"}
    BY DEF DelayInv, PathInv, TimecmpSteps, MainSteps, Enabled, Interrupt, handle_irq, irq_pending
  <2>3. stall' \in 0 .. MaxStall
    BY <1>1 DEF Numbers, Interrupt
  <2> QED BY <1>1, <2>1, <2>2, <2>3, Zenon DEF DelayInv, TypeOK, Passes, Interrupt
<1>3. PathInv'
  BY <1>1 DEF DelayInv, PathInv, Enabled, TimecmpSteps, Interrupt, handle_irq, irq_pending
<1>4. ReadInv'
  BY <1>1 DEF DelayInv, PathInv, ReadInv, TickInv, Earliest, Passes, Numbers, Comparing,
    Interrupt, handle_irq, irq_pending
<1>5. TickInv'
  BY <1>1 DEF DelayInv, TickInv, Passes, Numbers, Enabled, HandlerSteps, Interrupt
<1> QED BY <1>2, <1>3, <1>4, <1>5, Zenon DEF DelayInv

\* Main goes on as it was, but for the tick.
LEMMA MretStep == DelayInv /\ Mret => DelayInv'
<1> SUFFICES ASSUME DelayInv, Mret PROVE DelayInv'
  OBVIOUS
<1>1. Numbers /\ Passes
  BY Quiet, Zenon DEF DelayInv, Mret
<1>2. TypeOK'
  <2>1. {mie_mtie', mstatus_mie'} \subseteq BOOLEAN
    BY Zenon DEF DelayInv, TypeOK, Mret
  <2>2. pc' \in TimecmpSteps \cup MainSteps \cup HandlerSteps /\ mepc' \in MainSteps \cup {"none"}
    BY DEF DelayInv, TypeOK, PathInv, TimecmpSteps, MainSteps, Mret
  <2>3. stall' \in 0 .. MaxStall
    BY <1>1 DEF Numbers, Mret
  <2> QED BY <1>1, <2>1, <2>2, <2>3, Zenon DEF DelayInv, TypeOK, Passes, Mret
<1>3. PathInv'
  BY <1>1 DEF DelayInv, PathInv, Enabled, HandlerSteps, Mret
<1>4. ReadInv'
  BY <1>1 DEF DelayInv, PathInv, ReadInv, TickInv, Earliest, Passes, Numbers, Comparing,
    Enabled, Mret
<1>5. TickInv'
  BY <1>1 DEF DelayInv, PathInv, TickInv, Passes, Numbers, Enabled, HandlerSteps, Mret
<1> QED BY <1>2, <1>3, <1>4, <1>5, Zenon DEF DelayInv

\* The sleeper is awake as soon as the interrupt is up.
LEMMA ElsewhereStep == DelayInv /\ Elsewhere => DelayInv'
<1> SUFFICES ASSUME DelayInv, Elsewhere PROVE DelayInv'
  OBVIOUS
<1>1. Numbers /\ Passes
  BY Quiet, Zenon DEF DelayInv, Elsewhere, Step, UnchangedButDelay
<1>2. TypeOK'
  BY <1>1 DEF DelayInv, TypeOK, Passes, Numbers, Elsewhere, Step, UnchangedButDelay
<1>3. PathInv'
  BY <1>1 DEF DelayInv, PathInv, Elsewhere, Step, UnchangedButDelay
<1>4. ReadInv'
  BY <1>1 DEF ReadInv, Reading, Comparing, Elsewhere, Step
<1>5. TickInv'
  BY <1>1 DEF DelayInv, TickInv, Passes, Numbers, Elsewhere, Step, UnchangedButDelay
<1> QED BY <1>2, <1>3, <1>4, <1>5, Zenon DEF DelayInv

\* mtime was later than the last tick before it was read.
LEMMA ReadHighStep == DelayInv /\ ReadHigh => DelayInv'
<1> SUFFICES ASSUME DelayInv, ReadHigh PROVE DelayInv'
  OBVIOUS
<1>1. Numbers /\ Passes
  BY Quiet, Zenon DEF DelayInv, ReadHigh, Step, UnchangedButReads
<1>2. TypeOK'
  BY <1>1 DEF DelayInv, TypeOK, Passes, Numbers, TimecmpSteps, ReadHigh, Step, UnchangedButReads
<1>3. PathInv'
  BY <1>1 DEF DelayInv, PathInv, Enabled, TimecmpSteps, HandlerSteps, ReadHigh, Step,
    UnchangedButReads
<1>4. ReadInv'
  BY <1>1 DEF DelayInv, ReadInv, Earliest, Passes, Numbers, Reading, Comparing, ReadHigh, Step,
    UnchangedButReads
<1>5. TickInv'
  BY <1>1 DEF DelayInv, TickInv, Passes, Numbers, Enabled, HandlerSteps, ReadHigh, Step,
    UnchangedButReads
<1> QED BY <1>2, <1>3, <1>4, <1>5, Zenon DEF DelayInv

\* A carry between the two reads is seen by the third: without one, the words are of one time.
LEMMA ReadLowStep == DelayInv /\ ReadLow => DelayInv'
<1> SUFFICES ASSUME DelayInv, ReadLow PROVE DelayInv'
  OBVIOUS
<1>1. Numbers /\ Passes
  BY Quiet, Zenon DEF DelayInv, ReadLow, Step, UnchangedButReads
<1>2. TypeOK'
  BY <1>1 DEF DelayInv, TypeOK, Passes, Numbers, TimecmpSteps, ReadLow, Step, UnchangedButReads
<1>3. PathInv'
  BY <1>1 DEF DelayInv, PathInv, Enabled, TimecmpSteps, HandlerSteps, ReadLow, Step,
    UnchangedButReads
<1>4. ReadInv'
  BY <1>1 DEF DelayInv, ReadInv, Earliest, ReadTime, Passes, Numbers, Reading, Comparing,
    ReadLow, Step, UnchangedButReads
<1>5. TickInv'
  BY <1>1 DEF DelayInv, TickInv, Passes, Numbers, Enabled, HandlerSteps, ReadLow, Step,
    UnchangedButReads
<1> QED BY <1>2, <1>3, <1>4, <1>5, Zenon DEF DelayInv

\* The words are those of a time that has passed.
LEMMA RereadStep == DelayInv /\ Reread => DelayInv'
<1> SUFFICES ASSUME DelayInv, Reread PROVE DelayInv'
  OBVIOUS
<1>1. Numbers /\ Passes
  BY Quiet, Zenon DEF DelayInv, Reread, Step, UnchangedButReads
<1>2. TypeOK'
  BY <1>1 DEF DelayInv, TypeOK, Passes, Numbers, TimecmpSteps, Reread, Step, UnchangedButReads
<1>3. PathInv'
  BY <1>1 DEF DelayInv, PathInv, Enabled, TimecmpSteps, HandlerSteps, Reread, Step,
    UnchangedButReads
<1>4. ReadInv'
  BY <1>1 DEF DelayInv, ReadInv, Earliest, ReadTime, Passes, Numbers, Reading, Comparing,
    Reread, Step, UnchangedButReads
<1>5. TickInv'
  BY <1>1 DEF DelayInv, TickInv, Passes, Numbers, Enabled, HandlerSteps, Reread, Step,
    UnchangedButReads
<1> QED BY <1>2, <1>3, <1>4, <1>5, Zenon DEF DelayInv

\* The tick that is counted has taken an Increment.
LEMMA CountStep == DelayInv /\ Count => DelayInv'
<1> SUFFICES ASSUME DelayInv, Count PROVE DelayInv'
  OBVIOUS
<1>1. Numbers /\ Passes
  BY Quiet, Zenon DEF DelayInv, Count, Step
<1>2. TypeOK'
  BY <1>1 DEF DelayInv, TypeOK, Passes, Numbers, HandlerSteps, Count, Step
<1>3. PathInv'
  BY <1>1 DEF DelayInv, PathInv, HandlerSteps, Count, Step
<1>4. ReadInv'
  BY <1>1 DEF ReadInv, Reading, Comparing, Count, Step
<1>5. TickInv'
  BY <1>1 DEF DelayInv, TickInv, Passes, Numbers, HandlerSteps, Count, Step
<1> QED BY <1>2, <1>3, <1>4, <1>5, Zenon DEF DelayInv

\* From here to timer_disable the interrupt is enabled.
LEMMA EnableInterruptsStep == DelayInv /\ EnableInterrupts => DelayInv'
<1> SUFFICES ASSUME DelayInv, EnableInterrupts PROVE DelayInv'
  OBVIOUS
<1>1. Numbers /\ Passes
  BY Quiet, Zenon DEF DelayInv, EnableInterrupts, Step, UnchangedButDelay
<1>2. TypeOK'
  BY <1>1 DEF DelayInv, TypeOK, Passes, Numbers, MainSteps, EnableInterrupts, Step,
    UnchangedButDelay
<1>3. PathInv'
  BY <1>1 DEF DelayInv, PathInv, Enabled, TimecmpSteps, HandlerSteps, EnableInterrupts, Step,
    UnchangedButDelay
<1>4. ReadInv'
  BY <1>1 DEF ReadInv, Reading, Comparing, EnableInterrupts, Step
<1>5. TickInv'
  BY <1>1 DEF DelayInv, TickInv, Passes, Numbers, EnableInterrupts, Step, UnchangedButDelay
<1> QED BY <1>2, <1>3, <1>4, <1>5, Zenon DEF DelayInv

\* From here on it interrupts main.
LEMMA SetGlobalInterruptEnableStep == DelayInv /\ SetGlobalInterruptEnable => DelayInv'
<1> SUFFICES ASSUME DelayInv, SetGlobalInterruptEnable PROVE DelayInv'
  OBVIOUS
<1>1. Numbers /\ Passes
  BY Quiet, Zenon DEF DelayInv, SetGlobalInterruptEnable, Step, UnchangedButDelay
<1>2. TypeOK'
  BY <1>1 DEF DelayInv, TypeOK, Passes, Numbers, MainSteps, SetGlobalInterruptEnable, Step,
    UnchangedButDelay
<1>3. PathInv'
  BY <1>1 DEF DelayInv, PathInv, Enabled, TimecmpSteps, HandlerSteps, SetGlobalInterruptEnable,
    Step, UnchangedButDelay
<1>4. ReadInv'
  BY <1>1 DEF ReadInv, Reading, Comparing, SetGlobalInterruptEnable, Step
<1>5. TickInv'
  BY <1>1 DEF DelayInv, TickInv, Passes, Numbers, Enabled, SetGlobalInterruptEnable, Step,
    UnchangedButDelay
<1> QED BY <1>2, <1>3, <1>4, <1>5, Zenon DEF DelayInv

\* The steps of timer_delay neither count nor set mtimecmp.
LEMMA StartStep == DelayInv /\ Start => DelayInv'
<1> SUFFICES ASSUME DelayInv, Start PROVE DelayInv'
  OBVIOUS
<1>1. Numbers /\ Passes
  BY Quiet, Zenon DEF DelayInv, Start, Step, UnchangedButDelay
<1>2. TypeOK'
  BY <1>1 DEF DelayInv, TypeOK, Passes, Numbers, MainSteps, Start, Step, UnchangedButDelay
<1>3. PathInv'
  BY <1>1 DEF DelayInv, PathInv, Enabled, TimecmpSteps, HandlerSteps, Start, Step, UnchangedButDelay
<1>4. ReadInv'
  BY <1>1 DEF ReadInv, Reading, Comparing, Start, Step
<1>5. TickInv'
  BY <1>1 DEF DelayInv, TickInv, Passes, Numbers, Enabled, Start, Step, UnchangedButDelay
<1> QED BY <1>2, <1>3, <1>4, <1>5, Zenon DEF DelayInv

\* The same of Check.
LEMMA CheckStep == DelayInv /\ Check => DelayInv'
<1> SUFFICES ASSUME DelayInv, Check PROVE DelayInv'
  OBVIOUS
<1>1. Numbers /\ Passes
  BY Quiet, Zenon DEF DelayInv, Check, Step, UnchangedButDelay
<1>2. TypeOK'
  BY <1>1 DEF DelayInv, TypeOK, Passes, Numbers, MainSteps, Check, Step, UnchangedButDelay
<1>3. PathInv'
  BY <1>1 DEF DelayInv, PathInv, Enabled, TimecmpSteps, HandlerSteps, Check, Step, UnchangedButDelay
<1>4. ReadInv'
  BY <1>1 DEF ReadInv, Reading, Comparing, Check, Step
<1>5. TickInv'
  BY <1>1 DEF DelayInv, TickInv, Passes, Numbers, Enabled, Check, Step, UnchangedButDelay
<1> QED BY <1>2, <1>3, <1>4, <1>5, Zenon DEF DelayInv

\* The same of Wfi.
LEMMA WfiStep == DelayInv /\ Wfi => DelayInv'
<1> SUFFICES ASSUME DelayInv, Wfi PROVE DelayInv'
  OBVIOUS
<1>1. Numbers /\ Passes
  BY Quiet, Zenon DEF DelayInv, Wfi, Step, UnchangedButDelay
<1>2. TypeOK'
  BY <1>1 DEF DelayInv, TypeOK, Passes, Numbers, MainSteps, Wfi, Step, UnchangedButDelay
<1>3. PathInv'
  BY <1>1 DEF DelayInv, PathInv, Enabled, TimecmpSteps, HandlerSteps, Wfi, Step, UnchangedButDelay
<1>4. ReadInv'
  BY <1>1 DEF ReadInv, Reading, Comparing, Wfi, Step
<1>5. TickInv'
  BY <1>1 DEF DelayInv, TickInv, Passes, Numbers, Enabled, Wfi, Step, UnchangedButDelay
<1> QED BY <1>2, <1>3, <1>4, <1>5, Zenon DEF DelayInv

\* The same of TimerDisable.
LEMMA TimerDisableStep == DelayInv /\ TimerDisable => DelayInv'
<1> SUFFICES ASSUME DelayInv, TimerDisable PROVE DelayInv'
  OBVIOUS
<1>1. Numbers /\ Passes
  BY Quiet, Zenon DEF DelayInv, TimerDisable, Step, UnchangedButDelay
<1>2. TypeOK'
  <2>1. {mie_mtie', mstatus_mie'} \subseteq BOOLEAN
    BY Zenon DEF DelayInv, TypeOK, TimerDisable, Step, UnchangedButDelay
  <2>2. pc' \in TimecmpSteps \cup MainSteps \cup HandlerSteps /\ mepc' \in MainSteps \cup {"none"}
    BY DEF DelayInv, TypeOK, MainSteps, TimerDisable, Step, UnchangedButDelay
  <2>3. stall' \in 0 .. MaxStall
    BY <1>1 DEF Numbers, TimerDisable, Step, UnchangedButDelay
  <2> QED BY <1>1, <2>1, <2>2, <2>3, Zenon DEF DelayInv, TypeOK, Passes, TimerDisable,
      UnchangedButDelay
<1>3. PathInv'
  BY <1>1 DEF DelayInv, PathInv, Enabled, TimecmpSteps, HandlerSteps, TimerDisable, Step,
    UnchangedButDelay
<1>4. ReadInv'
  BY <1>1 DEF ReadInv, Reading, Comparing, TimerDisable, Step
<1>5. TickInv'
  BY <1>1 DEF DelayInv, TickInv, Passes, Numbers, Enabled, TimerDisable, Step, UnchangedButDelay
<1> QED BY <1>2, <1>3, <1>4, <1>5, Zenon DEF DelayInv

\* What a write to mtimecmp does to these numbers.
Stores ==
  /\ mtime_q' = mtime_q + 1 /\ mtime_q' <= MaxTime /\ interrupt_q' = FALSE
  /\ TimerTypeOK'

\* A write to the low word leaves the high word as it was.
LEMMA LowWritten ==
  ASSUME TypeOK, NEW word \in Word, Edge(Store("MTIMECMP_LOW", word))
  PROVE  /\ Stores /\ High(mtimecmp_q') = High(mtimecmp_q)
         /\ mtimecmp_q' = Joined(High(mtimecmp_q), word)
<1>1. Numbers
  BY NumbersHold
<1>2. /\ mtime_q' = mtime_q + 1 /\ mtime_q' <= MaxTime /\ interrupt_q' = FALSE
      /\ mtimecmp_q' = Joined(High(mtimecmp_q), word)
  BY LowStored, Zenon DEF TypeOK
<1>3. mtime_q' \in Time
  BY <1>1, <1>2, FactsHold DEF Facts, Numbers
<1>4. High(mtimecmp_q) \in Word
  BY <1>1, FactsHold, Zenon DEF Facts, Numbers
<1>5. mtimecmp_q' \in Time /\ High(mtimecmp_q') = High(mtimecmp_q)
  BY <1>2, <1>4, FactsHold, Zenon DEF Facts
<1> QED BY <1>2, <1>3, <1>5, Zenon DEF Stores, TimerTypeOK

\* A write to the high word sets it.
LEMMA HighWritten ==
  ASSUME TypeOK, NEW word \in Word, Edge(Store("MTIMECMP_HIGH", word))
  PROVE  Stores /\ High(mtimecmp_q') = word
<1>1. Numbers
  BY NumbersHold
<1>2. /\ mtime_q' = mtime_q + 1 /\ mtime_q' <= MaxTime /\ interrupt_q' = FALSE
      /\ mtimecmp_q' = Joined(word, Low(mtimecmp_q))
  BY HighStored, Zenon DEF TypeOK
<1>3. mtime_q' \in Time
  BY <1>1, <1>2, FactsHold DEF Facts, Numbers
<1>4. Low(mtimecmp_q) \in Word
  BY <1>1, FactsHold, Zenon DEF Facts, Numbers
<1>5. mtimecmp_q' \in Time /\ High(mtimecmp_q') = word
  BY <1>2, <1>4, FactsHold, Zenon DEF Facts
<1> QED BY <1>2, <1>3, <1>5, Zenon DEF Stores, TimerTypeOK

\* The sum does not wrap.
LEMMA NewTime ==
  ASSUME DelayInv, pc \in Comparing
  PROVE  /\ new_time = ReadTime + Increment /\ High(new_time) \in Word /\ Low(new_time) \in Word
         /\ Joined(High(new_time), Low(new_time)) = new_time
<1>1. Numbers /\ ReadTime < mtime_q /\ mtime_q <= MaxTime
  BY NumbersHold DEF DelayInv, ReadInv, TickInv
<1>2. ReadTime + Increment \in Time
  BY <1>1, FactsHold DEF Facts, Numbers
<1>3. new_time = ReadTime + Increment
  <2> DEFINE n == Half * Half
             t == ReadTime + Increment
  <2>1. n \in Nat \ {0} /\ t \in 0 .. n - 1
    BY <1>2, Constants DEF Time
  <2> HIDE DEF n, t
  <2>2. t % n = t
    BY <2>1
  <2> QED BY <2>2, Zenon DEF new_time, ReadTime, n, t
<1> QED BY <1>2, <1>3, FactsHold, Zenon DEF Facts

\* mtimecmp is no tick between the first write and the last.
LEMMA CompareMaxStep == DelayInv /\ CompareMax => DelayInv'
<1> SUFFICES ASSUME DelayInv, CompareMax PROVE DelayInv'
  OBVIOUS
<1>1. Numbers
  BY NumbersHold DEF DelayInv
<1>2. pc \in Comparing
  BY DEF CompareMax, Step, Comparing
<1>3. Half - 1 \in Word
  BY HalfType DEF Word
<1>4. Stores /\ High(mtimecmp_q') = High(mtimecmp_q)
  BY <1>3, LowWritten, Zenon DEF DelayInv, CompareMax, Step
<1>5. TypeOK'
  <2>1. pc' \in TimecmpSteps \cup MainSteps \cup HandlerSteps
    BY DEF CompareMax, Step, TimecmpSteps, MainSteps, HandlerSteps
  <2>2. stall' \in 0 .. MaxStall
    BY <1>1 DEF Numbers, CompareMax, Step
  <2> QED BY <1>4, <2>1, <2>2, Zenon DEF DelayInv, TypeOK, Stores, CompareMax, UnchangedButReads
<1>6. PathInv'
  BY DEF DelayInv, PathInv, Enabled, TimecmpSteps, HandlerSteps, CompareMax, Step, UnchangedButReads
<1>7. ReadInv'
  <2>1. ReadTime' = ReadTime /\ Earliest' = Earliest
    BY DEF ReadTime, Earliest, CompareMax, Step, UnchangedButReads
  <2>2. (pc = "compare_low" => High(mtimecmp_q) = High(ReadTime + Increment))'
    BY <1>2, <1>4, <2>1, NewTime, Zenon DEF CompareMax, Step
  <2> QED BY <1>1, <1>2, <1>4, <2>1, <2>2 DEF DelayInv, ReadInv, Stores, Numbers, CompareMax, Step
<1>8. TickInv'
  BY <1>1, <1>4 DEF DelayInv, TickInv, Stores, Numbers, Enabled, HandlerSteps, CompareMax, Step,
    UnchangedButReads
<1> QED BY <1>5, <1>6, <1>7, <1>8, Zenon DEF DelayInv

\* The second write sets the high word of the next tick.
LEMMA CompareHighStep == DelayInv /\ CompareHigh => DelayInv'
<1> SUFFICES ASSUME DelayInv, CompareHigh PROVE DelayInv'
  OBVIOUS
<1>1. Numbers
  BY NumbersHold DEF DelayInv
<1>2. pc \in Comparing
  BY DEF CompareHigh, Step, Comparing
<1>3. High(new_time) \in Word
  BY <1>2, NewTime, Zenon
<1>4. Stores /\ High(mtimecmp_q') = High(new_time)
  BY <1>3, HighWritten, Zenon DEF DelayInv, CompareHigh, Step
<1>5. TypeOK'
  <2>1. pc' \in TimecmpSteps \cup MainSteps \cup HandlerSteps
    BY DEF CompareHigh, Step, TimecmpSteps, MainSteps, HandlerSteps
  <2>2. stall' \in 0 .. MaxStall
    BY <1>1 DEF Numbers, CompareHigh, Step
  <2> QED BY <1>4, <2>1, <2>2, Zenon DEF DelayInv, TypeOK, Stores, CompareHigh, UnchangedButReads
<1>6. PathInv'
  BY DEF DelayInv, PathInv, Enabled, TimecmpSteps, HandlerSteps, CompareHigh, Step,
    UnchangedButReads
<1>7. ReadInv'
  <2>1. ReadTime' = ReadTime /\ Earliest' = Earliest
    BY DEF ReadTime, Earliest, CompareHigh, Step, UnchangedButReads
  <2>2. (pc = "compare_low" => High(mtimecmp_q) = High(ReadTime + Increment))'
    BY <1>2, <1>4, <2>1, NewTime, Zenon DEF CompareHigh, Step
  <2> QED BY <1>1, <1>2, <1>4, <2>1, <2>2 DEF DelayInv, ReadInv, Stores, Numbers, CompareHigh, Step
<1>8. TickInv'
  BY <1>1, <1>4 DEF DelayInv, TickInv, Stores, Numbers, Enabled, HandlerSteps, CompareHigh,
    Step, UnchangedButReads
<1> QED BY <1>5, <1>6, <1>7, <1>8, Zenon DEF DelayInv

\* The three writes have set both words of mtimecmp.
LEMMA CompareSet ==
  ASSUME DelayInv, CompareLow
  PROVE  Stores /\ mtimecmp_q' = ReadTime + Increment
<1>1. pc \in Comparing /\ Low(new_time) \in Word
  BY NewTime DEF CompareLow, Step, Comparing
<1>2. Stores /\ mtimecmp_q' = Joined(High(mtimecmp_q), Low(new_time))
  BY <1>1, LowWritten, Zenon DEF DelayInv, CompareLow, Step
<1>3. High(mtimecmp_q) = High(new_time)
  BY <1>1, NewTime, Zenon DEF DelayInv, ReadInv, CompareLow, Step
<1> QED BY <1>1, <1>2, <1>3, NewTime, Zenon

\* The third makes mtimecmp the next tick, an Increment after what was read.
LEMMA CompareLowStep == DelayInv /\ CompareLow => DelayInv'
<1> SUFFICES ASSUME DelayInv, CompareLow PROVE DelayInv'
  OBVIOUS
<1>1. Numbers
  BY NumbersHold DEF DelayInv
<1>2. pc \in Comparing
  BY DEF CompareLow, Step, Comparing
<1>3. Low(new_time) \in Word
  BY <1>2, NewTime, Zenon
<1>4. Stores /\ mtimecmp_q' = Joined(High(mtimecmp_q), Low(new_time))
  BY <1>3, LowWritten, Zenon DEF DelayInv, CompareLow, Step
<1>5. TypeOK'
  <2>1. pc' \in TimecmpSteps \cup MainSteps \cup HandlerSteps
    BY DEF CompareLow, Step, TimecmpSteps, MainSteps, HandlerSteps
  <2>2. stall' \in 0 .. MaxStall
    BY <1>1 DEF Numbers, CompareLow, Step
  <2> QED BY <1>4, <2>1, <2>2, Zenon DEF DelayInv, TypeOK, Stores, CompareLow, UnchangedButReads
<1>6. PathInv'
  BY DEF DelayInv, PathInv, Enabled, HandlerSteps, CompareLow, Step, UnchangedButReads
<1>7. ReadInv'
  <2>1. ReadTime' = ReadTime /\ Earliest' = Earliest
    BY DEF ReadTime, Earliest, CompareLow, Step, UnchangedButReads
  <2>2. (pc = "compare_low" => High(mtimecmp_q) = High(ReadTime + Increment))'
    BY <1>2, <1>4, <2>1, NewTime, Zenon DEF CompareLow, Step
  <2> QED BY <1>1, <1>2, <1>4, <2>1, <2>2 DEF DelayInv, ReadInv, Stores, Numbers, CompareLow, Step
<1>8. TickInv'
  <2>1. mtimecmp_q' = ReadTime + Increment
    BY CompareSet
  <2>2. Earliest <= ReadTime /\ ReadTime < mtime_q
    BY <1>2 DEF DelayInv, ReadInv
  <2> QED BY <1>1, <1>4, <2>1, <2>2 DEF TickInv, Earliest, Stores, Numbers, Enabled, CompareLow,
      Step, UnchangedButReads
<1> QED BY <1>5, <1>6, <1>7, <1>8, Zenon DEF DelayInv

\* begun moves to the time of the call.
LEMMA CallStep ==
  ASSUME DelayInv, NEW delay \in Delays, Call(delay)
  PROVE  DelayInv'
<1>1. Numbers /\ Passes
  BY Quiet, Zenon DEF DelayInv, Call, Step
<1>2. Due(begun', time_elapsed') = mtime_q
  BY <1>1, FactsHold DEF Facts, Numbers, Call, Step
<1>3. TypeOK'
  <2>1. pc' \in TimecmpSteps \cup MainSteps \cup HandlerSteps
    BY DEF Call, Step, TimecmpSteps
  <2>2. stall' \in 0 .. MaxStall /\ time_elapsed' \in Nat
    BY <1>1 DEF Numbers, Call, Step
  <2> QED BY <1>1, <2>1, <2>2, Zenon DEF DelayInv, TypeOK, Passes, Numbers, Call
<1>4. PathInv'
  BY DEF DelayInv, PathInv, Enabled, TimecmpSteps, HandlerSteps, Call, Step
<1>5. ReadInv'
  BY <1>1, <1>2 DEF DelayInv, PathInv, ReadInv, Earliest, Passes, Numbers, Comparing,
    TimecmpSteps, HandlerSteps, Call, Step
<1>6. TickInv'
  BY <1>1, <1>2 DEF TickInv, Passes, Numbers, Enabled, HandlerSteps, Call, Step
<1> QED BY <1>3, <1>4, <1>5, <1>6, Zenon DEF DelayInv

\* Every step keeps the invariant.
LEMMA DelayStep == DelayInv /\ [Next]_vars => DelayInv'
<1> SUFFICES ASSUME DelayInv, [Next]_vars PROVE DelayInv'
  OBVIOUS
<1>1. CASE UNCHANGED vars
  BY <1>1, Zenon DEF vars, timerVars, progVars, DelayInv, TypeOK, TimerTypeOK, PathInv, ReadInv,
    TickInv, Earliest, ReadTime
<1>2. CASE IncrementTimecmp
  BY <1>2, ReadHighStep, ReadLowStep, RereadStep, CompareMaxStep, CompareHighStep, CompareLowStep, Zenon
  DEF IncrementTimecmp
<1>3. CASE Delay
  BY <1>3, EnableInterruptsStep, SetGlobalInterruptEnableStep, StartStep, CheckStep, WfiStep, TimerDisableStep, Zenon
  DEF Delay
<1>4. CASE Stall \/ Interrupt \/ Mret \/ Elsewhere \/ Count
  BY <1>4, StallStep, InterruptStep, MretStep, ElsewhereStep, CountStep, Zenon
<1>5. CASE \E delay \in Delays : Call(delay)
  BY <1>5, CallStep, Zenon
<1> QED BY <1>1, <1>2, <1>3, <1>4, <1>5, Zenon DEF Next

\* It holds of every behaviour.
LEMMA DelayHolds == Spec => []DelayInv
<1>1. Init => DelayInv
  BY DelayInit
<1>2. DelayInv /\ [Next]_vars => DelayInv'
  BY DelayStep
<1> QED BY <1>1, <1>2, PTL DEF Spec

(***************************************************************************)
(* The variables keep their types: no write gives mtimecmp a word that is  *)
(* not one, and no sum wraps.                                              *)
(***************************************************************************)
THEOREM TypeCorrect == Spec => []TypeOK
<1>1. DelayInv => TypeOK
  BY DEF DelayInv
<1> QED BY <1>1, DelayHolds, PTL

(***************************************************************************)
(* No tick is counted before its time, so timer_delay is never short: for  *)
(* every Increment and word size, wherever mtime carries while timer_read  *)
(* reads it, and whatever interrupt was pending when timer_enable set      *)
(* mtimecmp.                                                               *)
(***************************************************************************)
THEOREM TicksCorrect == Spec => []TicksNotEarly
<1>1. DelayInv => TicksNotEarly
  <2> SUFFICES ASSUME DelayInv PROVE TicksNotEarly
    OBVIOUS
  <2>1. Numbers /\ begun + time_elapsed * Increment <= mtime_q
    BY NumbersHold DEF DelayInv, TickInv, Due
  <2> DEFINE n == time_elapsed * Increment
  <2>2. n \in Nat
    BY <2>1, Z3 DEF Numbers
  <2> HIDE DEF n
  <2>3. begun + n <= mtime_q
    BY <2>1 DEF n
  <2>4. n <= mtime_q - begun
    BY <2>1, <2>2, <2>3 DEF Numbers
  <2> QED BY <2>4, Zenon DEF TicksNotEarly, n
<1> QED BY <1>1, DelayHolds, PTL

(***************************************************************************)
(* The core sleeps only on a tick that wakes it, enabled and at most an    *)
(* Increment away, even if the one it checked for came before wfi.         *)
(***************************************************************************)
THEOREM SleeperCorrect == Spec => []SleeperWillWake
<1>1. DelayInv => SleeperWillWake
  <2> SUFFICES ASSUME DelayInv PROVE SleeperWillWake
    OBVIOUS
  <2>1. Numbers
    BY NumbersHold DEF DelayInv
  <2> QED BY <2>1 DEF DelayInv, PathInv, TickInv, Numbers, SleeperWillWake, Enabled,
      TimecmpSteps, HandlerSteps
<1> QED BY <1>1, DelayHolds, PTL

-----------------------------------------------------------------------------
(* How late a delay can be.                                                *)

S == MaxStall + 1   \* cycles a step may take

\* The latest time of the read that the nth tick counts from.
Late(start, n) == start + 5 * S + n * (Increment + 6 * S)

\* No more than i steps have passed since the time, and the one under way.
Within(time, i) == mtime_q <= time + i * S + 1 + stall

LastRead == mtimecmp_q - Increment
Soon == mtime_q <= mtimecmp_q + 1 + stall

\* Main is behind the last read of mtime by its steps, or waits for the next tick.
MainLate ==
  /\ mepc = "none" /\ pc \in TimecmpSteps \cup {"enable", "global", "start"} => time_elapsed = 0
  /\ pc # "away" => ms >= 1
  /\ mepc # "none" \/ pc \in {"check", "wfi", "asleep", "disable"} => timeout = ms
  /\ pc \in {"enable", "global", "start"} => LastRead <= Late(begun, 0)
  /\ pc = "enable" => Within(LastRead, 4)
  /\ pc = "global" => Within(LastRead, 5)
  /\ pc = "start" => Within(LastRead, 6)
  /\ pc = "check" =>
       /\ time_elapsed <= ms + 1 /\ LastRead <= Late(begun, time_elapsed)
       /\ Within(LastRead, 6) \/ (time_elapsed = 0 /\ Soon)
  /\ pc = "wfi" =>
       /\ LastRead <= Late(begun, time_elapsed)
       /\ (time_elapsed < ms /\ Soon) \/ (time_elapsed <= ms /\ Within(LastRead, 6))
  /\ pc = "asleep" => LastRead <= Late(begun, time_elapsed) /\ time_elapsed <= ms /\ Soon
  /\ pc = "disable" =>
       \/ time_elapsed <= ms + 1 /\ LastRead <= Late(begun, time_elapsed) /\ Within(LastRead, 7)
       \/ LastRead <= Late(begun, ms + 1) + 13 * S /\ Within(LastRead, 6)

\* The time at which increment_timecmp is entered, at the latest, and the latest it may read.
Entry == IF mepc = "none" THEN begun
         ELSE IF mepc = "disable" THEN LastRead + 8 * S ELSE mtimecmp_q + S
Latest == IF mepc = "none" THEN Late(begun, 0)
          ELSE IF mepc = "disable" THEN Late(begun, ms + 1) + 13 * S ELSE Late(begun, time_elapsed + 1)

\* The read loops once at most: the second time round, mtime has just carried.
AtHigh == current_timeh = High(mtime_q)
ReadLate ==
  /\ pc = "read_high" => Within(Entry, 0) \/ (Within(Entry, 3) /\ Low(mtime_q) <= 2 * S + stall)
  /\ pc = "read_low" =>
       \/ Within(Entry, 1) /\ (AtHigh \/ Low(mtime_q) <= stall)
       \/ Within(Entry, 4) /\ AtHigh /\ Low(mtime_q) <= 3 * S + stall
  /\ pc = "reread" =>
       /\ \/ Within(Entry, 2) /\ (AtHigh \/ Low(mtime_q) <= S + stall)
          \/ Within(Entry, 5) /\ AtHigh /\ Low(mtime_q) <= 4 * S + stall
       /\ AtHigh => Within(ReadTime, 0) /\ ReadTime <= Entry + 5 * S
  /\ pc \in Reading /\ mepc # "none" => LastRead <= Late(begun, time_elapsed)
  /\ pc \in Comparing => ReadTime <= Latest
  /\ pc = "compare_max" => Within(ReadTime, 1)
  /\ pc = "compare_high" => Within(ReadTime, 2)
  /\ pc = "compare_low" => Within(ReadTime, 3)

\* The handler counts no tick that main does not wait for, but one, and one more in timer_disable.
HandlerLate ==
  /\ mepc # "none" /\ pc # "mret" =>
       /\ mepc = "check" => time_elapsed <= ms
       /\ mepc = "wfi" => time_elapsed < ms
       /\ mepc = "disable" => time_elapsed <= ms + 1
  /\ mepc # "none" /\ pc = "mret" =>
       /\ mepc = "check" => time_elapsed <= ms + 1
       /\ mepc = "wfi" => time_elapsed <= ms
  /\ mepc \notin {"global", "start"}
  /\ pc = "count" => Within(LastRead, 4) /\ LastRead <= Latest
  /\ pc = "mret" =>
       /\ Within(LastRead, 5)
       /\ LastRead <= IF mepc = "disable" THEN Late(begun, ms + 1) + 13 * S ELSE Late(begun, time_elapsed)

LateInv == MainLate /\ ReadLate /\ HandlerLate

\* The latest time of a read is an Increment and six steps after the one before.
LEMMA LateFacts ==
  /\ S \in Nat \ {0} /\ Increment \in Nat /\ Increment > 7 * S /\ 5 * S < Half /\ Half \in Nat /\ MaxStall = S - 1
  /\ \A s, n \in Nat : Late(s, n) \in Nat /\ Late(s, n + 1) = Late(s, n) + Increment + 6 * S
  /\ \A s \in Nat : Late(s, 0) = s + 5 * S
  /\ \A s, n, k \in Nat : n <= k => Late(s, n) <= Late(s, k)
<1>1. /\ S \in Nat \ {0} /\ Increment \in Nat /\ Increment > 7 * S
      /\ 5 * S < Half /\ Half \in Nat /\ MaxStall = S - 1
  BY DelayAssumption, HalfType DEF S
<1> DEFINE d == Increment + 6 * S
<1>2. d \in Nat
  BY <1>1
<1>3. \A s, n : Late(s, n) = s + 5 * S + n * d
  BY DEF Late
<1> HIDE DEF d
<1>4. \A n \in Nat : n * d \in Nat /\ (n + 1) * d = n * d + d /\ 0 * d = 0
  BY <1>2, Z3
<1>5. \A n, k \in Nat : n <= k => n * d <= k * d
  BY <1>2, Z3
<1>6. \A s, n \in Nat : Late(s, n) \in Nat /\ Late(s, n + 1) = Late(s, n) + d
  BY <1>1, <1>2, <1>3, <1>4
<1>7. \A s \in Nat : Late(s, 0) = s + 5 * S
  BY <1>1, <1>3, <1>4
<1>8. \A s, n, k \in Nat : n <= k => Late(s, n) <= Late(s, k)
  BY <1>1, <1>3, <1>4, <1>5
<1>9. \A s, n \in Nat : Late(s, n) \in Nat /\ Late(s, n + 1) = Late(s, n) + Increment + 6 * S
  BY <1>1, <1>6 DEF d
<1> QED BY <1>1, <1>7, <1>8, <1>9

\* The same of the numbers of a state.
LateNumbers ==
  /\ S \in Nat \ {0} /\ Increment \in Nat /\ Increment > 7 * S /\ 5 * S < Half /\ Half \in Nat
  /\ mtime_q \in Nat /\ mtimecmp_q \in Nat /\ begun \in Nat /\ stall \in Nat /\ stall < S
  /\ time_elapsed \in Nat /\ ms \in Nat /\ timeout \in Nat /\ ReadTime \in Nat /\ current_timeh \in Nat
  /\ Low(mtime_q) \in Nat /\ High(mtime_q) \in Nat /\ Joined(High(mtime_q), Low(mtime_q)) = mtime_q
  /\ Late(begun, time_elapsed) \in Nat /\ Late(begun, ms + 1) \in Nat
  /\ Late(begun, 0) = begun + 5 * S
  /\ Late(begun, time_elapsed + 1) = Late(begun, time_elapsed) + Increment + 6 * S
  /\ time_elapsed <= ms + 1 => Late(begun, time_elapsed) <= Late(begun, ms + 1)
  /\ time_elapsed <= ms => Late(begun, time_elapsed + 1) <= Late(begun, ms + 1)
  /\ time_elapsed = 0 => Late(begun, time_elapsed) = begun + 5 * S

\* They follow from the types.
LEMMA LateNumbersHold == TypeOK => LateNumbers
<1> SUFFICES ASSUME TypeOK PROVE LateNumbers
  OBVIOUS
<1>1. Numbers
  BY NumbersHold
<1>2. /\ S \in Nat \ {0} /\ Increment \in Nat /\ Increment > 7 * S /\ 5 * S < Half /\ Half \in Nat
  BY LateFacts, Zenon
<1>3. /\ mtime_q \in Nat /\ mtimecmp_q \in Nat /\ begun \in Nat /\ stall \in Nat
      /\ time_elapsed \in Nat /\ ms \in Nat /\ timeout \in Nat /\ ReadTime \in Nat /\ current_timeh \in Nat
  BY <1>1, Zenon DEF Numbers
<1>4. stall < S
  BY Constants DEF TypeOK, S
<1>5. Low(mtime_q) \in Nat /\ High(mtime_q) \in Nat /\ Joined(High(mtime_q), Low(mtime_q)) = mtime_q
  BY <1>1, FactsHold, Zenon DEF Numbers, Facts
<1>6. ms + 1 \in Nat /\ time_elapsed + 1 \in Nat
  BY <1>3
<1>7. /\ Late(begun, time_elapsed) \in Nat /\ Late(begun, ms + 1) \in Nat
      /\ Late(begun, 0) = begun + 5 * S
      /\ Late(begun, time_elapsed + 1) = Late(begun, time_elapsed) + Increment + 6 * S
  BY <1>3, <1>6, LateFacts, Zenon
<1>8. /\ time_elapsed <= ms + 1 => Late(begun, time_elapsed) <= Late(begun, ms + 1)
      /\ time_elapsed + 1 <= ms + 1 => Late(begun, time_elapsed + 1) <= Late(begun, ms + 1)
  BY <1>3, <1>6, LateFacts, Zenon
<1>9. time_elapsed <= ms => time_elapsed + 1 <= ms + 1
  BY <1>3
<1> QED BY <1>2, <1>3, <1>4, <1>5, <1>7, <1>8, <1>9, Zenon DEF LateNumbers

\* A clock edge counts the low word or, only from its last value, carries.
Carries ==
  /\ mtime_q' = mtime_q + 1
  /\ Low(mtime_q) # Half - 1 => High(mtime_q') = High(mtime_q) /\ Low(mtime_q') = Low(mtime_q) + 1
  /\ Low(mtime_q) = Half - 1 => High(mtime_q') = High(mtime_q) + 1 /\ Low(mtime_q') = 0

\* Carry, for the clock edge of a step.
LEMMA CarriesHold == TypeOK /\ mtime_q' = mtime_q + 1 => Carries
<1> SUFFICES ASSUME TypeOK, mtime_q' = mtime_q + 1 PROVE Carries
  OBVIOUS
<1>1. mtime_q \in Nat
  BY NumbersHold, Zenon DEF Numbers
<1> QED BY <1>1, Carry, Zenon DEF Carries

\* No delay is under way.
LEMMA LateInit == Init => LateInv
  BY DEF Init, LateInv, MainLate, ReadLate, HandlerLate, Comparing

\* A cycle more of the step under way.
LEMMA StallLate == DelayInv /\ LateInv /\ Stall => LateInv'
<1> SUFFICES ASSUME DelayInv, LateInv, Stall PROVE LateInv'
  OBVIOUS
<1>1. LateNumbers /\ LateNumbers' /\ Passes /\ Carries
  <2>1. Passes
    BY Quiet, Zenon DEF DelayInv, Stall, progVars
  <2>2. TypeOK'
    BY StallStep, Zenon DEF DelayInv
  <2>3. LateNumbers /\ LateNumbers'
    BY <2>2, LateNumbersHold, PTL DEF DelayInv
  <2> QED BY <2>1, <2>3, CarriesHold, Zenon DEF DelayInv, Passes
<1>2. MainLate'
  BY <1>1 DEF LateInv, MainLate, LateNumbers, Passes, Within, LastRead, Soon, Stall, progVars
<1>3. ReadLate'
  BY <1>1 DEF LateInv, ReadLate, LateNumbers, Passes, Carries, Within, LastRead, Entry, Latest,
    AtHigh, ReadTime, Stall, progVars
<1>4. HandlerLate'
  BY <1>1 DEF LateInv, HandlerLate, LateNumbers, Passes, Within, LastRead, Latest, Stall, progVars
<1> QED BY <1>2, <1>3, <1>4, Zenon DEF LateInv

\* No interrupt comes within seven steps of a read, since an Increment is longer; so main was at Check, Wfi or beyond.
LEMMA InterruptLate == DelayInv /\ LateInv /\ Interrupt => LateInv'
<1> SUFFICES ASSUME DelayInv, LateInv, Interrupt PROVE LateInv'
  OBVIOUS
<1>1. LateNumbers /\ LateNumbers' /\ Passes /\ Carries
  <2>1. Passes
    BY Quiet, Zenon DEF DelayInv, Interrupt, handle_irq, irq_pending
  <2>2. TypeOK'
    BY InterruptStep, Zenon DEF DelayInv
  <2>3. LateNumbers /\ LateNumbers'
    BY <2>2, LateNumbersHold, PTL DEF DelayInv
  <2> QED BY <2>1, <2>3, CarriesHold, Zenon DEF DelayInv, Passes
<1>2. MainLate'
  BY <1>1 DEF DelayInv, PathInv, TickInv, LateInv, MainLate, LateNumbers, Within, LastRead,
    Enabled, Interrupt, handle_irq, irq_pending
<1>3. ReadLate'
  BY <1>1 DEF DelayInv, PathInv, TickInv, LateInv, MainLate, ReadLate, LateNumbers, Passes,
    Within, LastRead, Soon, Entry, Comparing, Enabled, Interrupt, handle_irq, irq_pending
<1>4. HandlerLate'
  BY <1>1 DEF DelayInv, PathInv, TickInv, LateInv, MainLate, HandlerLate, LateNumbers, Within,
    LastRead, Interrupt, handle_irq, irq_pending
<1> QED BY <1>2, <1>3, <1>4, Zenon DEF LateInv

\* Main is six steps from the last read.
LEMMA MretLate == DelayInv /\ LateInv /\ Mret => LateInv'
<1> SUFFICES ASSUME DelayInv, LateInv, Mret PROVE LateInv'
  OBVIOUS
<1>1. LateNumbers /\ LateNumbers' /\ Passes /\ Carries
  <2>1. Passes
    BY Quiet, Zenon DEF DelayInv, Mret
  <2>2. TypeOK'
    BY MretStep, Zenon DEF DelayInv
  <2>3. LateNumbers /\ LateNumbers'
    BY <2>2, LateNumbersHold, PTL DEF DelayInv
  <2> QED BY <2>1, <2>3, CarriesHold, Zenon DEF DelayInv, Passes
<1>2. MainLate'
  BY <1>1 DEF DelayInv, PathInv, LateInv, MainLate, HandlerLate, LateNumbers, Passes, Within,
    LastRead, Enabled, TimecmpSteps, Mret
<1>3. ReadLate'
  BY <1>1 DEF DelayInv, PathInv, ReadLate, ReadTime, Comparing, Enabled, Mret
<1>4. HandlerLate'
  BY <1>1 DEF DelayInv, PathInv, HandlerLate, Enabled, Mret
<1> QED BY <1>2, <1>3, <1>4, Zenon DEF LateInv

\* The sleeper does not outlast the tick.
LEMMA ElsewhereLate == DelayInv /\ LateInv /\ Elsewhere => LateInv'
<1> SUFFICES ASSUME DelayInv, LateInv, Elsewhere PROVE LateInv'
  OBVIOUS
<1>1. LateNumbers /\ LateNumbers' /\ Passes /\ Carries
  <2>1. Passes
    BY Quiet, Zenon DEF DelayInv, Elsewhere, Step
  <2>2. TypeOK'
    BY ElsewhereStep, Zenon DEF DelayInv
  <2>3. LateNumbers /\ LateNumbers'
    BY <2>2, LateNumbersHold, PTL DEF DelayInv
  <2> QED BY <2>1, <2>3, CarriesHold, Zenon DEF DelayInv, Passes
<1>2. MainLate'
  BY <1>1 DEF DelayInv, PathInv, TickInv, LateInv, MainLate, LateNumbers, Passes, LastRead,
    Soon, Enabled, TimecmpSteps, HandlerSteps, Elsewhere, Step, handle_irq, irq_pending,
    UnchangedButDelay
<1>3. ReadLate'
  BY <1>1 DEF LateInv, ReadLate, Passes, LastRead, Latest, ReadTime, Elsewhere, Step,
    UnchangedButDelay
<1>4. HandlerLate'
  BY <1>1 DEF LateInv, HandlerLate, Elsewhere, Step, UnchangedButDelay
<1> QED BY <1>2, <1>3, <1>4, Zenon DEF LateInv

\* The second time round, the high word has just been carried into, and stays.
LEMMA ReadHighLate == DelayInv /\ LateInv /\ ReadHigh => LateInv'
<1> SUFFICES ASSUME DelayInv, LateInv, ReadHigh PROVE LateInv'
  OBVIOUS
<1>1. LateNumbers /\ LateNumbers' /\ Passes /\ Carries
  <2>1. Passes
    BY Quiet, Zenon DEF DelayInv, ReadHigh, Step, UnchangedButReads
  <2>2. TypeOK'
    BY ReadHighStep, Zenon DEF DelayInv
  <2>3. LateNumbers /\ LateNumbers'
    BY <2>2, LateNumbersHold, PTL DEF DelayInv
  <2> QED BY <2>1, <2>3, CarriesHold, Zenon DEF DelayInv, Passes
<1>2. MainLate'
  BY <1>1 DEF LateInv, MainLate, TimecmpSteps, ReadHigh, Step, UnchangedButReads
<1>3. ReadLate'
  BY <1>1 DEF LateInv, ReadLate, LateNumbers, Passes, Carries, Within, LastRead, Entry, AtHigh,
    Reading, Comparing, ReadHigh, Step, UnchangedButReads
<1>4. HandlerLate'
  BY <1>1 DEF LateInv, HandlerLate, ReadHigh, Step, UnchangedButReads
<1> QED BY <1>2, <1>3, <1>4, Zenon DEF LateInv

\* If it was not the first word read, it carried while that was read.
LEMMA ReadLowLate == DelayInv /\ LateInv /\ ReadLow => LateInv'
<1> SUFFICES ASSUME DelayInv, LateInv, ReadLow PROVE LateInv'
  OBVIOUS
<1>1. LateNumbers /\ LateNumbers' /\ Passes /\ Carries
  <2>1. Passes
    BY Quiet, Zenon DEF DelayInv, ReadLow, Step, UnchangedButReads
  <2>2. TypeOK'
    BY ReadLowStep, Zenon DEF DelayInv
  <2>3. LateNumbers /\ LateNumbers'
    BY <2>2, LateNumbersHold, PTL DEF DelayInv
  <2> QED BY <2>1, <2>3, CarriesHold, Zenon DEF DelayInv, Passes
<1>2. MainLate'
  BY <1>1 DEF LateInv, MainLate, TimecmpSteps, ReadLow, Step, UnchangedButReads
<1>3. ReadLate'
  BY <1>1 DEF LateInv, ReadLate, LateNumbers, Passes, Carries, Within, LastRead, Entry, AtHigh,
    ReadTime, Reading, Comparing, ReadLow, Step, UnchangedButReads
<1>4. HandlerLate'
  BY <1>1 DEF LateInv, HandlerLate, ReadLow, Step, UnchangedButReads
<1> QED BY <1>2, <1>3, <1>4, Zenon DEF LateInv

\* The words agree, or it is the first time round and mtime has just carried.
LEMMA RereadLate == DelayInv /\ LateInv /\ Reread => LateInv'
<1> SUFFICES ASSUME DelayInv, LateInv, Reread PROVE LateInv'
  OBVIOUS
<1>1. LateNumbers /\ LateNumbers' /\ Passes /\ Carries
  <2>1. Passes
    BY Quiet, Zenon DEF DelayInv, Reread, Step, UnchangedButReads
  <2>2. TypeOK'
    BY RereadStep, Zenon DEF DelayInv
  <2>3. LateNumbers /\ LateNumbers'
    BY <2>2, LateNumbersHold, PTL DEF DelayInv
  <2> QED BY <2>1, <2>3, CarriesHold, Zenon DEF DelayInv, Passes
<1>2. MainLate'
  BY <1>1 DEF LateInv, MainLate, TimecmpSteps, Reread, Step, UnchangedButReads
<1>3. ReadLate'
  BY <1>1 DEF LateInv, ReadLate, HandlerLate, LateNumbers, Passes, Carries, Within, LastRead,
    Entry, Latest, AtHigh, ReadTime, Reading, Comparing, Reread, Step, UnchangedButReads
<1>4. HandlerLate'
  BY <1>1 DEF LateInv, HandlerLate, Reread, Step, UnchangedButReads
<1> QED BY <1>2, <1>3, <1>4, Zenon DEF LateInv

\* The tick is counted within five steps of the read.
LEMMA CountLate == DelayInv /\ LateInv /\ Count => LateInv'
<1> SUFFICES ASSUME DelayInv, LateInv, Count PROVE LateInv'
  OBVIOUS
<1>1. LateNumbers /\ LateNumbers' /\ Passes /\ Carries
  <2>1. Passes
    BY Quiet, Zenon DEF DelayInv, Count, Step
  <2>2. TypeOK'
    BY CountStep, Zenon DEF DelayInv
  <2>3. LateNumbers /\ LateNumbers'
    BY <2>2, LateNumbersHold, PTL DEF DelayInv
  <2> QED BY <2>1, <2>3, CarriesHold, Zenon DEF DelayInv, Passes
<1>2. MainLate'
  BY <1>1 DEF LateInv, MainLate, TimecmpSteps, Count, Step
<1>3. ReadLate'
  BY <1>1 DEF ReadLate, Reading, Comparing, Count, Step
<1>4. HandlerLate'
  BY <1>1 DEF DelayInv, PathInv, LateInv, HandlerLate, LateNumbers, Passes, Within, LastRead,
    Latest, HandlerSteps, Count, Step
<1> QED BY <1>2, <1>3, <1>4, Zenon DEF LateInv

\* Main is a step further from its read.
LEMMA EnableInterruptsLate == DelayInv /\ LateInv /\ EnableInterrupts => LateInv'
<1> SUFFICES ASSUME DelayInv, LateInv, EnableInterrupts PROVE LateInv'
  OBVIOUS
<1>1. LateNumbers /\ LateNumbers' /\ Passes /\ Carries
  <2>1. Passes
    BY Quiet, Zenon DEF DelayInv, EnableInterrupts, Step, UnchangedButDelay
  <2>2. TypeOK'
    BY EnableInterruptsStep, Zenon DEF DelayInv
  <2>3. LateNumbers /\ LateNumbers'
    BY <2>2, LateNumbersHold, PTL DEF DelayInv
  <2> QED BY <2>1, <2>3, CarriesHold, Zenon DEF DelayInv, Passes
<1>2. MainLate'
  BY <1>1 DEF LateInv, MainLate, LateNumbers, Passes, Within, LastRead, EnableInterrupts, Step,
    UnchangedButDelay
<1>3. ReadLate'
  BY <1>1 DEF ReadLate, Reading, Comparing, EnableInterrupts, Step
<1>4. HandlerLate'
  BY <1>1 DEF LateInv, HandlerLate, EnableInterrupts, Step, UnchangedButDelay
<1> QED BY <1>2, <1>3, <1>4, Zenon DEF LateInv

\* The same of the next step.
LEMMA SetGlobalInterruptEnableLate == DelayInv /\ LateInv /\ SetGlobalInterruptEnable => LateInv'
<1> SUFFICES ASSUME DelayInv, LateInv, SetGlobalInterruptEnable PROVE LateInv'
  OBVIOUS
<1>1. LateNumbers /\ LateNumbers' /\ Passes /\ Carries
  <2>1. Passes
    BY Quiet, Zenon DEF DelayInv, SetGlobalInterruptEnable, Step, UnchangedButDelay
  <2>2. TypeOK'
    BY SetGlobalInterruptEnableStep, Zenon DEF DelayInv
  <2>3. LateNumbers /\ LateNumbers'
    BY <2>2, LateNumbersHold, PTL DEF DelayInv
  <2> QED BY <2>1, <2>3, CarriesHold, Zenon DEF DelayInv, Passes
<1>2. MainLate'
  BY <1>1 DEF LateInv, MainLate, LateNumbers, Passes, Within, LastRead,
    SetGlobalInterruptEnable, Step, UnchangedButDelay
<1>3. ReadLate'
  BY <1>1 DEF ReadLate, Reading, Comparing, SetGlobalInterruptEnable, Step
<1>4. HandlerLate'
  BY <1>1 DEF LateInv, HandlerLate, SetGlobalInterruptEnable, Step, UnchangedButDelay
<1> QED BY <1>2, <1>3, <1>4, Zenon DEF LateInv

\* The first Check comes within eight steps of the read, so not after the tick.
LEMMA StartLate == DelayInv /\ LateInv /\ Start => LateInv'
<1> SUFFICES ASSUME DelayInv, LateInv, Start PROVE LateInv'
  OBVIOUS
<1>1. LateNumbers /\ LateNumbers' /\ Passes /\ Carries
  <2>1. Passes
    BY Quiet, Zenon DEF DelayInv, Start, Step, UnchangedButDelay
  <2>2. TypeOK'
    BY StartStep, Zenon DEF DelayInv
  <2>3. LateNumbers /\ LateNumbers'
    BY <2>2, LateNumbersHold, PTL DEF DelayInv
  <2> QED BY <2>1, <2>3, CarriesHold, Zenon DEF DelayInv, Passes
<1>2. MainLate'
  BY <1>1 DEF DelayInv, PathInv, LateInv, MainLate, LateNumbers, Passes, Within, LastRead, Soon,
    TimecmpSteps, HandlerSteps, Start, Step, UnchangedButDelay
<1>3. ReadLate'
  BY <1>1 DEF ReadLate, Reading, Comparing, Start, Step
<1>4. HandlerLate'
  BY <1>1 DEF LateInv, HandlerLate, Start, Step, UnchangedButDelay
<1> QED BY <1>2, <1>3, <1>4, Zenon DEF LateInv

\* Main goes to sleep only before the last tick it waits for, and leaves after that or the next.
LEMMA CheckLate == DelayInv /\ LateInv /\ Check => LateInv'
<1> SUFFICES ASSUME DelayInv, LateInv, Check PROVE LateInv'
  OBVIOUS
<1>1. LateNumbers /\ LateNumbers' /\ Passes /\ Carries
  <2>1. Passes
    BY Quiet, Zenon DEF DelayInv, Check, Step
  <2>2. TypeOK'
    BY CheckStep, Zenon DEF DelayInv
  <2>3. LateNumbers /\ LateNumbers'
    BY <2>2, LateNumbersHold, PTL DEF DelayInv
  <2> QED BY <2>1, <2>3, CarriesHold, Zenon DEF DelayInv, Passes
<1>2. MainLate'
  BY <1>1 DEF DelayInv, PathInv, TickInv, LateInv, MainLate, LateNumbers, Passes, Within,
    LastRead, Soon, Enabled, TimecmpSteps, HandlerSteps, Check, Step, handle_irq, irq_pending,
    UnchangedButDelay
<1>3. ReadLate'
  BY <1>1 DEF ReadLate, Reading, Comparing, Check, Step
<1>4. HandlerLate'
  BY <1>1 DEF LateInv, HandlerLate, Check, Step, UnchangedButDelay
<1> QED BY <1>2, <1>3, <1>4, Zenon DEF LateInv

\* A tick may have come since Check, one at most.
LEMMA WfiLate == DelayInv /\ LateInv /\ Wfi => LateInv'
<1> SUFFICES ASSUME DelayInv, LateInv, Wfi PROVE LateInv'
  OBVIOUS
<1>1. LateNumbers /\ LateNumbers' /\ Passes /\ Carries
  <2>1. Passes
    BY Quiet, Zenon DEF DelayInv, Wfi, Step
  <2>2. TypeOK'
    BY WfiStep, Zenon DEF DelayInv
  <2>3. LateNumbers /\ LateNumbers'
    BY <2>2, LateNumbersHold, PTL DEF DelayInv
  <2> QED BY <2>1, <2>3, CarriesHold, Zenon DEF DelayInv, Passes
<1>2. MainLate'
  BY <1>1 DEF DelayInv, PathInv, TickInv, LateInv, MainLate, LateNumbers, Passes, LastRead,
    Soon, Enabled, TimecmpSteps, HandlerSteps, Wfi, Step, handle_irq, irq_pending,
    UnchangedButDelay
<1>3. ReadLate'
  BY <1>1 DEF ReadLate, Reading, Comparing, Wfi, Step
<1>4. HandlerLate'
  BY <1>1 DEF LateInv, HandlerLate, Wfi, Step, UnchangedButDelay
<1> QED BY <1>2, <1>3, <1>4, Zenon DEF LateInv

\* Nothing is claimed of main away from timer_delay.
LEMMA TimerDisableLate == DelayInv /\ LateInv /\ TimerDisable => LateInv'
<1> SUFFICES ASSUME DelayInv, LateInv, TimerDisable PROVE LateInv'
  OBVIOUS
<1>1. LateNumbers /\ LateNumbers' /\ Passes /\ Carries
  <2>1. Passes
    BY Quiet, Zenon DEF DelayInv, TimerDisable, Step, UnchangedButDelay
  <2>2. TypeOK'
    BY TimerDisableStep, Zenon DEF DelayInv
  <2>3. LateNumbers /\ LateNumbers'
    BY <2>2, LateNumbersHold, PTL DEF DelayInv
  <2> QED BY <2>1, <2>3, CarriesHold, Zenon DEF DelayInv, Passes
<1>2. MainLate'
  BY <1>1 DEF LateInv, MainLate, TimecmpSteps, TimerDisable, Step
<1>3. ReadLate'
  BY <1>1 DEF ReadLate, Reading, Comparing, TimerDisable, Step
<1>4. HandlerLate'
  BY <1>1 DEF LateInv, HandlerLate, TimerDisable, Step, UnchangedButDelay
<1> QED BY <1>2, <1>3, <1>4, Zenon DEF LateInv

\* mtimecmp is set within four steps of the read.
LEMMA CompareMaxLate == DelayInv /\ LateInv /\ CompareMax => LateInv'
<1> SUFFICES ASSUME DelayInv, LateInv, CompareMax PROVE LateInv'
  OBVIOUS
<1>1. TypeOK' /\ mtime_q' = mtime_q + 1
  <2>1. Half - 1 \in Word
    BY HalfType DEF Word
  <2>2. Stores
    BY <2>1, LowWritten, Zenon DEF DelayInv, CompareMax, Step
  <2>3. TypeOK'
    BY CompareMaxStep, Zenon DEF DelayInv
  <2> QED BY <2>2, <2>3, Zenon DEF Stores
<1>2. LateNumbers /\ LateNumbers'
  BY <1>1, LateNumbersHold, PTL DEF DelayInv
<1>3. ReadTime' = ReadTime
  BY DEF ReadTime, CompareMax, Step, UnchangedButReads
<1>4. MainLate'
  BY <1>1, <1>2, <1>3 DEF LateInv, MainLate, TimecmpSteps, CompareMax, Step, UnchangedButReads
<1>5. ReadLate'
  BY <1>1, <1>2, <1>3 DEF LateInv, ReadLate, LateNumbers, Within, Latest, Reading, Comparing,
    CompareMax, Step, UnchangedButReads
<1>6. HandlerLate'
  BY <1>1, <1>2, <1>3 DEF LateInv, HandlerLate, CompareMax, Step, UnchangedButReads
<1> QED BY <1>4, <1>5, <1>6, Zenon DEF LateInv

\* The same of the second write.
LEMMA CompareHighLate == DelayInv /\ LateInv /\ CompareHigh => LateInv'
<1> SUFFICES ASSUME DelayInv, LateInv, CompareHigh PROVE LateInv'
  OBVIOUS
<1>1. TypeOK' /\ mtime_q' = mtime_q + 1
  <2>1. High(new_time) \in Word
    BY NewTime DEF CompareHigh, Step, Comparing
  <2>2. Stores
    BY <2>1, HighWritten, Zenon DEF DelayInv, CompareHigh, Step
  <2>3. TypeOK'
    BY CompareHighStep, Zenon DEF DelayInv
  <2> QED BY <2>2, <2>3, Zenon DEF Stores
<1>2. LateNumbers /\ LateNumbers'
  BY <1>1, LateNumbersHold, PTL DEF DelayInv
<1>3. ReadTime' = ReadTime
  BY DEF ReadTime, CompareHigh, Step, UnchangedButReads
<1>4. MainLate'
  BY <1>1, <1>2, <1>3 DEF LateInv, MainLate, TimecmpSteps, CompareHigh, Step, UnchangedButReads
<1>5. ReadLate'
  BY <1>1, <1>2, <1>3 DEF LateInv, ReadLate, LateNumbers, Within, Latest, Reading, Comparing,
    CompareHigh, Step, UnchangedButReads
<1>6. HandlerLate'
  BY <1>1, <1>2, <1>3 DEF LateInv, HandlerLate, CompareHigh, Step, UnchangedButReads
<1> QED BY <1>4, <1>5, <1>6, Zenon DEF LateInv

\* From here on, mtimecmp tells when mtime was read.
LEMMA CompareLowLate == DelayInv /\ LateInv /\ CompareLow => LateInv'
<1> SUFFICES ASSUME DelayInv, LateInv, CompareLow PROVE LateInv'
  OBVIOUS
<1>1. TypeOK' /\ mtime_q' = mtime_q + 1 /\ mtimecmp_q' = ReadTime + Increment
  BY CompareSet, CompareLowStep, Zenon DEF DelayInv, Stores
<1>2. LateNumbers /\ LateNumbers'
  BY <1>1, LateNumbersHold, PTL DEF DelayInv
<1>3. ReadTime' = ReadTime
  BY DEF ReadTime, CompareLow, Step, UnchangedButReads
<1>4. MainLate'
  BY <1>1, <1>2, <1>3 DEF LateInv, MainLate, ReadLate, LateNumbers, Within, LastRead, Latest,
    Comparing, TimecmpSteps, CompareLow, Step, UnchangedButReads
<1>5. ReadLate'
  BY <1>1, <1>2, <1>3 DEF ReadLate, Reading, Comparing, CompareLow, Step
<1>6. HandlerLate'
  BY <1>1, <1>2, <1>3 DEF LateInv, ReadLate, HandlerLate, LateNumbers, Within, LastRead, Latest,
    Comparing, CompareLow, Step, UnchangedButReads
<1> QED BY <1>4, <1>5, <1>6, Zenon DEF LateInv

\* The first read comes within five steps of the call.
LEMMA CallLate ==
  ASSUME DelayInv, LateInv, NEW delay \in Delays, Call(delay)
  PROVE  LateInv'
<1>1. LateNumbers /\ LateNumbers' /\ Passes
  <2>1. Passes
    BY Quiet, Zenon DEF DelayInv, Call, Step
  <2>2. TypeOK'
    BY CallStep, Zenon DEF DelayInv
  <2> QED BY <2>1, <2>2, LateNumbersHold, PTL DEF DelayInv
<1>2. delay \in Nat /\ delay >= 1
  BY DelayAssumption
<1>3. MainLate'
  BY <1>1, <1>2 DEF DelayInv, PathInv, MainLate, TimecmpSteps, HandlerSteps, Call, Step
<1>4. ReadLate'
  BY <1>1 DEF DelayInv, PathInv, ReadLate, LateNumbers, Passes, Within, Entry, Comparing,
    TimecmpSteps, HandlerSteps, Call, Step
<1>5. HandlerLate'
  BY DEF DelayInv, PathInv, HandlerLate, TimecmpSteps, HandlerSteps, Call, Step
<1> QED BY <1>3, <1>4, <1>5, Zenon DEF LateInv

\* Every step keeps the invariant.
LEMMA LateStep == DelayInv /\ LateInv /\ [Next]_vars => LateInv'
<1> SUFFICES ASSUME DelayInv, LateInv, [Next]_vars PROVE LateInv'
  OBVIOUS
<1>1. CASE UNCHANGED vars
  <2>1. UNCHANGED <<mtime_q, mtimecmp_q, pc, mepc, current_timeh, current_time, time_elapsed, ms, timeout, stall, begun>>
    BY <1>1, Zenon DEF vars, timerVars, progVars
  <2>2. MainLate'
    BY <2>1, Zenon DEF LateInv, MainLate, Within, LastRead, Soon
  <2>3. ReadLate'
    BY <2>1, Zenon DEF LateInv, ReadLate, Within, LastRead, Entry, Latest, AtHigh, ReadTime
  <2>4. HandlerLate'
    BY <2>1, Zenon DEF LateInv, HandlerLate, Within, LastRead, Latest
  <2> QED BY <2>2, <2>3, <2>4 DEF LateInv
<1>2. CASE IncrementTimecmp
  BY <1>2, ReadHighLate, ReadLowLate, RereadLate, CompareMaxLate, CompareHighLate, CompareLowLate, Zenon
  DEF IncrementTimecmp
<1>3. CASE Delay
  BY <1>3, EnableInterruptsLate, SetGlobalInterruptEnableLate, StartLate, CheckLate, WfiLate, TimerDisableLate, Zenon
  DEF Delay
<1>4. CASE Stall \/ Interrupt \/ Mret \/ Elsewhere \/ Count
  BY <1>4, StallLate, InterruptLate, MretLate, ElsewhereLate, CountLate, Zenon
<1>5. CASE \E delay \in Delays : Call(delay)
  BY <1>5, CallLate, Zenon
<1> QED BY <1>1, <1>2, <1>3, <1>4, <1>5, Zenon DEF Next

\* At each step, the bound follows from the last read and the steps since.
LEMMA NotLong ==
  ASSUME DelayInv, LateInv, pc # "away"
  PROVE  mtime_q <= Late(begun, ms + 1) + 20 * S
<1>1. LateNumbers
  BY LateNumbersHold DEF DelayInv
<1>2. begun + 5 * S <= Late(begun, ms + 1)
  <2>1. begun \in Nat /\ ms + 1 \in Nat /\ 0 \in Nat /\ 0 <= ms + 1
    BY <1>1 DEF LateNumbers
  <2>2. Late(begun, 0) <= Late(begun, ms + 1)
    BY <2>1, LateFacts, Zenon
  <2> QED BY <1>1, <2>2, Zenon DEF LateNumbers
<1> USE <1>1, <1>2 DEF DelayInv, PathInv, LateInv, LateNumbers, Within, LastRead, Soon
<1>3. CASE pc \in Reading
  <2>1. mtime_q <= Entry + 6 * S
    BY <1>3 DEF ReadLate, Reading, Entry
  <2>2. CASE mepc = "none"
    BY <2>1, <2>2 DEF Entry
  <2>3. CASE mepc = "disable"
    BY <1>3, <2>1, <2>3 DEF ReadLate, HandlerLate, Entry, Reading
  <2>4. CASE mepc \notin {"none", "disable"}
    BY <1>3, <2>1, <2>4 DEF ReadLate, HandlerLate, Entry, Reading, Enabled
  <2> QED BY <2>2, <2>3, <2>4
<1>4. CASE pc \in Comparing
  BY <1>4 DEF ReadLate, HandlerLate, Latest, Comparing, Enabled
<1>5. CASE pc \in HandlerSteps
  BY <1>5 DEF HandlerLate, Latest, HandlerSteps, Enabled
<1>6. CASE pc \in {"enable", "global", "start", "check", "wfi", "asleep", "disable"}
  BY <1>6 DEF MainLate
<1> QED BY <1>3, <1>4, <1>5, <1>6 DEF TypeOK, TimecmpSteps, MainSteps, Reading, Comparing

(***************************************************************************)
(* timer_delay returns at the latest one tick after the last one asked     *)
(* for, and the steps on the way: for every Increment, and every delay and *)
(* stall within the bounds of the assumption.                              *)
(***************************************************************************)
THEOREM DelayCorrect == Spec => []DelayNotLong
<1>1. DelayInv /\ LateInv => DelayNotLong
  <2> SUFFICES ASSUME DelayInv, LateInv, pc # "away"
      PROVE  mtime_q - begun <= 5 * S + (ms + 1) * (Increment + 6 * S) + 20 * S
    BY Zenon DEF DelayNotLong, S
  <2>1. LateNumbers
    BY LateNumbersHold DEF DelayInv
  <2> DEFINE n == (ms + 1) * (Increment + 6 * S)
  <2>2. mtime_q <= begun + 5 * S + n + 20 * S
    BY NotLong, Zenon DEF Late
  <2>3. n \in Nat
    BY <2>1, Z3 DEF LateNumbers
  <2> HIDE DEF n
  <2>4. mtime_q - begun <= 5 * S + n + 20 * S
    BY <2>1, <2>2, <2>3 DEF LateNumbers
  <2> QED BY <2>4, Zenon DEF n
<1>2. Init => LateInv
  BY LateInit
<1>3. DelayInv /\ LateInv /\ [Next]_vars => LateInv'
  BY LateStep
<1> QED BY <1>1, <1>2, <1>3, DelayHolds, PTL DEF Spec

=============================================================================
