-------------------------- MODULE HelloWorld_proofs --------------------------
(***************************************************************************)
(* Theorems about hello_world, wherever its handlers are linked, whatever  *)
(* is typed, and whatever the sizes of its words, FIFOs and lights.        *)
(***************************************************************************)
EXTENDS HelloWorld, FiniteSetTheorems, SequenceTheorems, TLAPS

\* The fields of a jump, added up again, are the offset, if it is even and not too far.
LEMMA JumpArrives ==
  ASSUME NEW offset \in -(2^19) .. 2^19 - 1, offset % 2 = 0
  PROVE  Target(jmp_ins(offset)) = offset /\ ~TooFar(offset)
  BY Z3 DEF Target, jmp_ins, TooFar, Mod

\* What is enabled is installed, or about to be, and what is installed is right.
VectorInv ==
  /\ entry \in Links
  /\ mie \subseteq DOMAIN vectors
  /\ pc = "enable uart" => UartIrq \in DOMAIN vectors
  /\ pc \in {"start timer", "enable timer"} => TimerIrq \in DOMAIN vectors
  /\ DOMAIN vectors \subseteq Irqs
  /\ \A num \in DOMAIN vectors : vectors[num] = jmp_ins(entry[num])
  /\ handler # "lost"

\* The jump to a handler arrives, wherever it is linked.
LEMMA Linked ==
  ASSUME NEW e \in Links, NEW num \in Irqs
  PROVE  Target(jmp_ins(e[num])) = e[num] /\ ~TooFar(e[num])
<1>1. Links \subseteq [{7, 16} -> {offset \in -(2^19) .. 2^19 - 1 : offset % 2 = 0}]
  BY HelloAssumption, Zenon
<1>2. e[num] \in {offset \in -(2^19) .. 2^19 - 1 : offset % 2 = 0}
  BY <1>1, Zenon DEF Irqs, UartIrq, TimerIrq
<1> QED BY <1>2, JumpArrives, Zenon

LEMMA VectorInit == Init => VectorInv
<1> SUFFICES ASSUME Init PROVE VectorInv
  OBVIOUS
<1>1. entry \in Links /\ mie = {} /\ pc = "install uart" /\ handler = "none" /\ vectors = [num \in {} |-> jmp_ins(0)]
  BY Zenon DEF Init
<1>2. DOMAIN vectors = {}
  BY <1>1, Zenon
<1> QED BY <1>1, <1>2 DEF VectorInv

\* What is installed is a jump to its handler.
LEMMA Installed ==
  ASSUME VectorInv, NEW num \in Irqs, Install(num)
  PROVE  /\ DOMAIN vectors' = DOMAIN vectors \cup {num}
         /\ \A n \in DOMAIN vectors' : vectors'[n] = jmp_ins(entry[n])
<1>1. ~TooFar(entry[num])
  BY Linked, Zenon DEF VectorInv
<1>2. ~(num >= 32)
  BY SMT DEF Irqs, UartIrq, TimerIrq
<1>3. vectors' = [n \in DOMAIN vectors \cup {num} |-> IF n = num THEN jmp_ins(entry[num]) ELSE vectors[n]]
  BY <1>1, <1>2, Zenon DEF Install
<1> QED BY <1>3, Zenon DEF VectorInv

\* The interrupt that is taken is enabled.
LEMMA Taken ==
  ASSUME VectorInv, NEW num \in irqs
  PROVE  Entered(num) # "lost"
<1>1. num \in DOMAIN vectors /\ num \in Irqs /\ vectors[num] = jmp_ins(entry[num])
  BY Zenon DEF VectorInv, irqs
<1>2. Target(vectors[num]) = entry[num]
  BY <1>1, Linked, Zenon DEF VectorInv
<1> QED BY <1>1, <1>2, Zenon DEF Entered

LEMMA VectorStep == VectorInv /\ [Next]_vars => VectorInv'
<1> SUFFICES ASSUME VectorInv, [Next]_vars PROVE VectorInv'
  OBVIOUS
<1> USE DEF coreVars
<1>1. CASE InstallUart
  <2>1. pc' = "enable uart" /\ DOMAIN vectors \subseteq DOMAIN vectors' /\ DOMAIN vectors' = DOMAIN vectors \cup {UartIrq}
    BY <1>1, Installed, Zenon DEF InstallUart, Step, Irqs
  <2>2. \A n \in DOMAIN vectors' : vectors'[n] = jmp_ins(entry[n])
    BY <1>1, Installed, Zenon DEF InstallUart, Irqs
  <2>3. handler' = handler /\ mie' = mie /\ entry' = entry
    BY <1>1, Zenon DEF InstallUart
  <2> QED BY <2>1, <2>2, <2>3 DEF VectorInv, Irqs
<1>2. CASE InstallTimer
  <2>1. pc' = "start timer" /\ DOMAIN vectors' = DOMAIN vectors \cup {TimerIrq}
    BY <1>2, Installed, Zenon DEF InstallTimer, Step, Irqs
  <2>2. \A n \in DOMAIN vectors' : vectors'[n] = jmp_ins(entry[n])
    BY <1>2, Installed, Zenon DEF InstallTimer, Irqs
  <2>3. handler' = handler /\ mie' = mie /\ entry' = entry
    BY <1>2, Zenon DEF InstallTimer
  <2> QED BY <2>1, <2>2, <2>3 DEF VectorInv, Irqs
<1>3. CASE EnableInterrupts(UartIrq, "enable uart", "enable global") \/ EnableInterrupts(TimerIrq, "enable timer", "enable again")
  BY <1>3 DEF VectorInv, EnableInterrupts, Step
<1>4. CASE StartTimer
  BY <1>4 DEF VectorInv, StartTimer, Step
<1>5. CASE \/ SetGlobalInterruptEnable(TRUE, "enable global", "install timer")
           \/ SetGlobalInterruptEnable(TRUE, "enable again", "first time")
           \/ FirstTime \/ SetOutputs
  BY <1>5 DEF VectorInv, SetGlobalInterruptEnable, FirstTime, SetOutputs, Step
<1>6. CASE Loop
  <2>1. pc' \notin {"enable uart", "start timer", "enable timer"} /\ UNCHANGED <<handler, mie, vectors, entry>>
    BY <1>6 DEF Loop, Check, Mask, Output, Unmask, CycleLeds, SetPwm, SetCounter, SetWidth, Shade, Wfi, Step,
                SetGlobalInterruptEnable, Send, ReadGpio
  <2> QED BY <2>1 DEF VectorInv
<1>7. CASE Poll \/ Write \/ Echo \/ Drain \/ Tick \/ \E c \in Chars : Type(c)
  <2>1. UNCHANGED <<pc, handler, mie, vectors, entry>>
    BY <1>7 DEF Poll, Write, Echo, Drain, Tick, Type
  <2> QED BY <2>1 DEF VectorInv
<1>8. CASE EchoDone \/ Count
  <2>1. UNCHANGED <<pc, mie, vectors, entry>> /\ handler' = "none"
    BY <1>8 DEF EchoDone, Count, Mret
  <2> QED BY <2>1 DEF VectorInv
<1>9. CASE Interrupt
  <2>1. UNCHANGED <<mie, vectors, entry>> /\ pc' = IF pc = "asleep" THEN "check" ELSE pc
    BY <1>9 DEF Interrupt
  <2>2. (IF UartIrq \in irqs THEN UartIrq ELSE TimerIrq) \in irqs
    BY <1>9 DEF Interrupt, irqs
  <2>3. handler' # "lost"
    BY <1>9, <2>2, Taken DEF Interrupt
  <2> QED BY <2>1, <2>3 DEF VectorInv
<1>10. CASE UNCHANGED vars
  BY <1>10 DEF VectorInv, vars
<1> QED BY <1>1, <1>2, <1>3, <1>4, <1>5, <1>6, <1>7, <1>8, <1>9, <1>10 DEF Next, Program, Startup, UartEnableRxInt

\* Wherever the linker puts the two handlers, up to 2^19 bytes from their vectors, and
\* whenever an interrupt comes, the core enters the handler it is for.
THEOREM InterruptsCorrect == Spec => []InterruptsReachHandler
<1>1. Spec => []VectorInv
  BY VectorInit, VectorStep, PTL DEF Spec
<1>2. VectorInv => InterruptsReachHandler
  BY DEF VectorInv, InterruptsReachHandler
<1> QED BY <1>1, <1>2, PTL

-----------------------------------------------------------------------------
(* Powers of two, and the digits puthex prints.                            *)

\* Every set of numbers has a least one: induction, as the contradiction of a least counterexample.
LEMMA Least ==
  ASSUME NEW T, T \subseteq Nat, T # {}
  PROVE  \E x \in T : \A y \in T : ~(y < x)
<1> DEFINE R == {pair \in Nat \X Nat : pair[1] < pair[2]}
<1>1. IsWellFoundedOn(R, Nat)
  BY NatLessThanWellFounded, Zenon DEF OpToRel
<1>2. \E x \in T : \A y \in T : ~(<<y, x>> \in R)
  <2> HIDE DEF R
  <2> QED BY <1>1, WFMin, Zenon
<1>3. \A x, y \in Nat : x < y => <<x, y>> \in R
  BY SMT
<1>4. PICK x \in T : \A y \in T : ~(<<y, x>> \in R)
  BY <1>2, Zenon
<1> HIDE DEF R
<1> QED BY <1>3, <1>4, Zenon

\* 2 ^ n is the number of subsets of n elements.
LEMMA Subsets ==
  ASSUME NEW n \in Nat
  PROVE  IsFiniteSet(SUBSET (1 .. n)) /\ Cardinality(SUBSET (1 .. n)) = 2 ^ n
<1>1. IsFiniteSet(1 .. n) /\ Cardinality(1 .. n) = n
  BY FS_Interval
<1> QED BY <1>1, FS_SUBSET, Zenon

LEMMA PowerOfTwo ==
  ASSUME NEW n \in Nat
  PROVE  2 ^ n \in Nat \ {0}
<1>1. Cardinality(SUBSET (1 .. n)) \in Nat /\ Cardinality(SUBSET (1 .. n)) # 0
  <2>1. {} \in SUBSET (1 .. n)
    OBVIOUS
  <2> QED BY <2>1, Subsets, FS_CardinalityType, FS_EmptySet
<1> QED BY <1>1, Subsets

\* The subsets of 1 .. n + 1 that have n + 1 are as many as those that do not.
LEMMA PowerNext ==
  ASSUME NEW n \in Nat
  PROVE  2 ^ (n + 1) = 2 * 2 ^ n
<1> DEFINE A == 1 .. n
           B == 1 .. n + 1
           T == {Z \in SUBSET B : n + 1 \in Z}
           f == [X \in SUBSET A |-> X \cup {n + 1}]
<1>1. n + 1 \notin A /\ B = A \cup {n + 1}
  OBVIOUS
<1>2. /\ IsFiniteSet(SUBSET A) /\ Cardinality(SUBSET A) = 2 ^ n
      /\ IsFiniteSet(SUBSET B) /\ Cardinality(SUBSET B) = 2 ^ (n + 1)
  BY Subsets
<1> HIDE DEF A, B
<1>3. f \in Bijection(SUBSET A, T)
  <2>1. \A X \in SUBSET A : X \cup {n + 1} \in T
    BY <1>1, Zenon
  <2>2. \A X, Y \in SUBSET A : X \cup {n + 1} = Y \cup {n + 1} => X = Y
    BY <1>1
  <2>3. \A Z \in T : Z = (Z \ {n + 1}) \cup {n + 1} /\ Z \ {n + 1} \in SUBSET A
    BY <1>1
  <2> HIDE DEF T
  <2>4. f \in [SUBSET A -> T]
    BY <2>1, Zenon
  <2>5. \A X \in SUBSET A : f[X] = X \cup {n + 1}
    BY Zenon
  <2> HIDE DEF f
  <2>6. f \in Injection(SUBSET A, T)
    <3>1. \A X, Y \in SUBSET A : f[X] = f[Y] => X = Y
      BY <2>2, <2>5, Zenon
    <3>2. DOMAIN f = SUBSET A
      BY <2>4, Zenon
    <3> QED BY <2>4, <3>1, <3>2, Zenon DEF Injection, IsInjective
  <2>7. f \in Surjection(SUBSET A, T)
    <3>1. \A Z \in T : f[Z \ {n + 1}] = Z /\ Z \ {n + 1} \in SUBSET A
      BY <2>3, <2>5, Zenon
    <3> QED BY <2>4, <3>1, Zenon DEF Surjection
  <2> QED BY <2>6, <2>7, Zenon DEF Bijection
<1>4. IsFiniteSet(T) /\ Cardinality(T) = 2 ^ n
  BY <1>2, <1>3, FS_Bijection DEF ExistsBijection
<1>5. SUBSET B = (SUBSET A) \cup T /\ (SUBSET A) \cap T = {}
  BY <1>1
<1> HIDE DEF T
<1>6. Cardinality((SUBSET A) \cup T) = Cardinality(SUBSET A) + Cardinality(T) - Cardinality({})
  BY <1>2, <1>4, <1>5, FS_Union
<1>7. 2 ^ (n + 1) = 2 ^ n + 2 ^ n - 0
  BY <1>2, <1>4, <1>5, <1>6, FS_EmptySet, Zenon
<1> QED BY <1>7, PowerOfTwo

\* By induction on b.
LEMMA PowerSum ==
  ASSUME NEW a \in Nat, NEW b \in Nat
  PROVE  2 ^ (a + b) = 2 ^ a * 2 ^ b
<1> DEFINE T == {n \in Nat : 2 ^ (a + n) # 2 ^ a * 2 ^ n}
<1>1. SUFFICES ASSUME T # {} PROVE FALSE
  BY Zenon
<1>2. PICK n \in T : \A y \in T : ~(y < n)
  <2>1. T \subseteq Nat
    OBVIOUS
  <2> HIDE DEF T
  <2> QED BY <1>1, <2>1, Least, Zenon
<1>3. n # 0
  <2>1. 2 ^ 0 = 1
    OBVIOUS
  <2>2. 2 ^ (a + 0) = 2 ^ a * 2 ^ 0
    <3>1. a + 0 = a /\ 2 ^ a * 1 = 2 ^ a
      BY PowerOfTwo
    <3> QED BY <2>1, <3>1, Zenon
  <2> QED BY <1>2, <2>2, Zenon
<1>4. n - 1 \in Nat /\ 2 ^ (a + (n - 1)) = 2 ^ a * 2 ^ (n - 1)
  BY <1>2, <1>3
<1> DEFINE m == n - 1
<1>5. 2 ^ (m + 1) = 2 * 2 ^ m /\ 2 ^ ((a + m) + 1) = 2 * 2 ^ (a + m) /\ 2 ^ a \in Nat /\ 2 ^ m \in Nat
  BY <1>4, PowerNext, PowerOfTwo
<1>6. m + 1 = n /\ (a + m) + 1 = a + n
  BY <1>2
<1>7. 2 ^ n = 2 * 2 ^ m /\ 2 ^ (a + n) = 2 * (2 ^ a * 2 ^ m)
  BY <1>4, <1>5, <1>6
<1>8. \A x, y \in Nat : 2 * (x * y) = x * (2 * y)
  BY SMT
<1> QED BY <1>2, <1>5, <1>7, <1>8

\* Division with remainder is unique.
LEMMA Division ==
  ASSUME NEW n \in Nat \ {0}, NEW q \in Nat, NEW r \in 0 .. n - 1
  PROVE  (q * n + r) \div n = q /\ (q * n + r) % n = r
BY Z3

LEMMA Divided ==
  ASSUME NEW n \in Nat \ {0}, NEW a \in Nat
  PROVE  a \div n \in Nat /\ a % n \in 0 .. n - 1 /\ a = (a \div n) * n + (a % n)
BY Z3

LEMMA Multiply ==
  ASSUME NEW a \in Nat, NEW b \in Nat
  PROVE  a * b \in Nat /\ (a # 0 /\ b # 0 => a * b # 0)
BY Z3

\* Bits that are cut off now or later are cut off.
LEMMA ShiftMod ==
  ASSUME NEW a \in Nat, NEW n \in Nat \ {0}, NEW y \in Nat
  PROVE  ((a % n) * y) % n = (a * y) % n
<1> DEFINE q == a \div n
           r == a % n
<1>1. q \in Nat /\ r \in Nat /\ a = q * n + r
  BY Divided
<1> HIDE DEF q, r
<1> DEFINE p == (r * y) \div n
           s == (r * y) % n
<1>2. r * y \in Nat
  BY <1>1, Multiply
<1>3. p \in Nat /\ s \in 0 .. n - 1 /\ r * y = p * n + s
  BY <1>2, Divided
<1> HIDE DEF p
<1>4. q * y + p \in Nat
  BY <1>1, <1>3, Multiply
<1>5. a * y = (q * y + p) * n + s
  <2>1. a * y = (q * n) * y + r * y
    BY <1>1, Z3
  <2>2. (q * n) * y = (q * y) * n
    BY <1>1, Z3
  <2>3. (q * y + p) * n = (q * y) * n + p * n
    BY <1>1, <1>3, Z3
  <2>4. q * y \in Nat /\ p * n \in Nat /\ (q * y) * n \in Nat /\ s \in Nat
    BY <1>1, <1>3, Multiply
  <2> QED BY <1>3, <2>1, <2>2, <2>3, <2>4
<1>6. (a * y) % n = s
  <2> HIDE DEF s
  <2> QED BY <1>3, <1>4, <1>5, Division
<1> QED BY <1>6 DEF s, r

\* The top digit of a word that was moved up by x is the digit at b of the word before.
LEMMA TopDigit ==
  ASSUME NEW h \in Nat, NEW x \in Nat \ {0}, NEW b \in Nat \ {0}, NEW k \in Nat \ {0}
  PROVE  ((h * x) % ((x * b) * k)) \div (x * b) = (h \div b) % k
<1> DEFINE q == h \div b
           r == h % b
<1>1. q \in Nat /\ r \in 0 .. b - 1 /\ h = q * b + r
  BY Divided
<1> DEFINE p == q \div k
           d == q % k
<1>2. p \in Nat /\ d \in 0 .. k - 1 /\ q = p * k + d
  BY <1>1, Divided
<1> DEFINE xb == x * b
           rest == d * xb + r * x
<1>3. xb \in Nat \ {0} /\ xb * k \in Nat \ {0}
  BY Multiply
<1>4. r * x \in 0 .. xb - 1
  <2> HIDE DEF q, r
  <2>1. r * x >= 0 /\ (r + 1) * x <= b * x
    BY <1>1, Z3
  <2> QED BY <1>1, <2>1, Z3
<1>5. rest \in 0 .. xb * k - 1
  <2> HIDE DEF q, r, p, d, xb
  <2> DEFINE tail == r * x
  <2>1. tail \in 0 .. xb - 1
    BY <1>4
  <2> HIDE DEF tail
  <2>2. d * xb >= 0 /\ (d + 1) * xb <= k * xb
    BY <1>2, <1>3, Z3
  <2>3. (d + 1) * xb = d * xb + xb /\ k * xb = xb * k
    BY <1>2, <1>3, Z3
  <2>4. d * xb \in Int /\ xb * k \in Int
    BY <1>2, <1>3
  <2> QED BY <2>1, <2>2, <2>3, <2>4, <1>3 DEF tail
<1>6. h * x = p * (xb * k) + rest
  <2> HIDE DEF q, r, p, d
  <2>1. h * x = (q * b) * x + r * x
    BY <1>1, Z3
  <2>2. (q * b) * x = q * xb
    BY <1>1, Z3
  <2>3. q * xb = (p * k) * xb + d * xb
    BY <1>2, <1>3, Z3
  <2>4. (p * k) * xb = p * (xb * k)
    <3> HIDE DEF xb
    <3> QED BY <1>2, <1>3, Z3
  <2>5. d * xb \in Int /\ p * (xb * k) \in Int /\ r * x \in Int
    BY <1>1, <1>2, <1>3
  <2> HIDE DEF xb
  <2> QED BY <2>1, <2>2, <2>3, <2>4, <2>5
<1> HIDE DEF xb, p
<1>7. (h * x) % (xb * k) = rest
  <2> DEFINE n == xb * k
  <2>1. n \in Nat \ {0} /\ rest \in 0 .. n - 1 /\ h * x = p * n + rest
    BY <1>3, <1>5, <1>6
  <2> HIDE DEF rest, n
  <2>2. (p * n + rest) % n = rest
    BY <1>2, <2>1, Division, Zenon
  <2>3. (h * x) % n = rest
    BY <2>1, <2>2, Zenon
  <2> QED BY <2>3, Zenon DEF n
<1>8. rest \div xb = d
  <2> HIDE DEF d, r
  <2> QED BY <1>2, <1>3, <1>4, Division
<1> QED BY <1>7, <1>8 DEF xb

\* Words are the numbers below this.
Word == 2 ^ (Digits * DigitBits)

\* By induction on the digits: after i - 1 turns of puthex's loop, h has moved up by as many digits.
LEMMA Puthex ==
  ASSUME NEW h \in 0 .. Word - 1
  PROVE  puthex(h) = Hex(h)
<1> DEFINE word == Digits * DigitBits
           Power(i) == 2 ^ (DigitBits * (i - 1))
           left[i \in 1 .. Digits] == IF i = 1 THEN h ELSE Mod(left[i - 1] * 2^DigitBits, word)
           shifted == [i \in 1 .. Digits |-> (h * Power(i)) % 2^word]
<1>1. /\ Digits \in Nat \ {0} /\ DigitBits \in Nat /\ word \in Nat /\ word - DigitBits \in Nat
      /\ \A i \in 1 .. Digits : DigitBits * (i - 1) \in Nat /\ DigitBits * (Digits - i) \in Nat
  <2>1. Digits \in Nat \ {0} /\ DigitBits \in 1 .. 4
    BY HelloAssumption
  <2>2. \A i \in 1 .. Digits : i - 1 \in Nat /\ Digits - i \in Nat
    BY <2>1
  <2>3. \A m, n \in Nat : m * n \in Nat
    OBVIOUS
  <2>4. word - DigitBits = DigitBits * (Digits - 1)
    BY <2>1
  <2> QED BY <2>1, <2>2, <2>3, <2>4
<1>2. 2^word \in Nat \ {0} /\ h \in Nat /\ h < 2^word
  BY <1>1, PowerOfTwo DEF Word
<1>3. \A i \in 1 .. Digits : Power(i) \in Nat \ {0}
  BY <1>1, PowerOfTwo
<1>4. shifted[1] = h
  <2>1. DigitBits * (1 - 1) = 0 /\ 2^0 = 1 /\ h * 1 = h /\ h % 2^word = h
    BY <1>1, <1>2
  <2>2. shifted[1] = (h * 2^(DigitBits * (1 - 1))) % 2^word
    BY <1>1
  <2> QED BY <2>1, <2>2, Zenon
<1>5. ASSUME NEW i \in 1 .. Digits, i # 1
      PROVE  shifted[i] = Mod(shifted[i - 1] * 2^DigitBits, word)
  <2>1. i - 1 \in 1 .. Digits
    BY <1>1, <1>5
  <2>2. Power(i) = Power(i - 1) * 2^DigitBits
    <3>1. DigitBits * (i - 1) = DigitBits * ((i - 1) - 1) + DigitBits
      BY <1>1
    <3> QED BY <1>1, <2>1, <3>1, PowerSum
  <2>3. (((h * Power(i - 1)) % 2^word) * 2^DigitBits) % 2^word = ((h * Power(i - 1)) * 2^DigitBits) % 2^word
    <3>1. h * Power(i - 1) \in Nat /\ 2^DigitBits \in Nat
      BY <1>1, <1>2, <1>3, <2>1, PowerOfTwo, Multiply
    <3> QED BY <1>2, <3>1, ShiftMod, Zenon
  <2>4. (h * Power(i - 1)) * 2^DigitBits = h * (Power(i - 1) * 2^DigitBits)
    <3>1. 2^DigitBits \in Nat /\ Power(i - 1) \in Nat
      BY <1>1, <1>3, <2>1, PowerOfTwo
    <3> HIDE DEF Power
    <3> QED BY <1>2, <3>1
  <2> HIDE DEF Power
  <2>5. shifted[i] = (h * Power(i)) % 2^word /\ shifted[i - 1] = (h * Power(i - 1)) % 2^word
    BY <2>1, Zenon
  <2> HIDE DEF shifted
  <2> QED BY <2>2, <2>3, <2>4, <2>5, Zenon DEF Mod
<1> HIDE DEF Power, shifted
<1>6. left = [i \in 1 .. Digits |-> IF i = 1 THEN h ELSE Mod(left[i - 1] * 2^DigitBits, word)]
  <2>1. shifted = [i \in 1 .. Digits |-> IF i = 1 THEN h ELSE Mod(shifted[i - 1] * 2^DigitBits, word)]
    BY <1>4, <1>5, Zenon DEF shifted
  <2> QED BY <2>1, Zenon DEF left
<1> HIDE DEF left
<1>7. \A i \in 1 .. Digits : left[i] = shifted[i]
  <2> DEFINE T == {i \in 1 .. Digits : left[i] # shifted[i]}
  <2> SUFFICES ASSUME T # {} PROVE FALSE
    BY Zenon
  <2>1. PICK n \in T : \A y \in T : ~(y < n)
    <3>1. T \subseteq Nat
      BY <1>1
    <3> HIDE DEF T
    <3> QED BY <3>1, Least, Zenon
  <2>2. n # 1
    BY <1>4, <1>6, <2>1
  <2>3. n - 1 \in 1 .. Digits /\ left[n - 1] = shifted[n - 1]
    BY <1>1, <2>1, <2>2
  <2>4. left[n] = Mod(left[n - 1] * 2^DigitBits, word)
    BY <1>6, <2>1, <2>2, Zenon
  <2> QED BY <1>5, <2>1, <2>2, <2>3, <2>4, Zenon
<1>8. ASSUME NEW i \in 1 .. Digits
      PROVE  left[i] \div 2^(word - DigitBits) = Mod(h \div 2^(DigitBits * (Digits - i)), DigitBits)
  <2> DEFINE x == Power(i)
             b == 2^(DigitBits * (Digits - i))
             k == 2^DigitBits
  <2>1. x \in Nat \ {0} /\ b \in Nat \ {0} /\ k \in Nat \ {0}
    BY <1>1, <1>3, PowerOfTwo
  <2>2. 2^(word - DigitBits) = x * b
    <3>1. word - DigitBits = DigitBits * (i - 1) + DigitBits * (Digits - i)
      BY <1>1
    <3> QED BY <1>1, <3>1, PowerSum DEF Power
  <2>3. 2^word = (x * b) * k
    <3>1. word = (word - DigitBits) + DigitBits
      BY <1>1
    <3>2. 2^((word - DigitBits) + DigitBits) = 2^(word - DigitBits) * 2^DigitBits
      BY <1>1, PowerSum, Zenon
    <3> QED BY <2>2, <3>1, <3>2, Zenon
  <2>4. left[i] = (h * x) % ((x * b) * k)
    BY <1>7, <2>3, Zenon DEF shifted
  <2> HIDE DEF x
  <2> HIDE DEF b, k
  <2>5. left[i] \div (x * b) = (h \div b) % k
    <3>1. ((h * x) % ((x * b) * k)) \div (x * b) = (h \div b) % k
      BY <1>2, <2>1, TopDigit, ZenonT(40)
    <3> QED BY <2>4, <3>1, Zenon
  <2> QED BY <2>2, <2>5, Zenon DEF Mod, b, k
<1>9. puthex(h) = [i \in 1 .. Digits |-> Glyph(left[i] \div 2^(word - DigitBits))]
  BY Zenon DEF puthex, left
<1> HIDE DEF word
<1> QED BY <1>8, <1>9, Zenon DEF Hex

-----------------------------------------------------------------------------
(* The output.  Each text is one that main or the handler is sending: what *)
(* is on the line and what is still to be sent make it up.                 *)

Glyphs == {"0", "1", "2", "3", "4", "5", "6", "7", "8", "9", "A", "B", "C", "D", "E", "F"}
Plain == Glyphs \cup Chars \cup {"CR", "Hello World! ", "   Input Value: "}
Sent == Plain \cup {"LF"}
Runs == {"main", "handler"}

\* What main has sent and still sends of its line, by its place in it.
ToTime == <<"Hello World! ">>
ToInput == ToTime \o Hex(last_elapsed_time)
ToValue == ToInput \o <<"   Input Value: ">>
ToNewline == ToValue \o Hex(in_val)
Feed(text) == text \o <<"LF">>

\* line is what has been sent of text, and rest what has not.
Sending(text, rest) == line \o rest = text

Printing == {"time", "input", "read input", "value", "newline", "unmask"}

OutputTypeOK ==
  /\ handler \in {"none", "uart", "timer", "lost"} /\ mstatus_mie \in BOOLEAN
  /\ tx \in 0 .. TxDepth /\ rx \in Seq(Chars) /\ Len(rx) <= RxDepth
  /\ {time_elapsed, last_elapsed_time} \subseteq 0 .. Times - 1
  /\ in_val \in Inputs \cup {0}
  /\ todo \in [Runs -> Seq(Sent)] /\ ready \in [Runs -> BOOLEAN]
  /\ line \in Seq(Plain)

MainInv ==
  /\ pc \notin Printing => todo["main"] = << >>
  /\ pc = "time" => Sending(ToTime, todo["main"])
  /\ pc = "input" => Sending(ToInput, todo["main"])
  /\ pc \in {"read input", "value"} => Sending(ToValue, todo["main"])
  /\ pc = "newline" => Sending(ToNewline, todo["main"])
  /\ pc = "unmask" => Sending(<< >>, todo["main"]) \/ Sending(Feed(MainLine), todo["main"])

\* Main prints with interrupts off, and then no handler runs.
HandlerInv ==
  /\ pc \in {"hello"} \cup Printing => handler = "none" /\ mstatus_mie = FALSE
  /\ handler # "uart" => todo["handler"] = << >>
  /\ pc \notin Printing =>
       \/ Sending(<< >>, todo["handler"])
       \/ \E c \in Chars : Sending(Feed(<<c, "CR">>), todo["handler"])

\* Room that was seen is still there.
RoomInv == \A r \in Runs : ready[r] => todo[r] # << >> /\ tx < TxDepth

OutputInv == OutputTypeOK /\ MainInv /\ HandlerInv /\ RoomInv

\* What has been sent of the line when the first of rest is, too.
After(l, rest) == IF Head(rest) = "LF" THEN << >> ELSE Append(l, Head(rest))

\* One more of the text has been sent.
LEMMA SentOne ==
  ASSUME NEW l \in Seq(Plain), NEW rest \in Seq(Sent), rest # << >>, NEW text \in Seq(Plain)
  PROVE  /\ l \o rest = text => After(l, rest) \in Seq(Plain) /\ After(l, rest) \o Tail(rest) = text
         /\ l \o rest = Feed(text) =>
              /\ After(l, rest) \in Seq(Plain)
              /\ After(l, rest) \o Tail(rest) = Feed(text) \/ After(l, rest) \o Tail(rest) = << >>
<1> DEFINE c == Head(rest)
           n == Len(l)
           new == After(l, rest)
<1>1. /\ c \in Sent /\ Tail(rest) \in Seq(Sent) /\ Len(Tail(rest)) = Len(rest) - 1 /\ Len(rest) \in Nat \ {0}
      /\ rest[1] = c /\ \A i \in 1 .. Len(Tail(rest)) : Tail(rest)[i] = rest[i + 1]
  BY HeadTailProperties, LenProperties, EmptySeq
<1>2. l \in Seq(Sent) /\ text \in Seq(Sent) /\ <<"LF">> \in Seq(Sent) /\ Feed(text) \in Seq(Sent)
  <2>1. Plain \subseteq Sent /\ <<"LF">> \in Seq(Sent)
    BY DEF Sent
  <2>2. l \in Seq(Sent) /\ text \in Seq(Sent)
    BY <2>1, SeqMonotonic
  <2> QED BY <2>1, <2>2, ConcatProperties DEF Feed
<1>3. "LF" \notin Plain
  BY HelloAssumption DEF Plain, Glyphs
<1>4. /\ n \in Nat /\ Len(l \o rest) = n + Len(rest) /\ (l \o rest)[n + 1] = c
  BY <1>1, <1>2, ConcatProperties, LenProperties
<1>5. c # "LF" => new \in Seq(Plain) /\ new \o Tail(rest) = l \o rest
  <2> SUFFICES ASSUME c # "LF" PROVE new \in Seq(Plain) /\ new \o Tail(rest) = l \o rest
    OBVIOUS
  <2>1. c \in Plain /\ new = Append(l, c)
    BY <1>1 DEF Sent, After
  <2>2. new \in Seq(Plain) /\ new = l \o <<c>>
    <3> HIDE DEF c, new
    <3> QED BY <2>1, AppendProperties, AppendIsConcat
  <2>3. rest = <<c>> \o Tail(rest)
    BY <1>1
  <2>4. <<c>> \in Seq(Sent)
    BY <1>1
  <2>5. (l \o <<c>>) \o Tail(rest) = l \o (<<c>> \o Tail(rest))
    BY <1>1, <1>2, <2>4, ConcatAssociative, SMTT(20)
  <2> QED BY <2>2, <2>3, <2>5, Zenon
<1>6. l \o rest = text => c # "LF"
  <2>1. l \o rest = text => n + 1 \in 1 .. Len(text)
    BY <1>1, <1>4
  <2> QED BY <1>3, <1>4, <2>1, ElementOfSeq
<1>7. c = "LF" /\ l \o rest = Feed(text) => Tail(rest) = << >> /\ new = << >>
  <2> SUFFICES ASSUME c = "LF", l \o rest = Feed(text) PROVE Tail(rest) = << >>
    BY Zenon DEF After
  <2>1. Len(Feed(text)) = Len(text) + 1 /\ \A i \in 1 .. Len(text) : Feed(text)[i] = text[i]
    BY <1>2, ConcatProperties, LenProperties DEF Feed
  <2>2. ~(n + 1 \in 1 .. Len(text))
    BY <1>3, <1>4, <2>1, ElementOfSeq
  <2>3. Len(rest) = 1
    BY <1>1, <1>4, <2>1, <2>2, LenProperties
  <2>4. Len(Tail(rest)) = 0
    BY <1>1, <2>3
  <2> QED BY <1>1, <2>4, EmptySeq
<1>8. << >> \in Seq(Plain) /\ << >> \o << >> = << >>
  OBVIOUS
<1> QED BY <1>1, <1>5, <1>6, <1>7, <1>8

\* What has been sent of a text that ends in the line feed is the start of the rest.
LEMMA SentStarts ==
  ASSUME NEW l \in Seq(Plain), NEW rest \in Seq(Sent), NEW text \in Seq(Plain),
         l \o rest = Feed(text)
  PROVE  IsPrefix(l, text)
<1>1. l \in Seq(Sent) /\ text \in Seq(Sent) /\ <<"LF">> \in Seq(Sent)
  <2>1. Plain \subseteq Sent /\ <<"LF">> \in Seq(Sent)
    BY DEF Sent
  <2> QED BY <2>1, SeqMonotonic
<1>2. "LF" \notin Plain
  BY HelloAssumption DEF Plain, Glyphs
<1>3. /\ Len(Feed(text)) = Len(text) + 1 /\ Len(text) \in Nat /\ Feed(text)[Len(text) + 1] = "LF"
      /\ \A i \in 1 .. Len(text) : Feed(text)[i] = text[i]
  BY <1>1, ConcatProperties, LenProperties DEF Feed
<1>4. /\ Len(l \o rest) = Len(l) + Len(rest) /\ Len(l) \in Nat /\ Len(rest) \in Nat
      /\ \A i \in 1 .. Len(l) : (l \o rest)[i] = l[i]
  BY <1>1, ConcatProperties, LenProperties
<1>5. Len(l) <= Len(text)
  BY <1>2, <1>3, <1>4, ElementOfSeq
<1>6. \A i \in 1 .. Len(l) : l[i] = text[i]
  BY <1>3, <1>4, <1>5
<1>7. SubSeq(l, 1, Len(l)) = SubSeq(text, 1, Len(l))
  <2>1. \A i \in 1 .. Len(l) : l[i] \in Plain /\ text[i] \in Plain
    BY <1>3, <1>4, <1>5, <1>6, ElementOfSeq
  <2> DEFINE s == SubSeq(l, 1, Len(l))
             t == SubSeq(text, 1, Len(l))
  <2>2. /\ s \in Seq(Plain) /\ Len(s) = Len(l) /\ \A i \in 1 .. Len(l) : s[i] = l[i]
        /\ t \in Seq(Plain) /\ Len(t) = Len(l) /\ \A i \in 1 .. Len(l) : t[i] = text[i]
    BY <1>4, <2>1, SubSeqProperties
  <2> HIDE DEF s, t
  <2> QED BY <1>6, <2>2, SeqEqual
<1> QED BY <1>5, <1>7 DEF IsPrefix

\* The digits of a number are glyphs, so none of them is the line feed.
LEMMA HexGlyphs ==
  ASSUME NEW h \in Nat
  PROVE  Hex(h) \in Seq(Glyphs)
<1>1. Digits \in Nat \ {0} /\ DigitBits \in 1 .. 4
  BY HelloAssumption
<1>2. \A d \in 0 .. 15 : Glyph(d) \in Glyphs
  BY DEF Glyph, Glyphs
<1>3. ASSUME NEW n \in Nat
      PROVE Mod(n, DigitBits) \in 0 .. 15
  <2>1. 2^1 = 2 /\ 2^2 = 4 /\ 2^3 = 8 /\ 2^4 = 16
    BY SMT
  <2>2. 2^DigitBits \in {2, 4, 8, 16}
    <3>1. DigitBits = 1 \/ DigitBits = 2 \/ DigitBits = 3 \/ DigitBits = 4
      BY <1>1
    <3> QED BY <2>1, <3>1, Zenon
  <2> QED BY <2>2 DEF Mod
<1>4. ASSUME NEW i \in 1 .. Digits
      PROVE  h \div 2^(DigitBits * (Digits - i)) \in Nat
  <2>1. DigitBits * (Digits - i) \in Nat
    <3>1. Digits - i \in Nat
      BY <1>1
    <3> QED BY <1>1, <3>1, Multiply
  <2> QED BY <2>1, PowerOfTwo, Divided
<1>5. \A i \in 1 .. Digits : Glyph(Mod(h \div 2^(DigitBits * (Digits - i)), DigitBits)) \in Glyphs
  BY <1>2, <1>3, <1>4, Zenon
<1>6. Hex(h) \in [1 .. Digits -> Glyphs]
  BY <1>5, Zenon DEF Hex
<1> QED BY <1>1, <1>6, SeqDef

\* A text that is one character is printed as putchar prints it.
LEMMA Fed ==
  ASSUME NEW str
  PROVE  puts(<<str>>) = putchar(str)
<1> DEFINE seqs == [i \in DOMAIN <<str>> |-> putchar(<<str>>[i])]
           flatten[i \in 1 .. Len(seqs)] == IF i = 1 THEN seqs[i] ELSE flatten[i - 1] \o seqs[i]
           g == [i \in 1 .. 1 |-> putchar(str)]
<1>1. DOMAIN seqs = 1 .. 1 /\ Len(seqs) = 1 /\ seqs[1] = putchar(str)
  <2>1. DOMAIN <<str>> = 1 .. 1 /\ <<str>>[1] = str
    OBVIOUS
  <2>2. DOMAIN seqs = 1 .. 1 /\ seqs[1] = putchar(str)
    BY <2>1
  <2>3. seqs \in Seq({putchar(str)})
    BY <2>1
  <2> HIDE DEF seqs
  <2> QED BY <2>2, <2>3, LenProperties
<1>2. FlattenSeq(seqs) = flatten[1]
  <2> HIDE DEF seqs
  <2>1. Len(seqs) # 0
    BY <1>1
  <2> QED BY <1>1, <2>1, Zenon DEF FlattenSeq, flatten
<1> HIDE DEF seqs
<1>3. g = [i \in 1 .. Len(seqs) |-> IF i = 1 THEN seqs[i] ELSE g[i - 1] \o seqs[i]]
  BY <1>1
<1>4. flatten = [i \in 1 .. Len(seqs) |-> IF i = 1 THEN seqs[i] ELSE flatten[i - 1] \o seqs[i]]
  <2> HIDE DEF g
  <2> QED BY <1>3, Zenon DEF flatten
<1>5. flatten[1] = putchar(str)
  <2> HIDE DEF flatten
  <2> QED BY <1>1, <1>4
<1> QED BY <1>2, <1>5, Zenon DEF puts, seqs

\* Each text is the one before it and what the next call prints.
LEMMA Texts ==
  ASSUME OutputTypeOK
  PROVE  /\ ToTime \in Seq(Plain) /\ ToInput \in Seq(Plain) /\ ToValue \in Seq(Plain) /\ ToNewline \in Seq(Plain)
         /\ MainLine \in Seq(Plain)
         /\ ToTime = << >> \o puts(<<"Hello World! ">>)
         /\ ToInput = ToTime \o puthex(last_elapsed_time)
         /\ ToValue = ToInput \o puts(<<"   Input Value: ">>)
         /\ ToNewline = ToValue \o puthex(in_val)
         /\ Feed(MainLine) = ToNewline \o putchar("LF")
         /\ puthex(last_elapsed_time) \in Seq(Plain) /\ puthex(in_val) \in Seq(Plain)
         /\ puts(<<"Hello World! ">>) \in Seq(Plain) /\ puts(<<"   Input Value: ">>) \in Seq(Plain)
         /\ putchar("LF") \in Seq(Sent)
<1>1. /\ last_elapsed_time \in 0 .. Word - 1 /\ in_val \in 0 .. Word - 1
  <2>1. Digits * DigitBits \in Nat
    <3>1. Digits \in Nat \ {0} /\ DigitBits \in 1 .. 4
      BY HelloAssumption
    <3> QED BY <3>1, Multiply
  <2>2. Word \in Nat \ {0}
    BY <2>1, PowerOfTwo DEF Word
  <2>3. Inputs \subseteq 0 .. Word - 1 /\ Times \in 3 .. Word
    BY HelloAssumption, Zenon DEF Word
  <2>4. in_val \in Inputs \cup {0} /\ last_elapsed_time \in 0 .. Times - 1
    BY DEF OutputTypeOK
  <2> QED BY <2>2, <2>3, <2>4
<1> DEFINE Time == Hex(last_elapsed_time)
           Value == Hex(in_val)
           Hello == <<"Hello World! ">>
           Input == <<"   Input Value: ">>
<1>2. /\ puthex(last_elapsed_time) = Time /\ puthex(in_val) = Value
  BY <1>1, Puthex
<1>3. puts(<<"Hello World! ">>) = Hello /\ puts(<<"   Input Value: ">>) = Input
  <2>1. putchar("Hello World! ") = Hello /\ putchar("   Input Value: ") = Input
    BY DEF putchar
  <2> QED BY <2>1, Fed, Zenon
<1>4. Time \in Seq(Plain) /\ Value \in Seq(Plain)
  <2>1. last_elapsed_time \in Nat /\ in_val \in Nat
    BY <1>1
  <2>2. Glyphs \subseteq Plain
    BY DEF Plain
  <2> QED BY <2>1, <2>2, HexGlyphs, SeqMonotonic
<1>5. Hello \in Seq(Plain) /\ Input \in Seq(Plain) /\ <<"CR">> \in Seq(Plain) /\ putchar("LF") \in Seq(Sent)
      /\ putchar("LF") = <<"CR", "LF">>
  BY DEF Plain, Sent, putchar
<1>6. ToTime = << >> \o Hello /\ ToInput = ToTime \o Time /\ ToValue = ToInput \o Input /\ ToNewline = ToValue \o Value
      /\ MainLine = ToNewline \o <<"CR">>
  BY DEF ToTime, ToInput, ToValue, ToNewline, MainLine
<1> HIDE DEF Time, Value, Hello, Input
<1>7. ToTime \in Seq(Plain) /\ ToInput \in Seq(Plain) /\ ToValue \in Seq(Plain) /\ ToNewline \in Seq(Plain)
      /\ MainLine \in Seq(Plain)
  <2>1. << >> \in Seq(Plain)
    BY EmptySeq
  <2>2. ToTime \in Seq(Plain)
    BY <1>5, <1>6, <2>1, ConcatProperties
  <2>3. ToInput \in Seq(Plain)
    BY <1>4, <1>6, <2>2, ConcatProperties
  <2>4. ToValue \in Seq(Plain)
    BY <1>5, <1>6, <2>3, ConcatProperties
  <2>5. ToNewline \in Seq(Plain)
    BY <1>4, <1>6, <2>4, ConcatProperties
  <2> QED BY <1>5, <1>6, <2>2, <2>3, <2>4, <2>5, ConcatProperties
<1>8. Feed(MainLine) = ToNewline \o putchar("LF")
  <2>1. ToNewline \in Seq(Sent) /\ <<"CR">> \in Seq(Sent) /\ <<"LF">> \in Seq(Sent)
    <3>1. Plain \subseteq Sent
      BY DEF Sent
    <3>2. "CR" \in Sent /\ "LF" \in Sent
      BY DEF Sent, Plain
    <3>3. <<"CR">> \in Seq(Sent) /\ <<"LF">> \in Seq(Sent)
      BY <3>2
    <3> QED BY <1>7, <3>1, <3>3, SeqMonotonic
  <2>2. (ToNewline \o <<"CR">>) \o <<"LF">> = ToNewline \o (<<"CR">> \o <<"LF">>)
    BY <2>1, ConcatAssociative
  <2>3. <<"CR">> \o <<"LF">> = <<"CR", "LF">>
    <3>1. Append(<<"CR">>, "LF") = <<"CR">> \o <<"LF">>
      BY <2>1, AppendIsConcat DEF Sent
    <3>2. Append(<<"CR">>, "LF") = <<"CR", "LF">>
      <4> DEFINE two == Append(<<"CR">>, "LF")
      <4>1. two \in Seq(Sent) /\ Len(two) = 2 /\ two[1] = "CR" /\ two[2] = "LF"
        BY <2>1, AppendProperties DEF Sent
      <4>2. <<"CR", "LF">> \in Seq(Sent)
        BY DEF Sent, Plain
      <4> HIDE DEF two
      <4>3. two = <<"CR", "LF">>
        BY <4>1, <4>2
      <4> QED BY <4>3 DEF two
    <3> QED BY <3>1, <3>2
  <2> QED BY <1>5, <1>6, <2>2, <2>3, Zenon DEF Feed
<1> QED BY <1>2, <1>3, <1>4, <1>5, <1>6, <1>7, <1>8, Zenon

\* Only the line feed ends a line.
LEMMA PlainText ==
  /\ Plain \subseteq Sent /\ "LF" \in Sent /\ "LF" \notin Plain
  /\ \A text \in Seq(Plain) : text \in Seq(Sent)
<1>1. Plain \subseteq Sent /\ "LF" \in Sent
  BY DEF Sent
<1>2. "LF" \notin Plain
  BY HelloAssumption DEF Plain, Glyphs
<1> QED BY <1>1, <1>2, SeqMonotonic

\* A text without the line feed is not all of its line.
LEMMA FeedLast ==
  ASSUME NEW l \in Seq(Plain), NEW text \in Seq(Plain)
  PROVE  l \o << >> # Feed(text)
<1>1. l \o << >> = l
  BY ConcatEmptySeq
<1>2. text \in Seq(Sent) /\ <<"LF">> \in Seq(Sent)
  BY PlainText
<1>3. Len(Feed(text)) = Len(text) + 1 /\ Len(text) \in Nat /\ Feed(text)[Len(text) + 1] = "LF"
  BY <1>2, ConcatProperties, LenProperties DEF Feed
<1> QED BY PlainText, <1>1, <1>3, ElementOfSeq

LEMMA TimesType == Times \in Nat /\ 0 \in 0 .. Times - 1 /\ TxDepth \in Nat \ {0} /\ RxDepth \in Nat \ {0}
<1>1. Digits * DigitBits \in Nat
  <2>1. Digits \in Nat \ {0} /\ DigitBits \in 1 .. 4
    BY HelloAssumption
  <2> QED BY <2>1, Multiply
<1>2. Word \in Nat \ {0} /\ Times \in 3 .. Word /\ TxDepth \in Nat \ {0} /\ RxDepth \in Nat \ {0}
  BY <1>1, PowerOfTwo, HelloAssumption, Zenon DEF Word
<1> QED BY <1>2

LEMMA OutputInit == Init => OutputInv
<1> SUFFICES ASSUME Init PROVE OutputInv
  OBVIOUS
<1>1. Times \in Nat /\ 0 \in 0 .. Times - 1 /\ TxDepth \in Nat /\ RxDepth \in Nat
  BY TimesType
<1>2. todo \in [Runs -> Seq(Sent)] /\ line \in Seq(Plain) /\ rx \in Seq(Chars) /\ Len(rx) = 0
  <2>1. todo = [r \in Runs |-> << >>] /\ line = << >> /\ rx = << >>
    BY Zenon DEF Init, Runs
  <2>2. << >> \in Seq(Sent)
    BY EmptySeq
  <2> QED BY <2>1, <2>2
<1>3. OutputTypeOK
  <2>1. handler = "none" /\ mstatus_mie = FALSE /\ tx = 0 /\ time_elapsed = 0 /\ last_elapsed_time = 0 /\ in_val = 0
        /\ ready = [r \in Runs |-> FALSE]
    BY Zenon DEF Init, Runs
  <2>2. {time_elapsed, last_elapsed_time} \subseteq 0 .. Times - 1 /\ tx \in 0 .. TxDepth /\ Len(rx) <= RxDepth
    BY <1>1, <1>2, <2>1
  <2>3. ready \in [Runs -> BOOLEAN]
    BY <2>1
  <2> QED BY <1>2, <2>1, <2>2, <2>3, Zenon DEF OutputTypeOK
<1>4. MainInv /\ HandlerInv /\ RoomInv
  <2>1. << >> \o << >> = << >>
    OBVIOUS
  <2> QED BY <2>1 DEF Init, MainInv, HandlerInv, RoomInv, Printing, Runs, Sending
<1> QED BY <1>3, <1>4 DEF OutputInv

\* Nothing main does outside its line changes what is sent.
LEMMA OutsideStep ==
  ASSUME OutputTypeOK', HandlerInv, MainInv, RoomInv,
         pc \notin Printing \cup {"hello"}, pc' \notin Printing \cup {"hello"}, UNCHANGED <<uartVars, handler>>
  PROVE  MainInv' /\ HandlerInv' /\ RoomInv'
BY DEF uartVars, MainInv, HandlerInv, RoomInv, Printing, Sending, Feed

\* main's steps outside its line.
LEMMA StartupOutput ==
  ASSUME OutputInv, Startup \/ Check \/ CycleLeds \/ SetPwm \/ Shade \/ Wfi
  PROVE  OutputInv'
<1>1. /\ pc \notin Printing \cup {"hello"} /\ pc' \notin Printing \cup {"hello"} /\ UNCHANGED <<uartVars, handler, rx, in_val>>
      /\ mstatus_mie' \in BOOLEAN
      /\ time_elapsed' \in {time_elapsed, 0} /\ last_elapsed_time' \in {time_elapsed, last_elapsed_time}
  BY DEF Startup, UartEnableRxInt, InstallUart, EnableInterrupts, SetGlobalInterruptEnable, InstallTimer, StartTimer,
         FirstTime, SetOutputs, Check, CycleLeds, SetPwm, SetCounter, SetWidth, Shade, Wfi, Step, Printing, timeVars, coreVars, inputVars,
         OutputInv, OutputTypeOK
<1>2. {time_elapsed, last_elapsed_time}' \subseteq 0 .. Times - 1
  <2>1. time_elapsed \in 0 .. Times - 1 /\ last_elapsed_time \in 0 .. Times - 1
    BY DEF OutputInv, OutputTypeOK
  <2>2. 0 \in 0 .. Times - 1
    BY TimesType
  <2> QED BY <1>1, <2>1, <2>2
<1>3. OutputTypeOK'
  BY <1>1, <1>2 DEF OutputInv, OutputTypeOK, uartVars
<1> QED BY <1>1, <1>3, OutsideStep DEF OutputInv

\* The echo of a character, as the handler sends it.
LEMMA EchoText ==
  ASSUME NEW c \in Chars
  PROVE  /\ <<c, "CR">> \in Seq(Plain) /\ Feed(<<c, "CR">>) = <<c, "CR", "LF">>
<1>1. <<c, "CR">> \in Seq(Plain)
  <2>1. c \in Plain /\ "CR" \in Plain
    BY DEF Plain
  <2> QED BY <2>1
<1>2. Feed(<<c, "CR">>) = <<c, "CR", "LF">>
  <2> DEFINE S == Plain \cup {"LF"}
             cr == <<c, "CR">>
  <2>1. c \in S /\ "CR" \in S /\ "LF" \in S
    BY DEF Plain
  <2> HIDE DEF S
  <2>2. cr \in Seq(S) /\ <<"LF">> \in Seq(S) /\ Len(cr) = 2
    BY <2>1
  <2>3. /\ cr \o <<"LF">> \in Seq(S) /\ Len(cr \o <<"LF">>) = 3
        /\ \A i \in 1 .. 3 : (cr \o <<"LF">>)[i] = IF i <= 2 THEN cr[i] ELSE <<"LF">>[i - 2]
    BY <2>2, ConcatProperties
  <2>4. (cr \o <<"LF">>)[1] = c /\ (cr \o <<"LF">>)[2] = "CR" /\ (cr \o <<"LF">>)[3] = "LF"
    BY <2>3
  <2> DEFINE whole == cr \o <<"LF">>
  <2>5. whole = <<c, "CR", "LF">>
    <3>1. whole \in Seq(S) /\ Len(whole) = 3 /\ whole[1] = c /\ whole[2] = "CR" /\ whole[3] = "LF"
      BY <2>3, <2>4
    <3>2. <<c, "CR", "LF">> \in Seq(S)
      BY <2>1
    <3> HIDE DEF whole
    <3> QED BY <3>1, <3>2
  <2> QED BY <2>5, Zenon DEF Feed
<1> QED BY <1>1, <1>2

LEMMA MaskOutput ==
  ASSUME OutputInv, Mask
  PROVE  OutputInv'
<1>1. /\ pc = "mask" /\ pc' = "hello" /\ handler = "none" /\ mstatus_mie' = FALSE
      /\ UNCHANGED <<uartVars, handler, rx, timeVars>>
  BY DEF Mask, SetGlobalInterruptEnable, Step, inputVars
<1>2. OutputTypeOK'
  BY <1>1 DEF OutputInv, OutputTypeOK, uartVars, timeVars
<1>3. MainInv' /\ HandlerInv' /\ RoomInv'
  BY <1>1 DEF uartVars, OutputInv, MainInv, HandlerInv, RoomInv, Printing, Sending
<1> QED BY <1>2, <1>3 DEF OutputInv

LEMMA UnmaskOutput ==
  ASSUME OutputInv, Unmask
  PROVE  OutputInv'
<1>1. /\ pc = "unmask" /\ pc' = "leds" /\ handler = "none" /\ mstatus_mie' = TRUE /\ todo["main"] = << >>
      /\ UNCHANGED <<uartVars, handler, rx, timeVars>>
  BY DEF Unmask, SetGlobalInterruptEnable, Step, inputVars, Returning, running
<1>2. OutputTypeOK'
  BY <1>1 DEF OutputInv, OutputTypeOK, uartVars, timeVars
<1>3. Sending(<< >>, << >>)
  <2>1. MainLine \in Seq(Plain) /\ line \in Seq(Plain)
    BY Texts DEF OutputInv, OutputTypeOK
  <2>2. line \o << >> # Feed(MainLine)
    BY <2>1, FeedLast
  <2> QED BY <1>1, <2>2 DEF OutputInv, MainInv, Sending, Printing
<1>4. MainInv' /\ HandlerInv' /\ RoomInv'
  BY <1>1, <1>3 DEF uartVars, OutputInv, MainInv, HandlerInv, RoomInv, Printing, Sending
<1> QED BY <1>2, <1>4 DEF OutputInv

\* A call that prints hands its characters to uart_out when it has nothing left to send.
LEMMA SendOutput ==
  ASSUME OutputInv, Output
  PROVE  OutputInv'
<1>1. /\ pc \in {"hello", "time", "input", "read input", "value", "newline"} /\ pc' \in Printing
      /\ handler = "none" /\ mstatus_mie = FALSE
      /\ todo["main"] = << >> /\ ready["main"] = FALSE /\ todo \in [Runs -> Seq(Sent)] /\ "main" \in Runs
      /\ UNCHANGED <<handler, mstatus_mie, tx, rx, ready, line, time_elapsed, last_elapsed_time>>
  BY DEF Output, Send, ReadGpio, Step, Returning, running, Printing, uartVars, coreVars, inputVars, timeVars, OutputInv,
         HandlerInv, RoomInv, OutputTypeOK, Runs
<1>2. line \in Seq(Plain) /\ line \o << >> = line
  BY ConcatEmptySeq DEF OutputInv, OutputTypeOK
<1>3. ASSUME NEW chars \in Seq(Sent), todo' = [todo EXCEPT !["main"] = chars], in_val' = in_val,
             MainInv'
      PROVE  OutputInv'
  <2>1. todo' \in [Runs -> Seq(Sent)] /\ todo'["handler"] = todo["handler"] /\ todo'["main"] = chars
    BY <1>1, <1>3 DEF Runs
  <2>2. OutputTypeOK'
    BY <1>1, <1>3, <2>1 DEF OutputInv, OutputTypeOK
  <2>3. HandlerInv' /\ RoomInv'
    BY <1>1, <2>1 DEF OutputInv, HandlerInv, RoomInv, Printing, Runs
  <2> QED BY <1>3, <2>2, <2>3 DEF OutputInv
<1>4. ASSUME in_val' = in_val
      PROVE  UNCHANGED <<ToTime, ToInput, ToValue, ToNewline, MainLine>>
  BY <1>1, <1>4 DEF ToTime, ToInput, ToValue, ToNewline, MainLine, Hex
<1>5. CASE Send("hello", "time", puts(<<"Hello World! ">>))
  <2>1. pc = "hello" /\ pc' = "time" /\ in_val' = in_val /\ todo' = [todo EXCEPT !["main"] = puts(<<"Hello World! ">>)]
    BY <1>5, Zenon DEF Send, Step, timeVars
  <2>2. line = << >>
    <3>1. Sending(<< >>, << >>)
      <4>1. \A c \in Chars : ~Sending(Feed(<<c, "CR">>), << >>)
        BY <1>2, EchoText, FeedLast DEF Sending
      <4> QED BY <2>1, <4>1 DEF OutputInv, HandlerInv, Printing
    <3> QED BY <1>2, <3>1 DEF Sending
  <2>3. Sending(ToTime, todo["main"])'
    BY <1>1, <1>4, <2>1, <2>2, Texts DEF Sending, OutputInv
  <2>4. puts(<<"Hello World! ">>) \in Seq(Sent)
    BY Texts, PlainText DEF OutputInv
  <2> QED BY <1>3, <2>1, <2>3, <2>4 DEF MainInv, Printing
<1>6. CASE Send("time", "input", puthex(last_elapsed_time))
  <2>1. pc = "time" /\ pc' = "input" /\ in_val' = in_val /\ todo' = [todo EXCEPT !["main"] = puthex(last_elapsed_time)]
    BY <1>6, Zenon DEF Send, Step, timeVars
  <2>2. line = ToTime
    BY <1>1, <1>2, <2>1 DEF OutputInv, MainInv, Sending
  <2>3. Sending(ToInput, todo["main"])'
    BY <1>1, <1>4, <2>1, <2>2, Texts DEF Sending, OutputInv
  <2>4. puthex(last_elapsed_time) \in Seq(Sent)
    BY Texts, PlainText DEF OutputInv
  <2> QED BY <1>3, <2>1, <2>3, <2>4 DEF MainInv, Printing
<1>7. CASE Send("input", "read input", puts(<<"   Input Value: ">>))
  <2>1. pc = "input" /\ pc' = "read input" /\ in_val' = in_val /\ todo' = [todo EXCEPT !["main"] = puts(<<"   Input Value: ">>)]
    BY <1>7, Zenon DEF Send, Step, timeVars
  <2>2. line = ToInput
    BY <1>1, <1>2, <2>1 DEF OutputInv, MainInv, Sending
  <2>3. Sending(ToValue, todo["main"])'
    BY <1>1, <1>4, <2>1, <2>2, Texts DEF Sending, OutputInv
  <2>4. puts(<<"   Input Value: ">>) \in Seq(Sent)
    BY Texts, PlainText DEF OutputInv
  <2> QED BY <1>3, <2>1, <2>3, <2>4 DEF MainInv, Printing
<1>8. CASE Send("value", "newline", puthex(in_val))
  <2>1. pc = "value" /\ pc' = "newline" /\ in_val' = in_val /\ todo' = [todo EXCEPT !["main"] = puthex(in_val)]
    BY <1>8, Zenon DEF Send, Step, timeVars
  <2>2. line = ToValue
    BY <1>1, <1>2, <2>1 DEF OutputInv, MainInv, Sending
  <2>3. Sending(ToNewline, todo["main"])'
    BY <1>1, <1>4, <2>1, <2>2, Texts DEF Sending, OutputInv
  <2>4. puthex(in_val) \in Seq(Sent)
    BY Texts, PlainText DEF OutputInv
  <2> QED BY <1>3, <2>1, <2>3, <2>4 DEF MainInv, Printing
<1>9. CASE Send("newline", "unmask", putchar("LF"))
  <2>1. pc = "newline" /\ pc' = "unmask" /\ in_val' = in_val /\ todo' = [todo EXCEPT !["main"] = putchar("LF")]
    BY <1>9, Zenon DEF Send, Step, timeVars
  <2>2. line = ToNewline
    BY <1>1, <1>2, <2>1 DEF OutputInv, MainInv, Sending
  <2>3. Sending(Feed(MainLine), todo["main"])'
    BY <1>1, <1>4, <2>1, <2>2, Texts DEF Sending, OutputInv, Feed
  <2>4. putchar("LF") \in Seq(Sent)
    BY Texts, PlainText DEF OutputInv
  <2> QED BY <1>3, <2>1, <2>3, <2>4 DEF MainInv, Printing
<1>10. CASE ReadGpio
  <2>1. pc = "read input" /\ pc' = "value" /\ todo' = todo /\ in_val' \in Inputs
    BY <1>10 DEF ReadGpio, Step, uartVars
  <2>2. OutputTypeOK'
    BY <1>1, <2>1 DEF OutputInv, OutputTypeOK
  <2>3. HandlerInv' /\ RoomInv'
    BY <1>1, <2>1 DEF OutputInv, HandlerInv, RoomInv, Printing, Runs
  <2>4. ToValue' = ToValue
    BY <1>1 DEF ToTime, ToInput, ToValue, Hex
  <2>5. MainInv'
    BY <1>1, <2>1, <2>4 DEF OutputInv, MainInv, Printing, Sending
  <2> QED BY <2>2, <2>3, <2>5 DEF OutputInv
<1> QED BY <1>5, <1>6, <1>7, <1>8, <1>9, <1>10 DEF Output

LEMMA Associative == \A s, t, u \in Seq(Sent) : (s \o t) \o u = s \o (t \o u)
  BY ConcatAssociative

\* Room that uart_out has seen stays: nobody else writes until it does.
LEMMA PollOutput ==
  ASSUME OutputInv, Poll
  PROVE  OutputInv'
<1>1. /\ running \in Runs /\ tx < TxDepth /\ todo[running] # << >> /\ ready' = [ready EXCEPT ![running] = TRUE]
      /\ UNCHANGED <<pc, handler, mstatus_mie, todo, tx, line, rx, time_elapsed, last_elapsed_time, in_val>>
  BY DEF Poll, Returning, running, Runs, coreVars, inputVars, timeVars
<1>2. OutputTypeOK'
  BY <1>1 DEF OutputInv, OutputTypeOK
<1>3. MainInv'
  BY <1>1 DEF OutputInv, MainInv, Sending, ToTime, ToInput, ToValue, ToNewline, MainLine, Hex, Feed
<1>4. HandlerInv'
  BY <1>1 DEF OutputInv, HandlerInv, Sending, Feed
<1>5. RoomInv'
  BY <1>1 DEF OutputInv, OutputTypeOK, RoomInv
<1> QED BY <1>2, <1>3, <1>4, <1>5 DEF OutputInv

\* The byte is written to a FIFO with room, and is the next of what is being sent.
LEMMA WriteOutput ==
  ASSUME OutputInv, Write
  PROVE  OutputInv'
<1> DEFINE r == running
           rest == todo[r]
           c == Head(rest)
<1>1. /\ r \in Runs /\ ready[r] /\ rest # << >> /\ rest \in Seq(Sent) /\ tx \in 0 .. TxDepth /\ tx < TxDepth
      /\ line \in Seq(Plain) /\ todo \in [Runs -> Seq(Sent)] /\ ready \in [Runs -> BOOLEAN] /\ TxDepth \in Nat
  BY TimesType DEF Write, running, Runs, OutputInv, OutputTypeOK, RoomInv
<1>2. /\ tx' = tx + 1 /\ line' = IF c = "LF" THEN << >> ELSE Append(line, c)
      /\ todo' = [todo EXCEPT ![r] = Tail(@)] /\ ready' = [ready EXCEPT ![r] = FALSE]
      /\ UNCHANGED <<pc, handler, mstatus_mie, rx, time_elapsed, last_elapsed_time, in_val>>
  BY <1>1 DEF Write, coreVars, inputVars, timeVars
<1>3. todo'[r] = Tail(rest) /\ \A q \in Runs : q # r => todo'[q] = todo[q]
  BY <1>1, <1>2
<1>4. Tail(rest) \in Seq(Sent)
  BY <1>1, HeadTailProperties
<1>5. r = IF handler = "none" THEN "main" ELSE "handler"
  BY DEF running
<1>6. UNCHANGED <<ToTime, ToInput, ToValue, ToNewline, MainLine>>
  BY <1>2 DEF ToTime, ToInput, ToValue, ToNewline, MainLine, Hex
<1> HIDE DEF r
\* What is sent of a text, here and in the next state.
<1>7. ASSUME NEW text \in Seq(Plain)
      PROVE  /\ line \o rest = text => line' \in Seq(Plain) /\ line' \o Tail(rest) = text
             /\ line \o rest = Feed(text) =>
                  line' \in Seq(Plain) /\ (line' \o Tail(rest) = Feed(text) \/ line' \o Tail(rest) = << >>)
  <2>1. line' = After(line, rest)
    BY <1>2 DEF After
  <2> HIDE DEF rest, c
  <2> QED BY <1>1, <1>7, <2>1, SentOne
<1>8. RoomInv'
  <2>1. \A q \in Runs : q # r => ~ready[q]
    BY <1>1, <1>5, Zenon DEF OutputInv, RoomInv, HandlerInv, MainInv, Runs
  <2> QED BY <1>1, <1>2, <2>1 DEF RoomInv
<1>9. ASSUME line' \in Seq(Plain) PROVE OutputTypeOK'
  <2>1. todo' \in [Runs -> Seq(Sent)] /\ ready' \in [Runs -> BOOLEAN] /\ tx' \in 0 .. TxDepth
    BY <1>1, <1>2, <1>4
  <2> QED BY <1>2, <1>9, <2>1 DEF OutputInv, OutputTypeOK
<1>10. CASE handler = "none"
  <2>1. r = "main" /\ pc \in Printing /\ todo'["handler"] = << >> /\ todo["handler"] = << >>
    BY <1>1, <1>3, <1>5, <1>10 DEF OutputInv, MainInv, HandlerInv, Runs
  <2>2. /\ ToTime \in Seq(Plain) /\ ToInput \in Seq(Plain) /\ ToValue \in Seq(Plain) /\ ToNewline \in Seq(Plain)
        /\ MainLine \in Seq(Plain) /\ << >> \in Seq(Plain)
    BY Texts, EmptySeq DEF OutputInv
  <2>3. line' \in Seq(Plain) /\ MainInv'
    <3>1. CASE pc = "time"
      BY <1>2, <1>3, <1>6, <1>7, <2>1, <2>2, <3>1 DEF OutputInv, MainInv, Sending, Printing
    <3>2. CASE pc = "input"
      BY <1>2, <1>3, <1>6, <1>7, <2>1, <2>2, <3>2 DEF OutputInv, MainInv, Sending, Printing
    <3>3. CASE pc \in {"read input", "value"}
      BY <1>2, <1>3, <1>6, <1>7, <2>1, <2>2, <3>3 DEF OutputInv, MainInv, Sending, Printing
    <3>4. CASE pc = "newline"
      BY <1>2, <1>3, <1>6, <1>7, <2>1, <2>2, <3>4 DEF OutputInv, MainInv, Sending, Printing
    <3>5. CASE pc = "unmask"
      BY <1>2, <1>3, <1>6, <1>7, <2>1, <2>2, <3>5 DEF OutputInv, MainInv, Sending, Printing, Feed
    <3> QED BY <2>1, <3>1, <3>2, <3>3, <3>4, <3>5 DEF Printing
  <2>4. HandlerInv'
    BY <1>2, <2>1 DEF OutputInv, HandlerInv
  <2> QED BY <1>8, <1>9, <2>3, <2>4 DEF OutputInv
<1>11. CASE handler # "none"
  <2>1. r = "handler" /\ handler = "uart" /\ pc \notin Printing /\ todo'["main"] = todo["main"]
    BY <1>1, <1>3, <1>5, <1>11 DEF OutputInv, HandlerInv, Runs
  <2>2. MainInv'
    BY <1>2, <2>1 DEF OutputInv, MainInv, Printing
  <2>3. << >> \in Seq(Plain) /\ \A x \in Chars : <<x, "CR">> \in Seq(Plain)
    BY EmptySeq, EchoText
  <2>4. CASE line \o rest = << >>
    <3>1. line' \in Seq(Plain) /\ line' \o Tail(rest) = << >>
      BY <1>7, <2>3, <2>4
    <3>2. HandlerInv'
      BY <1>2, <1>3, <2>1, <3>1 DEF HandlerInv, OutputInv, Sending, Printing
    <3> QED BY <1>8, <1>9, <2>2, <3>1, <3>2 DEF OutputInv
  <2>5. CASE \E x \in Chars : line \o rest = Feed(<<x, "CR">>)
    <3>1. PICK x \in Chars : line \o rest = Feed(<<x, "CR">>)
      BY <2>5
    <3>2. line' \in Seq(Plain) /\ (line' \o Tail(rest) = Feed(<<x, "CR">>) \/ line' \o Tail(rest) = << >>)
      BY <1>7, <2>3, <3>1
    <3>3. HandlerInv'
      <4>1. Sending(<< >>, todo["handler"])' \/ Sending(Feed(<<x, "CR">>), todo["handler"])'
        BY <1>3, <2>1, <3>2 DEF Sending, Feed
      <4> QED BY <1>2, <2>1, <4>1, Zenon DEF HandlerInv, OutputInv, Printing, Feed
    <3> QED BY <1>8, <1>9, <2>2, <3>2, <3>3 DEF OutputInv
  <2> QED BY <2>1, <2>4, <2>5 DEF OutputInv, HandlerInv, Sending
<1> QED BY <1>10, <1>11

\* A handler starts to send only when main is between its lines.
LEMMA HandlerOutput ==
  ASSUME OutputInv, Echo \/ EchoDone \/ Count \/ Interrupt
  PROVE  OutputInv'
<1> USE DEF coreVars, inputVars, timeVars, uartVars
<1>1. CASE Echo
  <2>1. /\ handler = "uart" /\ todo["handler"] = << >> /\ rx # << >> /\ rx' = Tail(rx)
        /\ todo' = [todo EXCEPT !["handler"] = <<Head(rx), "CR", "LF">>]
        /\ UNCHANGED <<pc, handler, mstatus_mie, ready, tx, line, time_elapsed, last_elapsed_time, in_val>>
    BY <1>1 DEF Echo, Returning, running
  <2>2. Head(rx) \in Chars /\ rx' \in Seq(Chars) /\ Len(rx') <= RxDepth
    <3>1. rx \in Seq(Chars) /\ Len(rx) <= RxDepth /\ RxDepth \in Nat
      BY TimesType DEF OutputInv, OutputTypeOK
    <3> QED BY <2>1, <3>1, HeadTailProperties, LenProperties
  <2> PICK c \in Chars : c = Head(rx)
    BY <2>2
  <2>3. <<c, "CR", "LF">> \in Seq(Sent)
    <3>1. c \in Sent /\ "CR" \in Sent /\ "LF" \in Sent
      BY <2>2 DEF Sent, Plain
    <3> QED BY <3>1
  <2>4. todo' \in [Runs -> Seq(Sent)] /\ todo'["handler"] = <<c, "CR", "LF">> /\ todo'["main"] = todo["main"]
    BY <2>1, <2>3 DEF OutputInv, OutputTypeOK, Runs
  <2>5. OutputTypeOK'
    BY <2>1, <2>2, <2>4 DEF OutputInv, OutputTypeOK
  <2>6. pc \notin Printing /\ line = << >>
    <3>1. line \in Seq(Plain) /\ line \o << >> = line
      BY ConcatEmptySeq DEF OutputInv, OutputTypeOK
    <3>2. pc \notin Printing
      BY <2>1 DEF OutputInv, HandlerInv
    <3>3. \A x \in Chars : line \o << >> # Feed(<<x, "CR">>)
      BY <3>1, EchoText, FeedLast
    <3> QED BY <2>1, <3>1, <3>2, <3>3 DEF OutputInv, HandlerInv, Sending
  <2>7. MainInv'
    BY <2>1, <2>4, <2>6 DEF OutputInv, MainInv, Printing
  <2>8. HandlerInv'
    <3>1. << >> \o <<c, "CR", "LF">> = <<c, "CR", "LF">>
      BY <2>3, ConcatEmptySeq
    <3>2. Sending(Feed(<<c, "CR">>), todo["handler"])'
      BY <2>1, <2>2, <2>4, <2>6, <3>1, EchoText DEF Sending, Feed
    <3> QED BY <2>1, <2>2, <3>2 DEF OutputInv, HandlerInv
  <2>9. RoomInv'
    BY <2>1, <2>4 DEF OutputInv, RoomInv, Runs
  <2> QED BY <2>5, <2>7, <2>8, <2>9 DEF OutputInv
<1>2. CASE EchoDone \/ Count
  <2>1. /\ handler \in {"uart", "timer"} /\ handler' = "none" /\ mstatus_mie' = TRUE /\ UNCHANGED <<pc, uartVars, rx, in_val>>
        /\ last_elapsed_time' = last_elapsed_time /\ time_elapsed' \in {time_elapsed, (time_elapsed + 1) % Times}
        /\ todo["handler"] = << >>
    BY <1>2 DEF EchoDone, Count, Mret, Returning, running, OutputInv, HandlerInv
  <2>2. pc \notin Printing \cup {"hello"}
    BY <2>1 DEF OutputInv, HandlerInv
  <2>3. time_elapsed' \in 0 .. Times - 1 /\ last_elapsed_time' \in 0 .. Times - 1
    <3>1. time_elapsed \in 0 .. Times - 1 /\ last_elapsed_time \in 0 .. Times - 1
      BY DEF OutputInv, OutputTypeOK
    <3> QED BY <2>1, <3>1, TimesType
  <2>4. OutputTypeOK'
    BY <2>1, <2>3 DEF OutputInv, OutputTypeOK
  <2>5. MainInv' /\ HandlerInv' /\ RoomInv'
    BY <2>1, <2>2 DEF OutputInv, MainInv, HandlerInv, RoomInv, Printing, Sending, Feed
  <2> QED BY <2>4, <2>5 DEF OutputInv
<1>3. CASE Interrupt
  <2>1. /\ handler = "none" /\ (mstatus_mie \/ pc = "asleep") /\ handler' \in {"none", "uart", "timer", "lost"}
        /\ mstatus_mie' = FALSE /\ pc' = (IF pc = "asleep" THEN "check" ELSE pc)
        /\ UNCHANGED <<uartVars, rx, time_elapsed, last_elapsed_time, in_val>>
    BY <1>3 DEF Interrupt, Entered
  <2>2. pc \notin Printing \cup {"hello"} /\ pc' \notin Printing \cup {"hello"} /\ todo["handler"] = << >>
    BY <2>1 DEF OutputInv, HandlerInv, Printing
  <2>3. OutputTypeOK'
    BY <2>1 DEF OutputInv, OutputTypeOK
  <2>4. MainInv' /\ HandlerInv' /\ RoomInv'
    BY <2>1, <2>2 DEF OutputInv, MainInv, HandlerInv, RoomInv, Printing, Sending, Feed
  <2> QED BY <2>3, <2>4 DEF OutputInv
<1> QED BY <1>1, <1>2, <1>3

\* The UART's other end and the timer.
LEMMA OutsideOutput ==
  ASSUME OutputInv, Drain \/ Tick \/ (\E c \in Chars : Type(c)) \/ UNCHANGED vars
  PROVE  OutputInv'
<1> USE DEF coreVars, inputVars, timeVars, uartVars
<1>1. /\ UNCHANGED <<pc, handler, mstatus_mie, todo, ready, line, time_elapsed, last_elapsed_time, in_val>>
      /\ tx' = tx \/ (tx > 0 /\ tx' = tx - 1)
      /\ rx' = rx \/ \E c \in Chars : Len(rx) < RxDepth /\ rx' = Append(rx, c)
  BY DEF Drain, Tick, Type, vars
<1>2. rx' \in Seq(Chars) /\ Len(rx') <= RxDepth
  <2>1. rx \in Seq(Chars) /\ Len(rx) <= RxDepth /\ Len(rx) \in Nat /\ RxDepth \in Nat
    BY TimesType, LenProperties DEF OutputInv, OutputTypeOK
  <2> QED BY <1>1, <2>1, AppendProperties
<1>3. tx' \in 0 .. TxDepth /\ (tx < TxDepth => tx' < TxDepth)
  BY <1>1, TimesType DEF OutputInv, OutputTypeOK
<1>4. OutputTypeOK'
  BY <1>1, <1>2, <1>3 DEF OutputInv, OutputTypeOK
<1>5. MainInv' /\ HandlerInv'
  BY <1>1 DEF OutputInv, MainInv, HandlerInv, Sending, ToTime, ToInput, ToValue, ToNewline, MainLine, Hex, Feed
<1>6. RoomInv'
  BY <1>1, <1>3 DEF OutputInv, RoomInv
<1> QED BY <1>4, <1>5, <1>6 DEF OutputInv

LEMMA OutputHolds == Spec => []OutputInv
<1>1. OutputInv /\ [Next]_vars => OutputInv'
  BY StartupOutput, MaskOutput, UnmaskOutput, SendOutput, PollOutput, WriteOutput, HandlerOutput, OutsideOutput
     DEF Next, Program, Loop
<1> QED BY OutputInit, <1>1, PTL DEF Spec


\* What has been sent is the start of a text it is part of.
LEMMA Starts ==
  ASSUME NEW l \in Seq(Sent), NEW rest \in Seq(Sent)
  PROVE  IsPrefix(l, l \o rest)
<1>1. /\ Len(l \o rest) = Len(l) + Len(rest) /\ Len(l) \in Nat /\ Len(rest) \in Nat
      /\ \A i \in 1 .. Len(l) : (l \o rest)[i] = l[i] /\ l[i] \in Sent
  BY ConcatProperties, LenProperties, ElementOfSeq
<1> DEFINE s == SubSeq(l, 1, Len(l))
           t == SubSeq(l \o rest, 1, Len(l))
<1>2. /\ s \in Seq(Sent) /\ Len(s) = Len(l) /\ \A i \in 1 .. Len(l) : s[i] = l[i]
      /\ t \in Seq(Sent) /\ Len(t) = Len(l) /\ \A i \in 1 .. Len(l) : t[i] = (l \o rest)[i]
  BY <1>1, SubSeqProperties
<1>3. s = t
  <2> HIDE DEF s, t
  <2> QED BY <1>1, <1>2, SeqEqual
<1> QED BY <1>1, <1>3 DEF IsPrefix

\* For words of any size, FIFOs of any depth and any input, the line on the UART is the start of main's
\* line or of one echo: no handler comes between main's bytes, and none is lost at a full FIFO.
THEOREM OutputCorrect == Spec => []OutputNotMixed
<1>1. OutputInv => OutputNotMixed
  <2> SUFFICES ASSUME OutputInv PROVE OutputNotMixed
    OBVIOUS
  <2> DEFINE rest == IF pc \in Printing THEN todo["main"] ELSE todo["handler"]
  <2>1. line \in Seq(Plain) /\ line \in Seq(Sent) /\ rest \in Seq(Sent)
    BY PlainText DEF OutputInv, OutputTypeOK, Runs
  <2>2. /\ ToTime \in Seq(Sent) /\ ToInput \in Seq(Sent) /\ ToValue \in Seq(Sent) /\ ToNewline \in Seq(Sent)
        /\ MainLine \in Seq(Plain) /\ MainLine \in Seq(Sent)
    BY Texts, PlainText DEF OutputInv
  <2>3. \/ line \o rest \in {ToTime, ToInput, ToValue, ToNewline, << >>, Feed(MainLine)}
        \/ \E c \in Chars : line \o rest = Feed(<<c, "CR">>)
    BY DEF OutputInv, MainInv, HandlerInv, Sending, Printing
  <2> DEFINE Begun(text) == \E r \in Seq(Sent) : line \o r = text
  <2>4. ASSUME NEW text, NEW more \in Seq(Sent), Begun(text)
        PROVE  Begun(text \o more)
    <3>1. PICK r \in Seq(Sent) : line \o r = text
      BY <2>4
    <3>2. (line \o r) \o more = line \o (r \o more)
      BY <2>1, <2>4, Associative, Zenon
    <3>3. r \o more \in Seq(Sent)
      BY <2>4, ConcatProperties
    <3> QED BY <3>1, <3>2, <3>3
  <2> HIDE DEF rest
  <2>5. CASE line \o rest = << >>
    <3>1. line = << >>
      BY <2>1, <2>5, ConcatEqualIffEmpty
    <3>2. << >> \o MainLine = MainLine /\ << >> \in Seq(Sent)
      BY <2>2, ConcatEmptySeq, EmptySeq
    <3>3. IsPrefix(<< >>, MainLine)
      BY <2>2, <3>2, Starts
    <3> QED BY <3>1, <3>3 DEF OutputNotMixed
  <2>6. CASE line \o rest \in {ToTime, ToInput, ToValue, ToNewline}
    <3> DEFINE Time == Hex(last_elapsed_time)
               Value == Hex(in_val)
               Input == <<"   Input Value: ">>
               Cr == <<"CR">>
    <3>1. Time \in Seq(Sent) /\ Value \in Seq(Sent) /\ Input \in Seq(Sent) /\ Cr \in Seq(Sent)
      <4>1. last_elapsed_time \in 0 .. Times - 1 /\ in_val \in Inputs \cup {0}
        BY DEF OutputInv, OutputTypeOK
      <4>2. last_elapsed_time \in Nat /\ in_val \in Nat
        <5>1. Inputs \subseteq 0 .. 2^(Digits * DigitBits) - 1
          BY HelloAssumption
        <5> QED BY <4>1, <5>1
      <4>3. Glyphs \subseteq Plain
        BY DEF Plain
      <4>4. Time \in Seq(Sent) /\ Value \in Seq(Sent)
        BY <4>2, <4>3, HexGlyphs, PlainText, SeqMonotonic
      <4>5. "CR" \in Sent /\ "   Input Value: " \in Sent
        BY DEF Sent, Plain
      <4>6. \A str \in Sent : <<str>> \in Seq(Sent)
        OBVIOUS
      <4>7. Input \in Seq(Sent) /\ Cr \in Seq(Sent)
        BY <4>5, <4>6, Zenon
      <4> QED BY <4>4, <4>7, Zenon
    <3>2. ToInput = ToTime \o Time /\ ToValue = ToInput \o Input /\ ToNewline = ToValue \o Value /\ MainLine = ToNewline \o Cr
      BY DEF ToTime, ToInput, ToValue, ToNewline, MainLine
    <3> HIDE DEF Time, Value, Input, Cr
    <3>3. Begun(ToTime) \/ Begun(ToInput) \/ Begun(ToValue) \/ Begun(ToNewline)
      BY <2>1, <2>6
    <3> HIDE DEF Begun
    <3>4. Begun(MainLine)
      <4>1. Begun(ToTime) => Begun(ToInput)
        BY <2>4, <3>1, <3>2, Zenon
      <4>2. Begun(ToInput) => Begun(ToValue)
        BY <2>4, <3>1, <3>2, Zenon
      <4>3. Begun(ToValue) => Begun(ToNewline)
        BY <2>4, <3>1, <3>2, Zenon
      <4>4. Begun(ToNewline) => Begun(MainLine)
        BY <2>4, <3>1, <3>2, Zenon
      <4> QED BY <3>3, <4>1, <4>2, <4>3, <4>4, Zenon
    <3>5. IsPrefix(line, MainLine)
      BY <2>1, <3>4, Starts DEF Begun
    <3> QED BY <3>5 DEF OutputNotMixed
  <2>7. CASE line \o rest = Feed(MainLine)
    BY <2>1, <2>2, <2>7, SentStarts DEF OutputNotMixed
  <2>8. CASE \E c \in Chars : line \o rest = Feed(<<c, "CR">>)
    BY <2>1, <2>8, SentStarts, EchoText DEF OutputNotMixed
  <2> QED BY <2>3, <2>5, <2>6, <2>7, <2>8
<1> QED BY <1>1, OutputHolds, PTL

-----------------------------------------------------------------------------
(* The lights, and the types of the rest.                                  *)

LightInv ==
  /\ gpio_out \in {0} \cup {FirstLed * 2^i : i \in 0 .. Leds - 1}
  /\ pwm \in [0 .. NumPwm - 1 -> [counter : {0, Counter}, width : {0} \cup {2^i : i \in 0 .. FullBrightness - 1}]]
  /\ brightness \in 0 .. FullBrightness /\ color \in 1 .. 2^Channels - 1
  /\ module \in 0 .. NumPwm - 1
  /\ ascending \in BOOLEAN
  /\ IF ascending THEN brightness < FullBrightness ELSE brightness > 0

\* The sizes of the lights.
LEMMA Sizes == {Leds, Channels, NumPwm, FullBrightness} \subseteq Nat \ {0} /\ 2^Channels \in Nat /\ 2^Channels >= 2
<1>1. {Leds, Channels, NumPwm, FullBrightness} \subseteq Nat \ {0}
  BY HelloAssumption
<1>2. Channels - 1 \in Nat /\ (Channels - 1) + 1 = Channels
  BY <1>1
<1>3. 2^((Channels - 1) + 1) = 2 * 2^(Channels - 1) /\ 2^(Channels - 1) \in Nat \ {0}
  BY <1>2, PowerNext, PowerOfTwo
<1> QED BY <1>1, <1>2, <1>3

LEMMA LightInit == Init => LightInv
<1> SUFFICES ASSUME Init PROVE LightInv
  OBVIOUS
<1>1. brightness \in 0 .. FullBrightness /\ brightness < FullBrightness /\ ascending = TRUE
  <2>1. brightness = 0 /\ ascending = TRUE
    BY Zenon DEF Init
  <2> QED BY <2>1, Sizes
<1>2. color \in 1 .. 2^Channels - 1
  <2>1. color = 2^Channels - 1
    BY Zenon DEF Init
  <2> QED BY <2>1, Sizes
<1>3. pwm \in [0 .. NumPwm - 1 -> [counter : {0, Counter}, width : {0} \cup {2^i : i \in 0 .. FullBrightness - 1}]]
  BY Zenon DEF Init
<1>4. module \in 0 .. NumPwm - 1
  <2>1. module = 0
    BY Zenon DEF Init
  <2>2. NumPwm \in Nat \ {0}
    BY Sizes
  <2> QED BY <2>1, <2>2
<1> QED BY <1>1, <1>2, <1>3, <1>4 DEF Init, LightInv

\* The lit LED moves up, and off the last one back to the first.
LEMMA LedMoves ==
  ASSUME gpio_out \in {0} \cup {FirstLed * 2^i : i \in 0 .. Leds - 1}
  PROVE  NextLed \in {0} \cup {FirstLed * 2^i : i \in 0 .. Leds - 1}
<1> DEFINE moved == Mod((gpio_out * 2) \div FirstLed, Leds)
<1>1. FirstLed \in {FirstLed * 2^i : i \in 0 .. Leds - 1}
  <2>1. FirstLed = FirstLed * 2^0 /\ 0 \in 0 .. Leds - 1
    BY Sizes DEF FirstLed
  <2> QED BY <2>1, Zenon
<1>2. moved \in {0} \cup {2^i : i \in 0 .. Leds - 1}
  <2>1. Leds \in Nat \ {0} /\ 2^Leds \in Nat \ {0}
    BY Sizes, PowerOfTwo
  <2>2. CASE gpio_out = 0
    <3>1. (0 * 2) \div FirstLed = 0 /\ 0 % 2^Leds = 0
      BY <2>1 DEF FirstLed
    <3> QED BY <2>2, <3>1 DEF Mod
  <2>3. CASE gpio_out \in {FirstLed * 2^i : i \in 0 .. Leds - 1}
    <3>1. PICK i \in 0 .. Leds - 1 : gpio_out = FirstLed * 2^i
      BY <2>3
    <3>2. i \in Nat /\ i + 1 \in Nat /\ i + 1 <= Leds
      BY <2>1
    <3>3. (gpio_out * 2) \div FirstLed = 2^(i + 1)
      <4>1. 2^(i + 1) = 2 * 2^i /\ 2^i \in Nat
        BY <3>2, PowerNext, PowerOfTwo
      <4> QED BY <3>1, <4>1 DEF FirstLed
    <3>4. CASE i + 1 = Leds
      <4>1. 2^Leds % 2^Leds = 0
        <5>1. \A n \in Nat \ {0} : n % n = 0
          BY Z3
        <5> QED BY <2>1, <5>1
      <4> QED BY <3>3, <3>4, <4>1 DEF Mod
    <3>5. CASE i + 1 # Leds
      <4> DEFINE left == Leds - (i + 1) - 1
      <4>1. left \in Nat /\ Leds = (i + 1) + (left + 1) /\ left + 1 \in Nat
        BY <2>1, <3>2, <3>5
      <4>2. 2^Leds = 2^(i + 1) * 2^(left + 1) /\ 2^(left + 1) = 2 * 2^left
        BY <3>2, <4>1, PowerSum, PowerNext
      <4>3. 2^(i + 1) \in Nat \ {0} /\ 2^left \in Nat \ {0}
        BY <3>2, <4>1, PowerOfTwo
      <4>4. \A x, y \in Nat \ {0} : x < x * (2 * y)
        BY Z3
      <4>5. 2^(i + 1) < 2^Leds
        BY <4>2, <4>3, <4>4
      <4>6. 2^(i + 1) % 2^Leds = 2^(i + 1)
        BY <2>1, <4>3, <4>5
      <4>7. i + 1 \in 0 .. Leds - 1
        BY <2>1, <3>2, <3>5
      <4> QED BY <3>3, <4>6, <4>7 DEF Mod
    <3> QED BY <3>4, <3>5
  <2> QED BY <2>2, <2>3
<1>3. FirstLed * 0 = 0
  BY DEF FirstLed
<1> HIDE DEF moved
<1>4. FirstLed * moved \in {0} \cup {FirstLed * 2^i : i \in 0 .. Leds - 1}
  BY <1>2, <1>3
<1> QED BY <1>1, <1>4 DEF NextLed, moved

LEMMA LightStep == LightInv /\ [Next]_vars => LightInv'
<1> SUFFICES ASSUME LightInv, [Next]_vars PROVE LightInv'
  OBVIOUS
<1> USE DEF lightVars
<1>1. CASE CycleLeds
  BY <1>1, LedMoves DEF CycleLeds, LightInv
<1>2. CASE SetOutputs
  <2>1. FirstLed \in {FirstLed * 2^i : i \in 0 .. Leds - 1}
    <3>1. FirstLed = FirstLed * 2^0 /\ 0 \in 0 .. Leds - 1
      BY Sizes DEF FirstLed
    <3> QED BY <3>1, Zenon
  <2> QED BY <1>2, <2>1 DEF SetOutputs, LightInv
<1>3. CASE SetPwm
  <2> DEFINE Widths == {0} \cup {2^i : i \in 0 .. FullBrightness - 1}
  <2>1. pwm \in [0 .. NumPwm - 1 -> [counter : {0, Counter}, width : Widths]] /\ module \in 0 .. NumPwm - 1
    BY DEF LightInv
  <2>2. Width \in Widths
    <3>1. brightness # 0 => brightness - 1 \in 0 .. FullBrightness - 1
      BY Sizes DEF LightInv
    <3> QED BY <3>1, Zenon DEF Width
  <2>3. module' \in 0 .. NumPwm - 1
    <3>1. module' = module \/ module' = (module + 1) % NumPwm
      BY <1>3 DEF SetPwm, SetCounter, SetWidth
    <3>2. NumPwm \in Nat \ {0}
      BY Sizes
    <3> QED BY <2>1, <3>1, <3>2
  <2> HIDE DEF Widths
  <2>4. pwm' \in [0 .. NumPwm - 1 -> [counter : {0, Counter}, width : Widths]]
    <3>1. CASE SetCounter
      <4>1. PICK c \in {0, Counter} : pwm' = [pwm EXCEPT ![module].counter = c]
        BY <3>1, Zenon DEF SetCounter
      <4> QED BY <2>1, <4>1
    <3>2. CASE SetWidth
      <4>1. pwm' = [pwm EXCEPT ![module].width = Width]
        BY <3>2, Zenon DEF SetWidth
      <4> QED BY <2>1, <2>2, <4>1
    <3> QED BY <1>3, <3>1, <3>2 DEF SetPwm
  <2>5. UNCHANGED <<brightness, color, ascending, gpio_out>>
    BY <1>3 DEF SetPwm, SetCounter, SetWidth
  <2> QED BY <2>3, <2>4, <2>5, Zenon DEF LightInv, Widths
<1>4. CASE Shade
  <2>1. /\ brightness' = IF ascending THEN brightness + 1 ELSE brightness - 1
        /\ ascending' = IF ascending THEN brightness' < FullBrightness ELSE brightness' = 0
        /\ color' \in {NextColor, color} /\ UNCHANGED <<gpio_out, pwm, module>>
    BY <1>4 DEF Shade
  <2>2. /\ brightness' \in 0 .. FullBrightness /\ ascending' \in BOOLEAN
        /\ IF ascending' THEN brightness' < FullBrightness ELSE brightness' > 0
    <3>1. brightness \in 0 .. FullBrightness /\ FullBrightness \in Nat \ {0}
      BY Sizes DEF LightInv
    <3>2. /\ ascending' \in BOOLEAN
          /\ ascending => (ascending' <=> brightness' < FullBrightness)
          /\ ~ascending => (ascending' <=> brightness' = 0)
      <4> DEFINE more == brightness' < FullBrightness
                 none == brightness' = 0
      <4>1. more \in BOOLEAN /\ none \in BOOLEAN /\ ascending' = IF ascending THEN more ELSE none
        BY <2>1
      <4> HIDE DEF more, none
      <4>2. /\ ascending' \in BOOLEAN
            /\ ascending => (ascending' <=> more)
            /\ ~ascending => (ascending' <=> none)
        BY <4>1
      <4> QED BY <4>2 DEF more, none
    <3>3. IF ascending THEN brightness < FullBrightness ELSE brightness > 0
      BY DEF LightInv
    <3>4. CASE ascending
      BY <2>1, <3>1, <3>2, <3>3, <3>4
    <3>5. CASE ~ascending
      BY <2>1, <3>1, <3>2, <3>3, <3>5
    <3> QED BY <3>4, <3>5
  <2>3. color' \in 1 .. 2^Channels - 1
    BY <2>1, Sizes DEF LightInv, NextColor
  <2> QED BY <2>1, <2>2, <2>3 DEF LightInv
<1>5. CASE ~CycleLeds /\ ~SetOutputs /\ ~SetPwm /\ ~Shade
  <2>1. UNCHANGED lightVars
    <3>1. CASE Startup
      BY <1>5, <3>1 DEF Startup, UartEnableRxInt, InstallUart, EnableInterrupts, SetGlobalInterruptEnable, InstallTimer, StartTimer,
                  FirstTime
    <3>2. CASE Check \/ Mask \/ Unmask \/ Wfi
      BY <3>2 DEF Check, Mask, Unmask, Wfi, SetGlobalInterruptEnable
    <3>3. CASE Output
      BY <3>3 DEF Output, Send, ReadGpio
    <3>4. CASE Poll \/ Write \/ Echo \/ Drain \/ Tick \/ \E c \in Chars : Type(c)
      BY <3>4 DEF Poll, Write, Echo, Drain, Tick, Type
    <3>5. CASE EchoDone \/ Count \/ Interrupt
      BY <3>5 DEF EchoDone, Count, Interrupt, Mret
    <3>6. CASE UNCHANGED vars
      BY <3>6 DEF vars
    <3> QED BY <1>5, <3>1, <3>2, <3>3, <3>4, <3>5, <3>6 DEF Next, Program, Loop
  <2> QED BY <2>1 DEF LightInv
<1> QED BY <1>1, <1>2, <1>3, <1>4, <1>5

-----------------------------------------------------------------------------
(* The colours.                                                            *)

\* The counter the colour gives a module.
Shown(i) == IF (color \div 2^(i % Channels)) % 2 = 1 THEN Counter ELSE 0

\* The modules show the colour, those main's loop has not reached only if the colour has not
\* moved on; it does as the brightness becomes zero, and finds them at the dimmest width.
ColourInv ==
  /\ DOMAIN pwm = 0 .. NumPwm - 1
  /\ module \in 0 .. NumPwm - 1
  /\ pc \in {"pwm counter", "pwm width"} \/ module = 0
  /\ \A i \in 0 .. NumPwm - 1 :
       /\ brightness # 0 \/ pc = "shade" \/ i < module \/ (pc = "pwm width" /\ i = module) => pwm[i].counter = Shown(i)
       /\ pc = "shade" \/ i < module => pwm[i].width = Width
       /\ brightness = 0 => pwm[i].width <= 1

LEMMA ColourInit == Init => ColourInv
<1> SUFFICES ASSUME Init PROVE ColourInv
  OBVIOUS
<1>1. pwm = [i \in 0 .. NumPwm - 1 |-> [counter |-> 0, width |-> 0]]
  BY Zenon DEF Init
<1>2. module = 0 /\ pc = "install uart" /\ brightness = 0
  BY Zenon DEF Init
<1>3. NumPwm \in Nat \ {0}
  BY Sizes
<1>4. module \in 0 .. NumPwm - 1 /\ \A i \in 0 .. NumPwm - 1 : ~(i < module)
  <2>1. \A m, n : m = 0 /\ n \in Nat \ {0} => m \in 0 .. n - 1 /\ \A i \in 0 .. n - 1 : ~(i < m)
    OBVIOUS
  <2> QED BY <1>2, <1>3, <2>1, Zenon
<1>5. DOMAIN pwm = 0 .. NumPwm - 1 /\ \A i \in 0 .. NumPwm - 1 : pwm[i].width = 0
  BY <1>1, Zenon
<1>6. \A w : w = 0 => w <= 1
  OBVIOUS
<1>7. \A i \in 0 .. NumPwm - 1 : ~(brightness # 0 \/ pc = "shade" \/ i < module \/ pc = "pwm width") /\ pwm[i].width <= 1
  BY <1>2, <1>4, <1>5, <1>6
<1> QED BY <1>2, <1>4, <1>5, <1>7, Zenon DEF ColourInv

LEMMA LoopGoesOn ==
  ASSUME NEW n \in Nat \ {0}, NEW i \in 0 .. n - 1, i + 1 < n
  PROVE  i + 1 \in 0 .. n - 1
  OBVIOUS

\* A write to a PWM changes one field of one module.
LEMMA CounterWrite ==
  ASSUME LightInv, ColourInv, SetCounter
  PROVE  /\ DOMAIN pwm' = 0 .. NumPwm - 1 /\ UNCHANGED <<module, brightness, color>>
         /\ pc = "pwm counter" /\ pc' = "pwm width"
         /\ \A i \in 0 .. NumPwm - 1 : pwm'[i].width = pwm[i].width
         /\ \A i \in 0 .. NumPwm - 1 : pwm'[i].counter = IF i = module THEN Shown(module) ELSE pwm[i].counter
<1> DEFINE Widths == {0} \cup {2^i : i \in 0 .. FullBrightness - 1}
<1>1. /\ UNCHANGED <<module, brightness, color>> /\ pc = "pwm counter" /\ pc' = "pwm width"
      /\ pwm' = [pwm EXCEPT ![module].counter = Shown(module)]
  BY DEF SetCounter, Step, Shown
<1>2. pwm \in [0 .. NumPwm - 1 -> [counter : {0, Counter}, width : Widths]] /\ module \in 0 .. NumPwm - 1
  BY Zenon DEF LightInv
<1> HIDE DEF Widths
<1>3. /\ DOMAIN pwm' = 0 .. NumPwm - 1
      /\ \A i \in 0 .. NumPwm - 1 : pwm'[i].width = pwm[i].width
      /\ \A i \in 0 .. NumPwm - 1 : pwm'[i].counter = IF i = module THEN Shown(module) ELSE pwm[i].counter
  <2> DEFINE c == Shown(module)
             I == 0 .. NumPwm - 1
  <2>1. pwm' = [pwm EXCEPT ![module].counter = c] /\ pwm \in [I -> [counter : {0, Counter}, width : Widths]] /\ module \in I
    BY <1>1, <1>2
  <2> HIDE DEF c, I
  <2>2. /\ DOMAIN pwm' = I
        /\ \A i \in I : pwm'[i].width = pwm[i].width
        /\ \A i \in I : pwm'[i].counter = IF i = module THEN c ELSE pwm[i].counter
    BY <2>1
  <2> QED BY <2>2, Zenon DEF c, I
<1> QED BY <1>1, <1>3

LEMMA WidthWrite ==
  ASSUME LightInv, ColourInv, SetWidth
  PROVE  /\ DOMAIN pwm' = 0 .. NumPwm - 1 /\ UNCHANGED <<brightness, color>>
         /\ pc = "pwm width"
         /\ \/ module + 1 < NumPwm /\ module' = module + 1 /\ pc' = "pwm counter"
            \/ module = NumPwm - 1 /\ module' = 0 /\ pc' = "shade"
         /\ \A i \in 0 .. NumPwm - 1 : pwm'[i].counter = pwm[i].counter
         /\ \A i \in 0 .. NumPwm - 1 : pwm'[i].width = IF i = module THEN Width ELSE pwm[i].width
<1> DEFINE Widths == {0} \cup {2^i : i \in 0 .. FullBrightness - 1}
<1>1. /\ UNCHANGED <<brightness, color>> /\ pc = "pwm width"
      /\ pc' = (IF module + 1 < NumPwm THEN "pwm counter" ELSE "shade") /\ module' = (module + 1) % NumPwm
      /\ pwm' = [pwm EXCEPT ![module].width = Width]
  BY DEF SetWidth, Step
<1>2. pwm \in [0 .. NumPwm - 1 -> [counter : {0, Counter}, width : Widths]] /\ module \in 0 .. NumPwm - 1
  BY Zenon DEF LightInv
<1>3. \/ module + 1 < NumPwm /\ module' = module + 1 /\ pc' = "pwm counter"
      \/ module = NumPwm - 1 /\ module' = 0 /\ pc' = "shade"
  <2>1. NumPwm \in Nat \ {0} /\ module \in 0 .. NumPwm - 1
    <3>1. NumPwm \in Nat \ {0}
      BY Sizes
    <3> QED BY <1>2, <3>1
  <2>2. CASE module + 1 < NumPwm
    <3>1. module + 1 \in Nat /\ (module + 1) % NumPwm = module + 1
      BY <2>1, <2>2
    <3> QED BY <1>1, <2>2, <3>1
  <2>3. CASE ~(module + 1 < NumPwm)
    <3>1. module = NumPwm - 1 /\ module + 1 = NumPwm
      BY <2>1, <2>3
    <3>2. \A n \in Nat \ {0} : n % n = 0
      BY Z3
    <3> QED BY <1>1, <2>1, <2>3, <3>1, <3>2
  <2> QED BY <2>2, <2>3
<1> HIDE DEF Widths
<1>4. /\ DOMAIN pwm' = 0 .. NumPwm - 1
      /\ \A i \in 0 .. NumPwm - 1 : pwm'[i].counter = pwm[i].counter
      /\ \A i \in 0 .. NumPwm - 1 : pwm'[i].width = IF i = module THEN Width ELSE pwm[i].width
  <2> DEFINE w == Width
             I == 0 .. NumPwm - 1
  <2>1. pwm' = [pwm EXCEPT ![module].width = w] /\ pwm \in [I -> [counter : {0, Counter}, width : Widths]] /\ module \in I
    BY <1>1, <1>2
  <2> HIDE DEF w, I
  <2>2. /\ DOMAIN pwm' = I
        /\ \A i \in I : pwm'[i].counter = pwm[i].counter
        /\ \A i \in I : pwm'[i].width = IF i = module THEN w ELSE pwm[i].width
    BY <2>1
  <2> QED BY <2>2, Zenon DEF w, I
<1> QED BY <1>1, <1>3, <1>4

\* Only SetPwm and Shade touch the PWMs and what is shown on them.
LEMMA OthersKeepColour ==
  ASSUME [Next]_vars, ~SetPwm, ~Shade
  PROVE  UNCHANGED <<pwm, module, brightness, color>> /\ (pc' \in {"pwm width", "shade"} => pc' = pc)
         /\ (pc \in {"pwm counter", "pwm width", "shade"} => pc' = pc)
<1> USE DEF lightVars
<1>1. CASE Startup
  BY <1>1 DEF Startup, UartEnableRxInt, InstallUart, EnableInterrupts, SetGlobalInterruptEnable, InstallTimer, StartTimer,
              FirstTime, SetOutputs, Step
<1>2. CASE Check \/ Mask \/ Unmask \/ CycleLeds \/ Wfi
  BY <1>2 DEF Check, Mask, Unmask, CycleLeds, Wfi, SetGlobalInterruptEnable, Step
<1>3. CASE Output
  BY <1>3 DEF Output, Send, ReadGpio, Step
<1>4. CASE Poll \/ Write \/ Echo \/ Drain \/ Tick \/ \E c \in Chars : Type(c)
  BY <1>4 DEF Poll, Write, Echo, Drain, Tick, Type
<1>5. CASE EchoDone \/ Count \/ Interrupt
  BY <1>5 DEF EchoDone, Count, Interrupt, Mret
<1>6. CASE UNCHANGED vars
  BY <1>6 DEF vars
<1> QED BY <1>1, <1>2, <1>3, <1>4, <1>5, <1>6 DEF Next, Program, Loop

LEMMA ColourStep == LightInv /\ ColourInv /\ [Next]_vars => ColourInv'
<1> SUFFICES ASSUME LightInv, ColourInv, [Next]_vars PROVE ColourInv'
  OBVIOUS
<1> DEFINE I == 0 .. NumPwm - 1
           Reached(i) == brightness # 0 \/ pc = "shade" \/ i < module \/ (pc = "pwm width" /\ i = module)
<1>1. NumPwm \in Nat \ {0} /\ module \in I
  BY Sizes DEF ColourInv
<1>2. /\ \A i \in I : Reached(i) => pwm[i].counter = Shown(i)
      /\ \A i \in I : pc = "shade" \/ i < module => pwm[i].width = Width
      /\ \A i \in I : brightness = 0 => pwm[i].width <= 1
  BY DEF ColourInv
<1>3. CASE SetCounter
  <2>1. \A i \in I : Shown(i)' = Shown(i) /\ Width' = Width
    BY <1>3, CounterWrite DEF Shown, Width
  <2>2. \A i \in I : Reached(i)' => i = module \/ Reached(i)
    BY <1>3, CounterWrite
  <2>3. \A i \in I : Reached(i)' => pwm'[i].counter = Shown(i)'
    <3> HIDE DEF Reached, I
    <3> QED BY <1>2, <1>3, <2>1, <2>2, CounterWrite DEF I
  <2>4. /\ \A i \in I : pc' = "shade" \/ i < module' => pwm'[i].width = Width'
        /\ \A i \in I : brightness' = 0 => pwm'[i].width <= 1
    BY <1>2, <1>3, <2>1, CounterWrite
  <2>5. DOMAIN pwm' = I /\ module' \in I /\ pc' = "pwm width"
    BY <1>1, <1>3, CounterWrite
  <2> QED BY <2>3, <2>4, <2>5 DEF ColourInv
<1>4. CASE SetWidth
  <2>1. \A i \in I : Shown(i)' = Shown(i) /\ Width' = Width
    BY <1>4, WidthWrite DEF Shown, Width
  <2>2. /\ pc = "pwm width" /\ brightness' = brightness
    BY <1>4, WidthWrite
  <2>9. \/ module + 1 < NumPwm /\ module' = module + 1 /\ pc' = "pwm counter"
        \/ module = NumPwm - 1 /\ module' = 0 /\ pc' = "shade"
    BY <1>4, WidthWrite, Zenon
  <2>4. \A i \in I : pc' = "shade" \/ i < module' => i = module \/ i < module
    <3>1. CASE module' = module + 1 /\ pc' = "pwm counter"
      <4>1. \A i \in I : i < module + 1 => i = module \/ i < module
        BY <1>1
      <4>2. pc' # "shade"
        BY <3>1
      <4> QED BY <3>1, <4>1, <4>2, Zenon
    <3>2. CASE module = NumPwm - 1
      BY <1>1, <3>2
    <3> QED BY <2>9, <3>1, <3>2
  <2>8. \A i \in I : Reached(i)' => Reached(i)
    BY <2>2, <2>4, <2>9
  <2>3. \A i \in I : Reached(i)' => pwm'[i].counter = Shown(i)'
    <3> HIDE DEF Reached, I
    <3> QED BY <1>2, <1>4, <2>1, <2>8, WidthWrite DEF I
  <2>5. \A i \in I : pc' = "shade" \/ i < module' => pwm'[i].width = Width'
    <3> HIDE DEF I
    <3> QED BY <1>2, <1>4, <2>1, <2>4, WidthWrite DEF I
  <2>6. \A i \in I : brightness' = 0 => pwm'[i].width <= 1
    <3>1. brightness = 0 => Width <= 1
      BY DEF Width
    <3> QED BY <1>2, <1>4, <3>1, WidthWrite
  <2>7. DOMAIN pwm' = I /\ module' \in I /\ (pc' \in {"pwm counter", "pwm width"} \/ module' = 0)
    <3>1. DOMAIN pwm' = I
      BY <1>4, WidthWrite, Zenon
    <3>2. CASE module + 1 < NumPwm /\ module' = module + 1 /\ pc' = "pwm counter"
      <4>1. module + 1 \in 0 .. NumPwm - 1
        BY <1>1, <3>2, LoopGoesOn, Zenon
      <4> QED BY <3>1, <3>2, <4>1, Zenon
    <3>3. CASE module' = 0
      BY <1>1, <3>1, <3>3
    <3> QED BY <2>9, <3>2, <3>3
  <2> QED BY <2>3, <2>5, <2>6, <2>7 DEF ColourInv
<1>5. CASE Shade
  <2>1. pc = "shade" /\ pc' = "wfi" /\ UNCHANGED <<pwm, module>>
    BY <1>5 DEF Shade, Step
  <2>2. /\ brightness' = (IF ascending THEN brightness + 1 ELSE brightness - 1)
        /\ color' = color \/ brightness' = 0
    BY <1>5 DEF Shade
  <2>3. brightness' = 0 => brightness = 1
    BY <2>2, Sizes DEF LightInv
  <2>4. brightness = 1 => Width = 1
    BY DEF Width
  <2>5. \A i \in I : pwm[i].counter = Shown(i) /\ pwm[i].width = Width
    BY <1>2, <2>1
  <2>6. color' = color => \A i \in I : Shown(i)' = Shown(i)
    BY DEF Shown
  <2>7. module' = 0 /\ \A i \in I : ~(i < module')
    <3>1. module = 0
      BY <2>1 DEF ColourInv
    <3> QED BY <2>1, <3>1
  <2>8. \A i \in I : brightness' = 0 => pwm'[i].width <= 1
    BY <2>1, <2>3, <2>4, <2>5
  <2>9. \A i \in I : Reached(i)' => pwm'[i].counter = Shown(i)'
    BY <2>1, <2>2, <2>5, <2>6, <2>7
  <2> QED BY <1>1, <2>1, <2>7, <2>8, <2>9 DEF ColourInv
<1>6. CASE ~SetCounter /\ ~SetWidth /\ ~Shade
  <2>1. UNCHANGED <<pwm, module, brightness, color>> /\ (pc' \in {"pwm width", "shade"} => pc' = pc)
        /\ (pc \in {"pwm counter", "pwm width", "shade"} => pc' = pc)
    BY <1>6, OthersKeepColour DEF SetPwm
  <2>2. \A i \in I : Shown(i)' = Shown(i) /\ Width' = Width
    BY <2>1 DEF Shown, Width
  <2>3. \A i \in I : Reached(i)' => Reached(i)
    BY <2>1
  <2>4. \A i \in I : Reached(i)' => pwm'[i].counter = Shown(i)'
    <3> HIDE DEF Reached, I
    <3> QED BY <1>2, <2>1, <2>2, <2>3
  <2> QED BY <1>1, <1>2, <2>1, <2>2, <2>4 DEF ColourInv
<1> QED BY <1>3, <1>4, <1>5, <1>6

LEMMA ColourChange ==
  ASSUME LightInv, ColourInv, [Next]_vars
  PROVE  [\A i \in DOMAIN pwm :
            pwm'[i].counter # pwm[i].counter =>
              pwm[i].width <= 1 /\ \A j \in 0 .. i - 1 : pwm[j].width = 0]_pwm
<1>1. CASE SetCounter
  <2> SUFFICES ASSUME NEW i \in 0 .. NumPwm - 1, pwm'[i].counter # pwm[i].counter
               PROVE  pwm[i].width <= 1 /\ \A j \in 0 .. i - 1 : pwm[j].width = 0
    BY DEF ColourInv
  <2>1. i = module /\ Shown(i) # pwm[i].counter
    BY <1>1, CounterWrite
  <2>2. brightness = 0 /\ Width = 0
    BY <2>1, Zenon DEF ColourInv, Width
  <2>3. \A j \in 0 .. i - 1 : j \in 0 .. NumPwm - 1 /\ j < module
    BY <2>1, Sizes
  <2> QED BY <2>2, <2>3 DEF ColourInv
<1>2. CASE SetWidth
  BY <1>2, WidthWrite DEF ColourInv
<1>3. CASE ~SetPwm
  BY <1>3, OthersKeepColour DEF Shade
<1> QED BY <1>1, <1>2, <1>3 DEF SetPwm

\* For any number of modules and channels and any brightness, and wherever an interrupt comes between
\* the writes, a module changes its counter only at the dimmest width or off, and only after the modules
\* before it have been set to zero.
THEOREM ColoursCorrect == Spec => ColourChangesDim
<1>1. Spec => [](LightInv /\ ColourInv)
  BY LightInit, LightStep, ColourInit, ColourStep, PTL DEF Spec
<1> QED BY <1>1, ColourChange, PTL DEF Spec, ColourChangesDim

-----------------------------------------------------------------------------

\* Every variable stays in its range: the lit LED is one of the LEDs, the FIFO never overflows, and
\* brightness and colour stay within their limits however long the demo runs.
THEOREM TypeCorrect == Spec => []TypeOK
<1>1. Spec => []VectorInv
  BY VectorInit, VectorStep, PTL DEF Spec
<1>2. Spec => []LightInv
  BY LightInit, LightStep, PTL DEF Spec
<1>3. VectorInv /\ LightInv /\ OutputInv => TypeOK
  BY DEF VectorInv, LightInv, OutputInv, OutputTypeOK, TypeOK
<1> QED BY <1>1, <1>2, <1>3, OutputHolds, PTL

=============================================================================
