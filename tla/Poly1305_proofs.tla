--------------------------- MODULE Poly1305_proofs ---------------------------
(***************************************************************************)
(* Theorems about the poly1305 demo, for words and bytes of any size, any  *)
(* key, any chunks and any number of updates. The arithmetic of the code,  *)
(* its columns, carries, two passes and masked subtraction, is shown to be *)
(* that of the integers modulo P; the invariant then says which blocks of  *)
(* the message the accumulator stands for at each place of the loop.       *)
(***************************************************************************)
EXTENDS Poly1305, FiniteSetTheorems, SequenceTheorems, TLAPS

-----------------------------------------------------------------------------
(* Numbers: induction, functions by recursion, powers of two.              *)

\* Every set of numbers has a least one.
LEMMA Least ==
  ASSUME NEW T, T \subseteq Nat, T # {}
  PROVE  \E m \in T : \A n \in T : ~(n < m)
<1> DEFINE R == {pair \in Nat \X Nat : pair[1] < pair[2]}
<1>1. IsWellFoundedOn(R, Nat)
  BY NatLessThanWellFounded, Zenon DEF OpToRel
<1>2. \E m \in T : \A n \in T : ~(<<n, m>> \in R)
  <2> HIDE DEF R
  <2> QED BY <1>1, WFMin, Zenon
<1>3. \A m, n \in Nat : m < n => <<m, n>> \in R
  BY SMT
<1>4. PICK m \in T : \A n \in T : ~(<<n, m>> \in R)
  BY <1>2, Zenon
<1> HIDE DEF R
<1> QED BY <1>3, <1>4, Zenon

\* Induction, for a property given as the set of the numbers that have it.
LEMMA Induction ==
  ASSUME NEW S, 0 \in S, \A n \in Nat : n \in S => n + 1 \in S
  PROVE  Nat \subseteq S
<1>1. SUFFICES ASSUME Nat \ S # {} PROVE FALSE
  BY Zenon
<1>2. PICK n \in Nat \ S : \A m \in Nat \ S : ~(m < n)
  <2>1. Nat \ S \subseteq Nat
    OBVIOUS
  <2> QED BY <1>1, <2>1, Least, Zenon
<1>3. n # 0 /\ n \in Nat
  BY <1>2, Zenon
<1>4. n - 1 \in Nat /\ n - 1 < n /\ (n - 1) + 1 = n
  BY <1>3
<1>5. n - 1 \in S
  BY <1>2, <1>4, Zenon
<1> QED BY <1>2, <1>4, <1>5, Zenon

\* f follows step from start up to m.
Follows(f, D, start, step) ==
  \A n \in D : f[n] = IF n = 0 THEN start ELSE step[f[n - 1], n]

\* Recursion: a step from every value to the next gives a function, on all numbers or on those up to a bound.
LEMMA Recursion ==
  ASSUME NEW S, NEW D, D \subseteq Nat, 0 \in D, \A n \in Nat : n + 1 \in D => n \in D,
         NEW start \in S, NEW step \in [S \X D -> S]
  PROVE  \E f \in [D -> S] : Follows(f, D, start, step)
<1> DEFINE Upto(m) == 0 .. m
           Good(h, m) == h \in [Upto(m) -> S] /\ Follows(h, Upto(m), start, step)
           Reached == {m \in Nat : m \in D => \E h : Good(h, m)}
<1>1. 0 \in Reached
  <2> DEFINE h == [n \in Upto(0) |-> start]
  <2>1. Upto(0) = {0}
    OBVIOUS
  <2>2. h \in [Upto(0) -> S] /\ h[0] = start
    BY <2>1
  <2> HIDE DEF h, Upto
  <2>3. Follows(h, Upto(0), start, step)
    BY <2>1, <2>2, Zenon DEF Follows
  <2> QED BY <2>2, <2>3, Zenon
<1>2. ASSUME NEW m \in Nat, m \in Reached, m + 1 \in D
      PROVE  \E h : Good(h, m + 1)
  <2>1. m \in D
    BY <1>2, Zenon
  <2>2. PICK h : Good(h, m)
    BY <1>2, <2>1, Zenon
  <2>2a. h \in [Upto(m) -> S] /\ Follows(h, Upto(m), start, step)
    BY <2>2, Zenon
  <2> DEFINE next == step[h[m], m + 1]
             k == [n \in Upto(m + 1) |-> IF n = m + 1 THEN next ELSE h[n]]
  <2>3. m \in Upto(m) /\ \A n \in Upto(m + 1) : n \in Nat /\ (n = m + 1 \/ n \in Upto(m)) /\ (n # 0 => n - 1 \in Upto(m) /\ n - 1 # m + 1 /\ n - 1 \in Upto(m + 1))
    BY SMT
  <2>4. h[m] \in S /\ next \in S
    <3>1. h[m] \in S
      BY <2>2a, <2>3, Zenon
    <3>2. <<h[m], m + 1>> \in S \X D
      BY <1>2, <3>1, Zenon
    <3> QED BY <3>1, <3>2, Zenon
  <2>5. \A n \in Upto(m) : h[n] \in S /\ n # m + 1
    BY <2>2a, SMT
  <2> HIDE DEF next, Upto
  <2>6. k \in [Upto(m + 1) -> S]
    BY <2>3, <2>4, <2>5, Zenon
  <2>7. \A n \in Upto(m + 1) : k[n] = IF n = m + 1 THEN next ELSE h[n]
    BY Zenon
  <2> HIDE DEF k
  <2>8. ASSUME NEW n \in Upto(m + 1)
        PROVE  k[n] = IF n = 0 THEN start ELSE step[k[n - 1], n]
    <3>1. CASE n = m + 1
      <4>1. n # 0 /\ n - 1 = m
        BY <3>1, SMT
      <4>2. k[n - 1] = h[m] /\ k[n] = next
        BY <2>3, <2>7, <3>1, <4>1, Zenon
      <4> QED BY <3>1, <4>1, <4>2, Zenon DEF next
    <3>2. CASE n # m + 1
      <4>1. n \in Upto(m) /\ k[n] = h[n]
        BY <2>3, <2>7, <3>2, Zenon
      <4>2. n # 0 => k[n - 1] = h[n - 1]
        BY <2>3, <2>7, Zenon
      <4>3. h[n] = IF n = 0 THEN start ELSE step[h[n - 1], n]
        BY <2>2a, <4>1, Zenon DEF Follows
      <4> QED BY <4>1, <4>2, <4>3, Zenon
    <3> QED BY <3>1, <3>2, Zenon
  <2> QED BY <2>6, <2>8, Zenon DEF Follows
<1>3. Nat \subseteq Reached
  <2>1. \A n \in Nat : n \in Reached => n + 1 \in Reached
    <3>1. \A n \in Nat : n + 1 \in Nat
      OBVIOUS
    <3> HIDE DEF Good
    <3> QED BY <1>2, <3>1, Zenon
  <2> HIDE DEF Reached
  <2> QED BY <1>1, <2>1, Induction, Zenon
<1>4. \A m \in D : \E h : Good(h, m)
  <2> HIDE DEF Good
  <2> QED BY <1>3, Zenon
<1> DEFINE Agree == {n \in Nat : \A m1, m2 \in D : \A h1, h2 :
                       n <= m1 /\ n <= m2 /\ Good(h1, m1) /\ Good(h2, m2) => h1[n] = h2[n]}
<1>5. Nat \subseteq Agree
  <2>1. \A m \in D : \A h : Good(h, m) => h[0] = start
    <3>1. \A m \in D : 0 \in Upto(m)
      OBVIOUS
    <3> HIDE DEF Upto
    <3> QED BY <3>1, Zenon DEF Follows
  <2>2. 0 \in Agree
    <3> HIDE DEF Good
    <3>1. \A m1, m2 \in D : \A h1, h2 : Good(h1, m1) /\ Good(h2, m2) => h1[0] = h2[0]
      BY <2>1, Zenon
    <3>2. 0 \in Nat
      OBVIOUS
    <3> QED BY <3>1, <3>2, Zenon
  <2>3. ASSUME NEW n \in Nat, n \in Agree PROVE n + 1 \in Agree
    <3> SUFFICES ASSUME NEW m1 \in D, NEW m2 \in D, NEW h1, NEW h2, n + 1 <= m1, n + 1 <= m2, Good(h1, m1), Good(h2, m2)
                 PROVE  h1[n + 1] = h2[n + 1]
      <4>1. n + 1 \in Nat
        OBVIOUS
      <4> HIDE DEF Good
      <4> QED BY <4>1, Zenon
    <3>1. n <= m1 /\ n <= m2 /\ n + 1 \in Upto(m1) /\ n + 1 \in Upto(m2) /\ n + 1 # 0 /\ (n + 1) - 1 = n
      OBVIOUS
    <3>2. h1[n] = h2[n]
      <4> HIDE DEF Good
      <4> QED BY <2>3, <3>1, Zenon
    <3>3. h1[n + 1] = step[h1[n], n + 1] /\ h2[n + 1] = step[h2[n], n + 1]
      <4> HIDE DEF Upto
      <4> QED BY <3>1, Zenon DEF Follows
    <3> QED BY <3>2, <3>3, Zenon
  <2> HIDE DEF Agree
  <2> QED BY <2>2, <2>3, Induction, Zenon
<1> DEFINE of(n) == CHOOSE h : Good(h, n)
           f == [n \in D |-> of(n)[n]]
<1>6. \A n \in D : Good(of(n), n)
  <2> HIDE DEF Good
  <2> QED BY <1>4, Zenon
<1>7. f \in [D -> S]
  <2>1. \A n \in D : n \in Upto(n)
    OBVIOUS
  <2>2. \A n \in D : of(n) \in [Upto(n) -> S]
    BY <1>6, Zenon
  <2> HIDE DEF of, Upto
  <2> QED BY <2>1, <2>2, Zenon
<1>8. \A n \in D : f[n] = of(n)[n]
  BY Zenon
<1> HIDE DEF of, f
<1>9. ASSUME NEW m \in D, NEW n \in D, m <= n
      PROVE  of(n)[m] = f[m]
  <2>1. m \in Nat /\ m <= m
    OBVIOUS
  <2> HIDE DEF Good
  <2>2. of(m)[m] = of(n)[m]
    BY <1>5, <1>6, <1>9, <2>1, Zenon
  <2> QED BY <1>8, <2>2, Zenon
<1>10. ASSUME NEW n \in D PROVE f[n] = IF n = 0 THEN start ELSE step[f[n - 1], n]
  <2>1. n \in Nat /\ n \in Upto(n)
    OBVIOUS
  <2>2. of(n)[n] = IF n = 0 THEN start ELSE step[of(n)[n - 1], n]
    <3> HIDE DEF Upto
    <3> QED BY <1>6, <2>1, Zenon DEF Follows
  <2>3. ASSUME n # 0 PROVE f[n - 1] = of(n)[n - 1]
    <3>1. n - 1 \in Nat /\ (n - 1) + 1 = n /\ n - 1 <= n
      BY <2>1, <2>3
    <3>2. n - 1 \in D
      BY <3>1, Zenon
    <3> QED BY <1>9, <3>1, <3>2, Zenon
  <2> QED BY <1>8, <2>2, <2>3, Zenon
<1> QED BY <1>7, <1>10, Zenon DEF Follows

\* 2 ^ n is the number of subsets of n elements.
LEMMA Subsets ==
  ASSUME NEW n \in Nat
  PROVE  IsFiniteSet(SUBSET (1 .. n)) /\ Cardinality(SUBSET (1 .. n)) = 2 ^ n
<1>1. IsFiniteSet(1 .. n) /\ Cardinality(1 .. n) = n
  BY FS_Interval
<1> QED BY <1>1, FS_SUBSET, Zenon

LEMMA PowerOfTwo ==
  ASSUME NEW n \in Nat
  PROVE  2 ^ n \in Nat \ {0}
<1>1. Cardinality(SUBSET (1 .. n)) \in Nat /\ Cardinality(SUBSET (1 .. n)) # 0
  <2>1. {} \in SUBSET (1 .. n)
    OBVIOUS
  <2> QED BY <2>1, Subsets, FS_CardinalityType, FS_EmptySet
<1> QED BY <1>1, Subsets

\* The subsets of 1 .. n + 1 that have n + 1 are as many as those that do not.
LEMMA PowerNext ==
  ASSUME NEW n \in Nat
  PROVE  2 ^ (n + 1) = 2 * 2 ^ n
<1> DEFINE A == 1 .. n
           B == 1 .. n + 1
           T == {Z \in SUBSET B : n + 1 \in Z}
           f == [X \in SUBSET A |-> X \cup {n + 1}]
<1>1. n + 1 \notin A /\ B = A \cup {n + 1}
  OBVIOUS
<1>2. /\ IsFiniteSet(SUBSET A) /\ Cardinality(SUBSET A) = 2 ^ n
      /\ IsFiniteSet(SUBSET B) /\ Cardinality(SUBSET B) = 2 ^ (n + 1)
  BY Subsets
<1> HIDE DEF A, B
<1>3. f \in Bijection(SUBSET A, T)
  <2>1. \A X \in SUBSET A : X \cup {n + 1} \in T
    BY <1>1, Zenon
  <2>2. \A X, Y \in SUBSET A : X \cup {n + 1} = Y \cup {n + 1} => X = Y
    BY <1>1
  <2>3. \A Z \in T : Z = (Z \ {n + 1}) \cup {n + 1} /\ Z \ {n + 1} \in SUBSET A
    BY <1>1
  <2> HIDE DEF T
  <2>4. f \in [SUBSET A -> T]
    BY <2>1, Zenon
  <2>5. \A X \in SUBSET A : f[X] = X \cup {n + 1}
    BY Zenon
  <2> HIDE DEF f
  <2>6. f \in Injection(SUBSET A, T)
    <3>1. \A X, Y \in SUBSET A : f[X] = f[Y] => X = Y
      BY <2>2, <2>5, Zenon
    <3>2. DOMAIN f = SUBSET A
      BY <2>4, Zenon
    <3> QED BY <2>4, <3>1, <3>2, Zenon DEF Injection, IsInjective
  <2>7. f \in Surjection(SUBSET A, T)
    <3>1. \A Z \in T : f[Z \ {n + 1}] = Z /\ Z \ {n + 1} \in SUBSET A
      BY <2>3, <2>5, Zenon
    <3> QED BY <2>4, <3>1, Zenon DEF Surjection
  <2> QED BY <2>6, <2>7, Zenon DEF Bijection
<1>4. IsFiniteSet(T) /\ Cardinality(T) = 2 ^ n
  BY <1>2, <1>3, FS_Bijection DEF ExistsBijection
<1>5. SUBSET B = (SUBSET A) \cup T /\ (SUBSET A) \cap T = {}
  BY <1>1
<1> HIDE DEF T
<1>6. Cardinality((SUBSET A) \cup T) = Cardinality(SUBSET A) + Cardinality(T) - Cardinality({})
  BY <1>2, <1>4, <1>5, FS_Union
<1>7. 2 ^ (n + 1) = 2 ^ n + 2 ^ n - 0
  BY <1>2, <1>4, <1>5, <1>6, FS_EmptySet, Zenon
<1> QED BY <1>7, PowerOfTwo

\* By induction on b.
LEMMA PowerSum ==
  ASSUME NEW k \in Nat, NEW l \in Nat
  PROVE  2 ^ (k + l) = 2 ^ k * 2 ^ l
<1> DEFINE T == {n \in Nat : 2 ^ (k + n) # 2 ^ k * 2 ^ n}
<1>1. SUFFICES ASSUME T # {} PROVE FALSE
  BY Zenon
<1>2. PICK n \in T : \A m \in T : ~(m < n)
  <2>1. T \subseteq Nat
    OBVIOUS
  <2> HIDE DEF T
  <2> QED BY <1>1, <2>1, Least, Zenon
<1>3. n # 0
  <2>1. 2 ^ 0 = 1
    OBVIOUS
  <2>2. 2 ^ (k + 0) = 2 ^ k * 2 ^ 0
    <3>1. k + 0 = k /\ 2 ^ k * 1 = 2 ^ k
      BY PowerOfTwo
    <3> QED BY <2>1, <3>1, Zenon
  <2> QED BY <1>2, <2>2, Zenon
<1>4. n - 1 \in Nat /\ 2 ^ (k + (n - 1)) = 2 ^ k * 2 ^ (n - 1)
  BY <1>2, <1>3
<1> DEFINE m == n - 1
<1>5. 2 ^ (m + 1) = 2 * 2 ^ m /\ 2 ^ ((k + m) + 1) = 2 * 2 ^ (k + m) /\ 2 ^ k \in Nat /\ 2 ^ m \in Nat
  BY <1>4, PowerNext, PowerOfTwo
<1>6. m + 1 = n /\ (k + m) + 1 = k + n
  BY <1>2
<1>7. 2 ^ n = 2 * 2 ^ m /\ 2 ^ (k + n) = 2 * (2 ^ k * 2 ^ m)
  BY <1>4, <1>5, <1>6
<1>8. \A i, j \in Nat : 2 * (i * j) = i * (2 * j)
  BY SMT
<1> QED BY <1>2, <1>5, <1>7, <1>8

-----------------------------------------------------------------------------
(* LittleEndian adds up digits: the function it is defined by exists, and  *)
(* what it says of more, equal, small, split and zero digits.              *)

\* LittleEndian as any function that adds up the digits.
AddsUp(f, bits, digits, from, n) ==
  /\ f \in [0 .. n -> Nat]
  /\ \A m \in 0 .. n : f[m] = IF m = 0 THEN 0 ELSE f[m - 1] + digits[from + m - 1] * 2^(bits * (m - 1))

DigitsFrom(digits, from, n) == \A m \in 0 .. n - 1 : digits[from + m] \in Nat

\* The powers of two.
LEMMA PowerType == \A n \in Nat : 2^n \in Nat \ {0}
  BY PowerOfTwo, Zenon

\* The function LittleEndian takes its value from.
LEMMA LittleExists ==
  ASSUME NEW bits \in Nat, NEW digits, NEW from \in Nat, NEW n \in Nat, DigitsFrom(digits, from, n)
  PROVE  \E f : AddsUp(f, bits, digits, from, n) /\ LittleEndian(bits, digits, from, n) = f[n]
<1> DEFINE D == 0 .. n
           Term(m) == digits[from + m - 1] * 2^(bits * (m - 1))
           step == [p \in Nat \X D |-> IF p[2] = 0 THEN 0 ELSE p[1] + Term(p[2])]
           Sums(f) == f = [m \in 0 .. n |-> IF m = 0 THEN 0 ELSE f[m - 1] + digits[from + m - 1] * 2^(bits * (m - 1))]
<1>1. ASSUME NEW m \in D, m # 0 PROVE Term(m) \in Nat
  <2>1. m - 1 \in 0 .. n - 1 /\ m - 1 \in Nat /\ from + m - 1 = from + (m - 1)
    BY <1>1
  <2>2. digits[from + m - 1] \in Nat
    BY <2>1, Zenon DEF DigitsFrom
  <2>3. bits * (m - 1) \in Nat
    BY <2>1, SMT
  <2>4. 2^(bits * (m - 1)) \in Nat
    BY <2>3, PowerType, Zenon
  <2> DEFINE p == 2^(bits * (m - 1))
             d == digits[from + m - 1]
  <2>5. p \in Nat /\ d \in Nat
    BY <2>2, <2>4, Zenon
  <2> HIDE DEF p, d
  <2>6. d * p \in Nat
    BY <2>5, SMT
  <2> QED BY <2>6, Zenon DEF p, d
<1>2. step \in [Nat \X D -> Nat]
  <2>1. \A v \in Nat : \A m \in D : m # 0 => v + Term(m) \in Nat
    <3> SUFFICES ASSUME NEW v \in Nat, NEW m \in D, m # 0 PROVE v + Term(m) \in Nat
      BY Zenon
    <3> DEFINE t == Term(m)
    <3>1. t \in Nat
      BY <1>1, Zenon
    <3> HIDE DEF t
    <3>2. v + t \in Nat
      BY <3>1
    <3> QED BY <3>2, Zenon DEF t
  <2>2. \A p \in Nat \X D : p[1] \in Nat /\ p[2] \in D
    <3> HIDE DEF D
    <3> QED OBVIOUS
  <2>3. 0 \in Nat
    OBVIOUS
  <2> HIDE DEF D, Term
  <2> QED BY <2>1, <2>2, <2>3, Zenon
<1>3. \A v \in Nat : \A m \in D : step[<<v, m>>] = IF m = 0 THEN 0 ELSE v + Term(m)
  <2>1. \A v \in Nat : \A m \in D : <<v, m>> \in Nat \X D /\ <<v, m>>[1] = v /\ <<v, m>>[2] = m
    <3> HIDE DEF D
    <3> QED OBVIOUS
  <2> HIDE DEF D, Term
  <2> QED BY <2>1, Zenon
<1> HIDE DEF step
<1>4. PICK f \in [D -> Nat] : Follows(f, D, 0, step)
  <2>1. D \subseteq Nat /\ 0 \in D /\ (\A m \in Nat : m + 1 \in D => m \in D) /\ 0 \in Nat
    OBVIOUS
  <2> HIDE DEF D
  <2> QED BY <1>2, <2>1, Recursion, Zenon
<1>5. \A m \in D : f[m] = IF m = 0 THEN 0 ELSE f[m - 1] + Term(m)
  <2> SUFFICES ASSUME NEW m \in D PROVE f[m] = IF m = 0 THEN 0 ELSE f[m - 1] + Term(m)
    BY Zenon
  <2>1. m # 0 => m - 1 \in D
    OBVIOUS
  <2> HIDE DEF D, Term
  <2>2. f[m] = IF m = 0 THEN 0 ELSE step[f[m - 1], m]
    BY <1>4, Zenon DEF Follows
  <2>3. m # 0 => f[m - 1] \in Nat
    BY <1>4, <2>1, Zenon
  <2> QED BY <1>3, <2>2, <2>3, Zenon
<1>6. Sums(f)
  <2>1. DOMAIN f = 0 .. n /\ f \in [0 .. n -> Nat]
    BY <1>4, Zenon
  <2> QED BY <1>5, <2>1, Zenon
<1>7. LittleEndian(bits, digits, from, n) = (CHOOSE g : Sums(g))[n]
  BY Zenon DEF LittleEndian
<1> DEFINE h == CHOOSE g : Sums(g)
<1>8. Sums(h)
  <2> HIDE DEF Sums
  <2> QED BY <1>6, Zenon
<1> HIDE DEF h
<1>9. h = f
  <2> DEFINE Same == {m \in Nat : m <= n => h[m] = f[m]}
  <2>1. \A m \in 0 .. n : h[m] = IF m = 0 THEN 0 ELSE h[m - 1] + Term(m)
    <3> DEFINE value(m) == IF m = 0 THEN 0 ELSE h[m - 1] + digits[from + m - 1] * 2^(bits * (m - 1))
    <3>1. h = [m \in 0 .. n |-> value(m)]
      BY <1>8, Zenon
    <3>2. \A m \in 0 .. n : h[m] = value(m)
      <4> HIDE DEF value
      <4> QED BY <3>1, Zenon
    <3> QED BY <3>2, Zenon
  <2>2. 0 \in Same
    <3>1. 0 \in 0 .. n /\ 0 \in Nat
      OBVIOUS
    <3> QED BY <1>5, <2>1, <3>1, Zenon
  <2>3. ASSUME NEW m \in Nat, m \in Same PROVE m + 1 \in Same
    <3> SUFFICES ASSUME m + 1 <= n PROVE h[m + 1] = f[m + 1]
      <4>1. m + 1 \in Nat
        OBVIOUS
      <4> QED BY <4>1, Zenon
    <3> DEFINE e == m + 1
    <3>1. e \in 0 .. n /\ e # 0 /\ e - 1 = m /\ m <= n
      OBVIOUS
    <3> HIDE DEF e, Term
    <3>2. h[e] = h[e - 1] + Term(e) /\ f[e] = f[e - 1] + Term(e)
      BY <1>5, <2>1, <3>1, Zenon
    <3>3. h[m] = f[m]
      BY <2>3, <3>1, Zenon
    <3> QED BY <3>1, <3>2, <3>3, Zenon DEF e
  <2>4. Nat \subseteq Same
    <3> HIDE DEF Same
    <3> QED BY <2>2, <2>3, Induction, Zenon
  <2>5. \A m \in 0 .. n : h[m] = f[m]
    <3>1. \A m \in 0 .. n : m \in Nat /\ m <= n
      OBVIOUS
    <3> QED BY <2>4, <3>1, Zenon
  <2>6. h = [m \in 0 .. n |-> h[m]]
    BY <1>8, Zenon
  <2> QED BY <1>4, <2>5, <2>6, Zenon
<1>10. AddsUp(f, bits, digits, from, n)
  BY <1>4, <1>5, Zenon DEF AddsUp
<1>11. LittleEndian(bits, digits, from, n) = f[n]
  BY <1>7, <1>9, Zenon DEF h
<1> QED BY <1>10, <1>11, Zenon

\* One more digit.
LEMMA LittleNext ==
  ASSUME NEW bits \in Nat, NEW digits, NEW from \in Nat, NEW n \in Nat, DigitsFrom(digits, from, n + 1)
  PROVE  /\ LittleEndian(bits, digits, from, 0) = 0
         /\ LittleEndian(bits, digits, from, n) \in Nat
         /\ LittleEndian(bits, digits, from, n + 1) = LittleEndian(bits, digits, from, n) + digits[from + n] * 2^(bits * n)
<1> DEFINE L(m) == LittleEndian(bits, digits, from, m)
           Term(m) == digits[from + m - 1] * 2^(bits * (m - 1))
           Fits(f, m) == f \in [0 .. m -> Nat] /\ L(m) = f[m]
                         /\ \A i \in 0 .. m : f[i] = IF i = 0 THEN 0 ELSE f[i - 1] + Term(i)
<1>1. ASSUME NEW m \in Nat, m <= n + 1 PROVE \E f : Fits(f, m)
  <2>1. DigitsFrom(digits, from, m)
    <3>1. \A i \in 0 .. m - 1 : i \in 0 .. (n + 1) - 1
      BY <1>1
    <3> QED BY <3>1, Zenon DEF DigitsFrom
  <2>2. PICK f : AddsUp(f, bits, digits, from, m) /\ LittleEndian(bits, digits, from, m) = f[m]
    BY <2>1, LittleExists, Zenon
  <2>3. Fits(f, m)
    BY <2>2, Zenon DEF AddsUp
  <2> HIDE DEF Fits
  <2> QED BY <2>3, Zenon
<1>2. PICK f : Fits(f, n + 1)
  <2>1. n + 1 \in Nat /\ n + 1 <= n + 1
    OBVIOUS
  <2> HIDE DEF Fits
  <2> QED BY <1>1, <2>1, Zenon
<1>3. PICK g : Fits(g, n)
  <2>1. n <= n + 1
    OBVIOUS
  <2> HIDE DEF Fits
  <2> QED BY <1>1, <2>1, Zenon
<1>4. PICK z : Fits(z, 0)
  <2>1. 0 \in Nat /\ 0 <= n + 1
    OBVIOUS
  <2> HIDE DEF Fits
  <2> QED BY <1>1, <2>1, Zenon
<1>5. L(0) = 0
  <2>1. 0 \in 0 .. 0
    OBVIOUS
  <2> HIDE DEF L, Term
  <2> QED BY <1>4, <2>1, Zenon
<1>6. L(n) \in Nat
  <2>1. n \in 0 .. n
    OBVIOUS
  <2> HIDE DEF L, Term
  <2> QED BY <1>3, <2>1, Zenon
<1>7. f[n] = g[n]
  <2> DEFINE Same == {m \in Nat : m <= n => f[m] = g[m]}
  <2>1. 0 \in Same
    <3>1. 0 \in 0 .. n /\ 0 \in 0 .. n + 1 /\ 0 \in Nat
      OBVIOUS
    <3> HIDE DEF L, Term
    <3> QED BY <1>2, <1>3, <3>1, Zenon
  <2>2. ASSUME NEW m \in Nat, m \in Same PROVE m + 1 \in Same
    <3> SUFFICES ASSUME m + 1 <= n PROVE f[m + 1] = g[m + 1]
      <4>1. m + 1 \in Nat
        OBVIOUS
      <4> QED BY <4>1, Zenon
    <3> DEFINE e == m + 1
    <3>1. e \in 0 .. n /\ e \in 0 .. n + 1 /\ e # 0 /\ e - 1 = m /\ m <= n
      OBVIOUS
    <3> HIDE DEF e, Term, L
    <3>2. f[e] = f[e - 1] + Term(e) /\ g[e] = g[e - 1] + Term(e)
      BY <1>2, <1>3, <3>1, Zenon
    <3>3. f[m] = g[m]
      BY <2>2, <3>1, Zenon
    <3> QED BY <3>1, <3>2, <3>3, Zenon DEF e
  <2>3. Nat \subseteq Same
    <3> HIDE DEF Same
    <3> QED BY <2>1, <2>2, Induction, Zenon
  <2>4. n <= n
    OBVIOUS
  <2> QED BY <2>3, <2>4, Zenon
<1>8. L(n + 1) = L(n) + digits[from + n] * 2^(bits * n)
  <2> DEFINE e == n + 1
  <2>1. e \in 0 .. n + 1 /\ e # 0 /\ e - 1 = n /\ from + e - 1 = from + n
    OBVIOUS
  <2> HIDE DEF e
  <2>2. Term(e) = digits[from + n] * 2^(bits * n)
    BY <2>1, Zenon
  <2> HIDE DEF Term, L
  <2>3. f[e] = f[e - 1] + Term(e)
    BY <1>2, <2>1, Zenon
  <2>4. L(n + 1) = f[e] /\ L(n) = g[n]
    BY <1>2, <1>3, Zenon DEF e
  <2>5. L(n + 1) = g[n] + Term(e)
    BY <1>7, <2>1, <2>3, <2>4, Zenon
  <2> QED BY <2>2, <2>4, <2>5, Zenon
<1> QED BY <1>5, <1>6, <1>8, Zenon

\* As named relations, to be instantiated where the digits stand at a sum.
NextDigit(bits, digits, from, n) ==
  LittleEndian(bits, digits, from, n + 1) = LittleEndian(bits, digits, from, n) + digits[from + n] * 2^(bits * n)

SplitsAt(bits, digits, from, n, l) ==
  LittleEndian(bits, digits, from, n + l)
    = LittleEndian(bits, digits, from, n) + 2^(bits * n) * LittleEndian(bits, digits, from + n, l)

\* LittleNext, at a digit.
LEMMA LittleMore ==
  ASSUME NEW bits \in Nat, NEW digits, NEW from \in Nat, NEW n \in Nat, DigitsFrom(digits, from, n + 1)
  PROVE  NextDigit(bits, digits, from, n)
  BY LittleNext, Zenon DEF NextDigit

LEMMA LittleType ==
  ASSUME NEW bits \in Nat, NEW digits, NEW from \in Nat, NEW n \in Nat, DigitsFrom(digits, from, n)
  PROVE  LittleEndian(bits, digits, from, n) \in Nat
<1>1. PICK f : AddsUp(f, bits, digits, from, n) /\ LittleEndian(bits, digits, from, n) = f[n]
  BY LittleExists, Zenon
<1>2. n \in 0 .. n
  OBVIOUS
<1> QED BY <1>1, <1>2, Zenon DEF AddsUp

LEMMA LittleZero ==
  ASSUME NEW bits \in Nat, NEW digits, NEW from \in Nat
  PROVE  LittleEndian(bits, digits, from, 0) = 0
<1>1. DigitsFrom(digits, from, 0)
  BY DEF DigitsFrom
<1>2. PICK f : AddsUp(f, bits, digits, from, 0) /\ LittleEndian(bits, digits, from, 0) = f[0]
  <2>1. 0 \in Nat
    OBVIOUS
  <2> QED BY <1>1, <2>1, LittleExists, Zenon
<1>3. 0 \in 0 .. 0
  OBVIOUS
<1> QED BY <1>2, <1>3, Zenon DEF AddsUp

\* A part of the digits.
LEMMA FewerDigits ==
  ASSUME NEW digits, NEW from \in Nat, NEW n \in Nat, DigitsFrom(digits, from, n + 1)
  PROVE  DigitsFrom(digits, from, n) /\ digits[from + n] \in Nat
<1>1. n \in 0 .. (n + 1) - 1 /\ \A m \in 0 .. n - 1 : m \in 0 .. (n + 1) - 1
  OBVIOUS
<1> QED BY <1>1, Zenon DEF DigitsFrom

LEMMA SomeDigits ==
  ASSUME NEW digits, NEW from \in Nat, NEW n \in Nat, NEW lower \in Nat, NEW l \in Nat,
         lower + l <= n, DigitsFrom(digits, from, n)
  PROVE  DigitsFrom(digits, from + lower, l)
<1> SUFFICES ASSUME NEW i \in 0 .. l - 1 PROVE digits[(from + lower) + i] \in Nat
  BY DEF DigitsFrom
<1> DEFINE at == (from + lower) + i
           j == lower + i
<1>1. j \in 0 .. n - 1 /\ at = from + j
  OBVIOUS
<1> HIDE DEF at, j
<1>2. digits[from + j] \in Nat
  BY <1>1, Zenon DEF DigitsFrom
<1>3. digits[at] \in Nat
  BY <1>1, <1>2, Zenon
<1> QED BY <1>3 DEF at

\* Equal digits, wherever they stand, are equal numbers.
SameDigits(digits, from, others, at, n) == \A m \in 0 .. n - 1 : digits[from + m] = others[at + m]
SameNumber(bits, digits, from, others, at, n) ==
  LittleEndian(bits, digits, from, n) = LittleEndian(bits, others, at, n)

LEMMA LittleSame ==
  ASSUME NEW bits \in Nat, NEW digits, NEW from \in Nat, NEW others, NEW at \in Nat, NEW n \in Nat,
         DigitsFrom(digits, from, n), SameDigits(digits, from, others, at, n)
  PROVE  SameNumber(bits, digits, from, others, at, n)
<1> DEFINE Same == {m \in Nat : m <= n => LittleEndian(bits, digits, from, m) = LittleEndian(bits, others, at, m)}
<1>1. 0 \in Same
  <2>1. 0 \in Nat
    OBVIOUS
  <2> QED BY <2>1, LittleZero, Zenon
<1>2. ASSUME NEW m \in Nat, m \in Same PROVE m + 1 \in Same
  <2> SUFFICES ASSUME m + 1 <= n
               PROVE  LittleEndian(bits, digits, from, m + 1) = LittleEndian(bits, others, at, m + 1)
    <3>1. m + 1 \in Nat
      OBVIOUS
    <3> QED BY <3>1, Zenon
  <2>1. m <= n /\ m \in 0 .. n - 1 /\ \A i \in 0 .. (m + 1) - 1 : i \in 0 .. n - 1
    OBVIOUS
  <2>2. DigitsFrom(digits, from, m + 1) /\ DigitsFrom(others, at, m + 1)
    BY <2>1, Zenon DEF DigitsFrom, SameDigits
  <2>3. digits[from + m] = others[at + m]
    BY <2>1, Zenon DEF SameDigits
  <2>4. LittleEndian(bits, digits, from, m) = LittleEndian(bits, others, at, m)
    BY <1>2, <2>1, Zenon
  <2>5. NextDigit(bits, digits, from, m) /\ NextDigit(bits, others, at, m)
    BY <2>2, LittleMore, Zenon
  <2> QED BY <2>3, <2>4, <2>5, Zenon DEF NextDigit
<1>3. Nat \subseteq Same
  <2> HIDE DEF Same
  <2> QED BY <1>1, <1>2, Induction, Zenon
<1>4. n <= n
  OBVIOUS
<1> QED BY <1>3, <1>4, Zenon DEF SameNumber

\* A number is its lower digits and its upper ones.
LEMMA LittleSplit ==
  ASSUME NEW bits \in Nat, NEW digits, NEW from \in Nat, NEW n \in Nat, NEW l \in Nat, DigitsFrom(digits, from, n + l)
  PROVE  SplitsAt(bits, digits, from, n, l)
<1> DEFINE L(m) == LittleEndian(bits, digits, from, m)
           U(m) == LittleEndian(bits, digits, from + n, m)
           Splits == {m \in Nat : m <= l => L(n + m) = L(n) + 2^(bits * n) * U(m)}
<1>0. from + n \in Nat /\ bits * n \in Nat
  BY SMT
<1>1. \A m \in 0 .. l : DigitsFrom(digits, from, n + m) /\ DigitsFrom(digits, from + n, m)
  <2> SUFFICES ASSUME NEW m \in 0 .. l PROVE DigitsFrom(digits, from, n + m) /\ DigitsFrom(digits, from + n, m)
    BY Zenon
  <2>1. n + m \in Nat /\ 0 + (n + m) <= n + l /\ n + m <= n + l /\ from + 0 = from /\ 0 \in Nat /\ n + l \in Nat /\ m \in Nat
    OBVIOUS
  <2>2. DigitsFrom(digits, from + 0, n + m) /\ DigitsFrom(digits, from + n, m)
    BY <2>1, SomeDigits, Zenon
  <2> QED BY <2>1, <2>2, Zenon
<1>2. L(n) \in Nat /\ 2^(bits * n) \in Nat /\ U(0) = 0
  <2>1. n + 0 = n /\ 0 \in 0 .. l
    OBVIOUS
  <2>2. DigitsFrom(digits, from, n)
    BY <1>1, <2>1, Zenon
  <2> QED BY <1>0, <2>2, LittleType, LittleZero, PowerType, Zenon
<1>3. 0 \in Splits
  <2> DEFINE w == L(n)
             v == 2^(bits * n)
  <2>1. w \in Nat /\ v \in Nat
    BY <1>2, Zenon
  <2> HIDE DEF w, v
  <2>2. w = w + v * 0 /\ n + 0 = n /\ 0 \in Nat
    BY <2>1
  <2> QED BY <1>2, <2>2, Zenon DEF w, v
<1>4. ASSUME NEW m \in Nat, m \in Splits PROVE m + 1 \in Splits
  <2> SUFFICES ASSUME m + 1 <= l PROVE L(n + (m + 1)) = L(n) + 2^(bits * n) * U(m + 1)
    <3>1. m + 1 \in Nat
      OBVIOUS
    <3> QED BY <3>1, Zenon
  <2>1. m <= l /\ m \in 0 .. l /\ m + 1 \in 0 .. l /\ n + (m + 1) = (n + m) + 1 /\ n + m \in Nat
        /\ from + (n + m) = (from + n) + m
    OBVIOUS
  <2>2. DigitsFrom(digits, from, (n + m) + 1) /\ DigitsFrom(digits, from + n, m + 1)
    <3>1. DigitsFrom(digits, from, n + (m + 1)) /\ DigitsFrom(digits, from + n, m + 1)
      BY <1>1, <2>1, Zenon
    <3> QED BY <2>1, <3>1, Zenon
  <2> DEFINE d == digits[(from + n) + m]
             q == 2^(bits * m)
             v == 2^(bits * n)
             w == L(n)
             u == U(m)
  <2>3. d \in Nat /\ u \in Nat /\ U(m + 1) = u + d * q
    <3> DEFINE f == from + n
    <3>1. f \in Nat /\ DigitsFrom(digits, f, m + 1)
      BY <1>0, <2>2, Zenon
    <3> HIDE DEF f
    <3>2. digits[f + m] \in Nat /\ DigitsFrom(digits, f, m)
      BY <3>1, FewerDigits, Zenon
    <3>3. NextDigit(bits, digits, f, m)
      BY <3>1, LittleMore, Zenon
    <3>4. LittleEndian(bits, digits, f, m) \in Nat
      BY <3>1, <3>2, LittleType, Zenon
    <3> QED BY <3>2, <3>3, <3>4, Zenon DEF f, NextDigit
  <2>4. L((n + m) + 1) = L(n + m) + d * 2^(bits * (n + m))
    <3> DEFINE e == n + m
    <3>1. e \in Nat /\ DigitsFrom(digits, from, e + 1) /\ from + e = (from + n) + m
      BY <2>1, <2>2, Zenon
    <3> HIDE DEF e
    <3>2. L(e + 1) = L(e) + digits[from + e] * 2^(bits * e)
      <4>1. NextDigit(bits, digits, from, e)
        BY <3>1, LittleMore, Zenon
      <4> QED BY <4>1, Zenon DEF NextDigit
    <3>3. L(e + 1) = L(e) + d * 2^(bits * e)
      BY <3>1, <3>2, Zenon
    <3> QED BY <3>3, Zenon DEF e
  <2>5. q \in Nat /\ v \in Nat /\ w \in Nat /\ 2^(bits * (n + m)) = v * q
    <3>1. bits * m \in Nat /\ bits * n \in Nat /\ bits * (n + m) = bits * n + bits * m
      BY SMT
    <3>2. 2^(bits * n + bits * m) = 2^(bits * n) * 2^(bits * m)
      BY <3>1, PowerSum, Zenon
    <3> QED BY <1>2, <3>1, <3>2, PowerType, Zenon
  <2>6. L(n + m) = w + v * u
    BY <1>4, <2>1, Zenon
  <2> HIDE DEF d, q, v, w, u
  <2>7. (w + v * u) + d * (v * q) = w + v * (u + d * q)
    <3>1. d * (v * q) = v * (d * q)
      BY <2>3, <2>5, SMT
    <3>2. v * u \in Nat /\ v * (d * q) \in Nat /\ d * q \in Nat
      BY <2>3, <2>5, SMT
    <3>3. v * (u + d * q) = v * u + v * (d * q)
      <4> DEFINE t == d * q
      <4>1. t \in Nat
        BY <3>2, Zenon
      <4> HIDE DEF t
      <4>2. v * (u + t) = v * u + v * t
        BY <2>3, <2>5, <4>1, SMT
      <4> QED BY <4>2, Zenon DEF t
    <3> QED BY <2>5, <3>1, <3>2, <3>3
  <2>8. L((n + m) + 1) = (w + v * u) + d * (v * q)
    BY <2>4, <2>5, <2>6, Zenon
  <2>9. L(n + (m + 1)) = L((n + m) + 1)
    BY <2>1, Zenon
  <2>10. w + v * (u + d * q) = L(n) + 2^(bits * n) * U(m + 1)
    BY <2>3, Zenon DEF v, w
  <2> HIDE DEF L, U
  <2> QED BY <2>7, <2>8, <2>9, <2>10, Zenon
<1>5. Nat \subseteq Splits
  <2> HIDE DEF Splits
  <2> QED BY <1>3, <1>4, Induction, Zenon
<1>6. l <= l
  OBVIOUS
<1> QED BY <1>5, <1>6, Zenon DEF SplitsAt

\* Digits that are less than 2 ^ bits make a number less than that power.
LEMMA LittleBound ==
  ASSUME NEW bits \in Nat, NEW digits, NEW from \in Nat, NEW n \in Nat,
         \A m \in 0 .. n - 1 : digits[from + m] \in 0 .. 2^bits - 1
  PROVE  LittleEndian(bits, digits, from, n) \in 0 .. 2^(bits * n) - 1
<1> DEFINE L(m) == LittleEndian(bits, digits, from, m)
           Below == {m \in Nat : m <= n => L(m) \in 0 .. 2^(bits * m) - 1}
           b == 2^bits
<1>0. b \in Nat \ {0}
  BY PowerType, Zenon
<1>1. \A m \in 0 .. n : DigitsFrom(digits, from, m)
  <2> SUFFICES ASSUME NEW m \in 0 .. n, NEW i \in 0 .. m - 1 PROVE digits[from + i] \in Nat
    BY Zenon DEF DigitsFrom
  <2>1. i \in 0 .. n - 1
    OBVIOUS
  <2> DEFINE d == digits[from + i]
  <2>2. d \in 0 .. b - 1
    BY <2>1, Zenon
  <2> HIDE DEF d, b
  <2>3. d \in Nat
    BY <1>0, <2>2
  <2> QED BY <2>3, Zenon DEF d
<1>2. 0 \in Below
  <2>1. bits * 0 = 0 /\ 2^0 = 1 /\ 0 \in 0 .. 1 - 1 /\ 0 \in Nat
    BY SMT
  <2>2. L(0) = 0
    BY LittleZero, Zenon
  <2>3. L(0) \in 0 .. 2^(bits * 0) - 1
    BY <2>1, <2>2, Zenon
  <2> QED BY <2>1, <2>3, Zenon
<1>3. ASSUME NEW m \in Nat, m \in Below PROVE m + 1 \in Below
  <2> SUFFICES ASSUME m + 1 <= n PROVE L(m + 1) \in 0 .. 2^(bits * (m + 1)) - 1
    <3>1. m + 1 \in Nat
      OBVIOUS
    <3> QED BY <3>1, Zenon
  <2> DEFINE d == digits[from + m]
             q == 2^(bits * m)
             u == L(m)
  <2>1. m <= n /\ m \in 0 .. n - 1 /\ m + 1 \in 0 .. n
    OBVIOUS
  <2>2. L(m + 1) = u + d * q
    BY <1>1, <2>1, LittleNext, Zenon
  <2>3. q \in Nat \ {0} /\ 2^(bits * (m + 1)) = q * b
    <3>1. bits * m \in Nat /\ bits * (m + 1) = bits * m + bits
      BY SMT
    <3> QED BY <3>1, PowerType, PowerSum, Zenon
  <2>4. d \in 0 .. b - 1 /\ u \in 0 .. q - 1
    BY <1>3, <2>1, Zenon
  <2> HIDE DEF d, q, u, b
  <2>5. u + d * q \in 0 .. q * b - 1
    <3>1. d \in Nat /\ (b - 1) - d \in Nat /\ u \in Nat /\ u <= q - 1
      BY <1>0, <2>3, <2>4
    <3>2. d * q \in Nat /\ ((b - 1) - d) * q \in Nat /\ ((b - 1) - d) * q = q * b - q - d * q
      BY <1>0, <2>3, <3>1, SMT
    <3>3. q * b \in Nat
      BY <1>0, <2>3, SMT
    <3> QED BY <2>3, <3>1, <3>2, <3>3
  <2> QED BY <2>2, <2>3, <2>5, Zenon
<1>4. Nat \subseteq Below
  <2> HIDE DEF Below
  <2> QED BY <1>2, <1>3, Induction, Zenon
<1>5. n <= n
  OBVIOUS
<1> QED BY <1>4, <1>5, Zenon

\* Zeros add nothing.
LEMMA LittleZeros ==
  ASSUME NEW bits \in Nat, NEW digits, NEW from \in Nat, NEW n \in Nat, \A m \in 0 .. n - 1 : digits[from + m] = 0
  PROVE  LittleEndian(bits, digits, from, n) = 0
<1> DEFINE L(m) == LittleEndian(bits, digits, from, m)
           Nothing == {m \in Nat : m <= n => L(m) = 0}
<1>1. 0 \in Nothing
  <2>1. 0 \in Nat
    OBVIOUS
  <2> QED BY <2>1, LittleZero, Zenon
<1>2. ASSUME NEW m \in Nat, m \in Nothing PROVE m + 1 \in Nothing
  <2> SUFFICES ASSUME m + 1 <= n PROVE L(m + 1) = 0
    <3>1. m + 1 \in Nat
      OBVIOUS
    <3> QED BY <3>1, Zenon
  <2>1. m <= n /\ m \in 0 .. n - 1 /\ 0 \in Nat /\ \A i \in 0 .. (m + 1) - 1 : i \in 0 .. n - 1
    OBVIOUS
  <2>2. DigitsFrom(digits, from, m + 1)
    BY <2>1, Zenon DEF DigitsFrom
  <2> DEFINE q == 2^(bits * m)
  <2>3. L(m + 1) = 0 + 0 * q
    <3>1. L(m + 1) = L(m) + digits[from + m] * q
      BY <2>2, LittleNext, Zenon
    <3>2. L(m) = 0 /\ digits[from + m] = 0
      BY <1>2, <2>1, Zenon
    <3> QED BY <3>1, <3>2, Zenon
  <2>4. q \in Nat
    <3>1. bits * m \in Nat
      BY SMT
    <3> QED BY <3>1, PowerType, Zenon
  <2> HIDE DEF q
  <2>5. 0 + 0 * q = 0
    BY <2>4
  <2> QED BY <2>3, <2>5, Zenon
<1>3. Nat \subseteq Nothing
  <2> HIDE DEF Nothing
  <2> QED BY <1>1, <1>2, Induction, Zenon
<1>4. n <= n
  OBVIOUS
<1> QED BY <1>3, <1>4, Zenon

\* The lowest digit.
LEMMA LittleFirst ==
  ASSUME NEW bits \in Nat, NEW digits, NEW from \in Nat, NEW n \in Nat, DigitsFrom(digits, from, n + 1)
  PROVE  LittleEndian(bits, digits, from, n + 1) = digits[from] + 2^bits * LittleEndian(bits, digits, from + 1, n)
<1>1. 1 + n = n + 1 /\ bits * 1 = bits /\ from + 0 = from /\ 0 + 1 = 1 /\ bits * 0 = 0 /\ 2^0 = 1 /\ 0 \in Nat /\ 1 \in Nat
  BY SMT
<1>2. DigitsFrom(digits, from, 1 + n) /\ DigitsFrom(digits, from, 0 + 1)
  <2>1. 0 + (0 + 1) <= n + 1 /\ 0 + 1 \in Nat /\ n + 1 \in Nat /\ 1 + n = n + 1
    OBVIOUS
  <2>2. DigitsFrom(digits, from + 0, 0 + 1)
    BY <1>1, <2>1, SomeDigits, Zenon
  <2> QED BY <1>1, <2>1, <2>2, Zenon
<1>3. LittleEndian(bits, digits, from, 1 + n) = LittleEndian(bits, digits, from, 1) + 2^(bits * 1) * LittleEndian(bits, digits, from + 1, n)
  <2> DEFINE one == 1
  <2>1. one \in Nat /\ DigitsFrom(digits, from, one + n)
    BY <1>1, <1>2, Zenon
  <2> HIDE DEF one
  <2>2. SplitsAt(bits, digits, from, one, n)
    BY <2>1, LittleSplit, Zenon
  <2> QED BY <2>2, Zenon DEF one, SplitsAt
<1>4. LittleEndian(bits, digits, from, 0 + 1) = 0 + digits[from + 0] * 2^(bits * 0) /\ digits[from + 0] \in Nat
  <2> DEFINE none == 0
  <2>1. none \in Nat /\ DigitsFrom(digits, from, none + 1) /\ LittleEndian(bits, digits, from, none) = 0
    BY <1>1, <1>2, LittleZero, Zenon
  <2> HIDE DEF none
  <2>2. LittleEndian(bits, digits, from, none + 1) = LittleEndian(bits, digits, from, none) + digits[from + none] * 2^(bits * none)
        /\ digits[from + none] \in Nat
    <3>1. NextDigit(bits, digits, from, none) /\ digits[from + none] \in Nat
      BY <2>1, LittleMore, FewerDigits, Zenon
    <3> QED BY <3>1, Zenon DEF NextDigit
  <2>3. LittleEndian(bits, digits, from, none + 1) = 0 + digits[from + none] * 2^(bits * none)
    BY <2>1, <2>2, Zenon
  <2> QED BY <2>2, <2>3, Zenon DEF none
<1> DEFINE d == digits[from]
<1>5. d \in Nat /\ LittleEndian(bits, digits, from, 1) = 0 + d * 1
  BY <1>1, <1>4, Zenon
<1> HIDE DEF d
<1>6. 0 + d * 1 = d
  BY <1>5
<1> QED BY <1>1, <1>3, <1>5, <1>6, Zenon DEF d

-----------------------------------------------------------------------------
(* Division, congruence, and the constants of the double-word arithmetic.  *)

\* Division with remainder is unique.
LEMMA Division ==
  ASSUME NEW n \in Nat \ {0}, NEW q \in Nat, NEW rest \in 0 .. n - 1
  PROVE  (q * n + rest) \div n = q /\ (q * n + rest) % n = rest
BY Z3

\* A number is its quotient and its remainder.
LEMMA Divided ==
  ASSUME NEW n \in Nat \ {0}, NEW x \in Nat
  PROVE  x \div n \in Nat /\ x % n \in 0 .. n - 1 /\ x = (x \div n) * n + (x % n)
BY Z3

LEMMA Times ==
  ASSUME NEW x \in Nat, NEW y \in Nat
  PROVE  x * y \in Nat
BY Z3

LEMMA TimesSmall ==
  ASSUME NEW x \in Nat, NEW y \in Nat, NEW b \in Nat, NEW d \in Nat, x <= b, y <= d
  PROVE  x * y <= b * d
<1>1. x * y <= b * y /\ b * y <= b * d
  BY Z3
<1> QED BY <1>1, Z3

\* Equal modulo n.
Congruent(x, y, n) == x % n = y % n

\* A multiple of n more.
LEMMA CongruentMore ==
  ASSUME NEW n \in Nat \ {0}, NEW x \in Nat, NEW k \in Nat
  PROVE  Congruent(x + k * n, x, n)
<1> DEFINE q == x \div n
           rest == x % n
<1>1. q \in Nat /\ rest \in 0 .. n - 1 /\ x = q * n + rest
  BY Divided
<1> HIDE DEF q
<1>2. x + k * n = (q + k) * n + rest /\ q + k \in Nat
  <2>1. (q + k) * n = q * n + k * n
    BY <1>1, Z3
  <2>2. q * n \in Nat /\ k * n \in Nat
    BY <1>1, Times
  <2> QED BY <1>1, <2>1, <2>2
<1>3. (x + k * n) % n = rest
  <2> HIDE DEF rest
  <2> QED BY <1>1, <1>2, Division
<1> QED BY <1>3 DEF Congruent

LEMMA CongruentSum ==
  ASSUME NEW n \in Nat \ {0}, NEW x \in Nat, NEW y \in Nat
  PROVE  Congruent((x % n) + y, x + y, n)
<1> DEFINE q == x \div n
           rest == x % n
<1>1. q \in Nat /\ rest \in 0 .. n - 1 /\ x = q * n + rest
  BY Divided
<1> HIDE DEF q, rest
<1>2. rest + y \in Nat /\ (rest + y) + q * n = x + y
  <2>1. q * n \in Nat
    BY <1>1, Times
  <2> QED BY <1>1, <2>1
<1>3. Congruent((rest + y) + q * n, rest + y, n)
  BY <1>1, <1>2, CongruentMore, Zenon
<1>4. Congruent(rest + y, x + y, n)
  BY <1>2, <1>3, Zenon DEF Congruent
<1> QED BY <1>4, Zenon DEF rest

LEMMA CongruentTimes ==
  ASSUME NEW n \in Nat \ {0}, NEW x \in Nat, NEW y \in Nat
  PROVE  Congruent((x % n) * y, x * y, n)
<1> DEFINE q == x \div n
           rest == x % n
<1>1. q \in Nat /\ rest \in 0 .. n - 1 /\ x = q * n + rest
  BY Divided
<1> HIDE DEF q, rest
<1>2. rest * y \in Nat /\ rest * y + (q * y) * n = x * y /\ q * y \in Nat
  <2>1. x * y = (q * n) * y + rest * y
    BY <1>1, Z3
  <2>2. (q * n) * y = (q * y) * n
    BY <1>1, Z3
  <2>3. q * n \in Nat /\ q * y \in Nat /\ (q * y) * n \in Nat /\ rest * y \in Nat
    BY <1>1, Times
  <2> QED BY <2>1, <2>2, <2>3
<1> DEFINE z == rest * y
           k == q * y
<1>3. Congruent(z + k * n, z, n)
  <2>1. z \in Nat /\ k \in Nat
    BY <1>2
  <2> HIDE DEF z, k
  <2> QED BY <2>1, CongruentMore
<1>4. Congruent(z, x * y, n)
  BY <1>2, <1>3, Zenon DEF Congruent
<1> QED BY <1>4, Zenon DEF rest

-----------------------------------------------------------------------------
(* Words.                                                                  *)

Base == 2^WordBits
Weight(i) == 2^(WordBits * i)

\* The constants are numbers; a word has the bytes of Bytes.
LEMMA Sizes ==
  /\ WordBits \in Nat /\ WordBits >= 6 /\ ByteBits \in Nat \ {0} /\ TopClear \in Nat /\ TopClear >= 3
  /\ LowClear \in Nat /\ DigitBits \in Nat
  /\ Bytes \in Nat \ {0} /\ WordBits = ByteBits * Bytes
  /\ Block \in Nat /\ Block = 4 * Bytes /\ Block # 0
<1>1. /\ WordBits \in Nat /\ WordBits >= 6 /\ ByteBits \in Nat \ {0} /\ TopClear \in Nat /\ TopClear >= 3
      /\ LowClear \in Nat /\ DigitBits \in Nat /\ WordBits % ByteBits = 0
  BY PolyAssumption
<1>2. Bytes \in Nat /\ WordBits = Bytes * ByteBits + 0
  BY <1>1, Divided DEF Bytes
<1>3. Bytes * ByteBits = ByteBits * Bytes /\ ByteBits * Bytes \in Nat
  BY <1>1, <1>2, Z3
<1>4. Bytes # 0
  BY <1>1, <1>2
<1> QED BY <1>1, <1>2, <1>3, <1>4 DEF Block

\* What a bit of word i counts, in units of word 0.
LEMMA Weights ==
  /\ Base \in Nat \ {0} /\ Base >= 64
  /\ \A i \in Nat : Weight(i) \in Nat \ {0} /\ Weight(i + 1) = Base * Weight(i)
  /\ Weight(0) = 1 /\ Weight(1) = Base
  /\ 2^(2 * WordBits) = Base * Base
  /\ Word = 0 .. Base - 1
<1>1. WordBits \in Nat /\ WordBits >= 6
  BY Sizes, Zenon
<1>2. Base \in Nat \ {0}
  BY <1>1, PowerType, Zenon DEF Base
<1>3. Base >= 64
  <2> DEFINE n == WordBits - 6
  <2>1. n \in Nat /\ WordBits = (((((n + 1) + 1) + 1) + 1) + 1) + 1
    BY <1>1
  <2> HIDE DEF n
  <2> DEFINE n1 == n + 1
             n2 == n1 + 1
             n3 == n2 + 1
             n4 == n3 + 1
             n5 == n4 + 1
  <2>2. n1 \in Nat /\ n2 \in Nat /\ n3 \in Nat /\ n4 \in Nat /\ n5 \in Nat /\ WordBits = n5 + 1
    BY <2>1
  <2> HIDE DEF n2, n3, n4, n5
  <2>3. 2^n1 = 2 * 2^n
    BY <2>1, PowerNext, Zenon
  <2> HIDE DEF n1
  <2>4. 2^n2 = 2 * 2^n1
    BY <2>2, PowerNext, Zenon DEF n2
  <2>5. 2^n3 = 2 * 2^n2
    BY <2>2, PowerNext, Zenon DEF n3
  <2>6. 2^n4 = 2 * 2^n3
    BY <2>2, PowerNext, Zenon DEF n4
  <2>7. 2^n5 = 2 * 2^n4
    BY <2>2, PowerNext, Zenon DEF n5
  <2>8. Base = 2 * 2^n5
    BY <2>2, PowerNext, Zenon DEF Base
  <2>9. 2^n \in Nat \ {0}
    BY <2>1, PowerType, Zenon
  <2> QED BY <2>3, <2>4, <2>5, <2>6, <2>7, <2>8, <2>9
<1>4. ASSUME NEW i \in Nat PROVE Weight(i) \in Nat \ {0} /\ Weight(i + 1) = Base * Weight(i)
  <2>1. WordBits * i \in Nat /\ WordBits * (i + 1) = WordBits + WordBits * i
    BY <1>1, SMT
  <2>2. 2^(WordBits * i) \in Nat \ {0}
    BY <2>1, PowerType, Zenon
  <2>3. 2^(WordBits + WordBits * i) = 2^WordBits * 2^(WordBits * i)
    BY <1>1, <2>1, PowerSum, Zenon
  <2> QED BY <2>1, <2>2, <2>3, Zenon DEF Weight, Base
<1>5. Weight(0) = 1 /\ Weight(1) = Base
  <2>1. WordBits * 0 = 0 /\ WordBits * 1 = WordBits /\ 2^0 = 1
    BY <1>1, SMT
  <2> QED BY <2>1, Zenon DEF Weight, Base
<1>6. 2^(2 * WordBits) = Base * Base
  <2>1. 2 * WordBits = WordBits + WordBits
    BY <1>1
  <2> QED BY <1>1, <2>1, PowerSum, Zenon DEF Base
<1> QED BY <1>2, <1>3, <1>4, <1>5, <1>6 DEF Word, Base

\* The pieces of Base that the code cuts it into.
LEMMA Parts ==
  /\ 2^(WordBits - 2) \in Nat \ {0} /\ Base = 4 * 2^(WordBits - 2)
  /\ 2^(WordBits - TopClear) \in Nat \ {0}
  /\ \E e \in Nat \ {0} : Base = 8 * e /\ 2^(WordBits - TopClear) <= e
<1>1. WordBits \in Nat /\ WordBits >= 6 /\ TopClear \in Nat /\ TopClear >= 3 /\ WordBits > 2 + TopClear
  BY Sizes, PolyAssumption
<1> DEFINE l == WordBits - 2
           m == WordBits - 3
           n == WordBits - TopClear
           k == TopClear - 3
<1>2. l \in Nat /\ m \in Nat /\ n \in Nat /\ k \in Nat /\ l + 1 = WordBits - 1 /\ (l + 1) + 1 = WordBits /\ m + 1 = l /\ n + k = m /\ l + 1 \in Nat
  BY <1>1
<1> HIDE DEF l, m, n, k
<1>3. 2^(l + 1) = 2 * 2^l
  BY <1>2, PowerNext, Zenon
<1>4. 2^(m + 1) = 2 * 2^m
  BY <1>2, PowerNext, Zenon
<1>5. 2^(n + k) = 2^n * 2^k
  BY <1>2, PowerSum, Zenon
<1>6. 2^((l + 1) + 1) = 2 * 2^(l + 1)
  <2> DEFINE u == l + 1
  <2>1. u \in Nat
    BY <1>2
  <2> HIDE DEF u
  <2>2. 2^(u + 1) = 2 * 2^u
    BY <2>1, PowerNext, Zenon
  <2> QED BY <2>2, Zenon DEF u
<1>7. 2^l \in Nat \ {0} /\ 2^m \in Nat \ {0} /\ 2^n \in Nat \ {0} /\ 2^k \in Nat \ {0}
  BY <1>2, PowerType, Zenon
<1>8. 2^n <= 2^n * 2^k
  BY <1>7, Z3
<1>9. Base = 4 * 2^l /\ 2^l = 2 * 2^m /\ 2^n <= 2^m
  <2>1. Base = 2 * 2^(l + 1) /\ 2^l = 2 * 2^m /\ 2^m = 2^n * 2^k
    BY <1>2, <1>4, <1>5, <1>6, Zenon DEF Base
  <2> QED BY <2>1, <1>3, <1>7, <1>8
<1>10. Base = 8 * 2^m
  BY <1>7, <1>9
<1> QED BY <1>7, <1>9, <1>10, Zenon DEF l, n

-----------------------------------------------------------------------------
(* Carries. A double word gives its upper half to the next word.           *)

\* The halves of a double word.
LEMMA LowHigh ==
  ASSUME NEW n \in Nat
  PROVE  /\ Low(n) \in 0 .. Base - 1 /\ High(n) \in Nat /\ n = High(n) * Base + Low(n)
         /\ n < Base => Low(n) = n /\ High(n) = 0
         /\ n < Base * Base => Cut(n) = n /\ High(n) < Base
         /\ Cut(n) \in Nat /\ Cut(n) < Base * Base
<1>1. Base \in Nat \ {0} /\ 2^(2 * WordBits) = Base * Base
  BY Weights, Zenon
<1> DEFINE q == n \div Base
           l == n % Base
           sq == Base * Base
           cut == n % sq
<1>2. q \in Nat /\ l \in 0 .. Base - 1 /\ n = q * Base + l
  BY <1>1, Divided
<1>3. Low(n) = l /\ High(n) = q /\ Cut(n) = cut
  BY <1>1, Zenon DEF Low, High, Cut, Base
<1>4. sq \in Nat \ {0}
  BY <1>1, Z3
<1>5. cut \in 0 .. sq - 1 /\ (n < sq => cut = n)
  <2>1. cut \in 0 .. sq - 1
    <3> HIDE DEF sq
    <3> QED BY <1>4, Divided
  <2>2. ASSUME n < sq PROVE cut = n
    <3> HIDE DEF sq
    <3>1. n \in 0 .. sq - 1 /\ 0 * sq + n = n
      BY <1>4, <2>2
    <3>2. (0 * sq + n) % sq = n
      BY <1>4, <3>1, Division
    <3> QED BY <3>1, <3>2 DEF cut
  <2> QED BY <2>1, <2>2
<1>6. ASSUME n < Base PROVE l = n /\ q = 0
  <2>1. n \in 0 .. Base - 1 /\ 0 * Base + n = n
    BY <1>1, <1>6
  <2>2. (0 * Base + n) % Base = n /\ (0 * Base + n) \div Base = 0
    BY <1>1, <2>1, Division
  <2> QED BY <2>1, <2>2
<1>7. ASSUME n < sq PROVE q < Base
  <2>1. SUFFICES ASSUME q >= Base PROVE FALSE
    BY <1>1, <1>2
  <2>2. q * Base >= Base * Base
    BY <1>1, <1>2, <2>1, Z3
  <2>3. q * Base \in Nat
    BY <1>1, <1>2, Times
  <2> HIDE DEF q
  <2> QED BY <1>1, <1>2, <1>4, <1>7, <2>2, <2>3
<1>8. cut \in Nat /\ cut < sq
  BY <1>4, <1>5
<1> HIDE DEF q, l, cut
<1> QED BY <1>2, <1>3, <1>5, <1>6, <1>7, <1>8, Zenon DEF sq

-----------------------------------------------------------------------------
(* Carries.                                                                *)

\* c is x with the carries up to top.
Chain(c, x, top) ==
  /\ c \in [0 .. 7 -> Nat]
  /\ \A i \in 0 .. 7 : c[i] = IF i \in 1 .. top THEN Cut(x[i] + High(c[i - 1])) ELSE x[i]

\* Carried is the one such function.
LEMMA CarriedChain ==
  ASSUME NEW x \in [0 .. 7 -> Nat], NEW top \in 0 .. 7
  PROVE  Chain(Carried(x, top), x, top)
<1> DEFINE D == 0 .. 7
           next(v, i) == IF i \in 1 .. top THEN Cut(x[i] + High(v)) ELSE x[i]
           step == [p \in Nat \X D |-> next(p[1], p[2])]
           Is(c) == c = [i \in DOMAIN x |-> IF i \in 1 .. top THEN Cut(x[i] + High(c[i - 1])) ELSE x[i]]
<1>1. \A v \in Nat : \A i \in D : next(v, i) \in Nat
  <2> SUFFICES ASSUME NEW v \in Nat, NEW i \in D PROVE next(v, i) \in Nat
    BY Zenon
  <2>1. High(v) \in Nat /\ x[i] \in Nat
    BY LowHigh
  <2> DEFINE y == x[i] + High(v)
  <2>2. y \in Nat
    BY <2>1
  <2> HIDE DEF y
  <2>3. Cut(y) \in Nat
    BY <2>2, LowHigh, Zenon
  <2> QED BY <2>1, <2>3, Zenon DEF y
<1>2. \A p \in Nat \X D : p[1] \in Nat /\ p[2] \in D
  <2> HIDE DEF D
  <2> QED OBVIOUS
<1> HIDE DEF next
<1>3. step \in [Nat \X D -> Nat]
  BY <1>1, <1>2, Zenon
<1>4. \A v \in Nat : \A i \in D : step[<<v, i>>] = next(v, i)
  <2>1. \A v \in Nat : \A i \in D : <<v, i>> \in Nat \X D /\ <<v, i>>[1] = v /\ <<v, i>>[2] = i
    <3> HIDE DEF D
    <3> QED OBVIOUS
  <2> HIDE DEF D
  <2> QED BY <2>1, Zenon
<1> HIDE DEF step
<1>5. PICK f \in [D -> Nat] : Follows(f, D, x[0], step)
  <2>1. D \subseteq Nat /\ 0 \in D /\ \A m \in Nat : m + 1 \in D => m \in D
    OBVIOUS
  <2>2. x[0] \in Nat
    BY <2>1
  <2> HIDE DEF D
  <2> QED BY <1>3, <2>1, <2>2, Recursion, Zenon
<1>6. Is(f)
  <2>1. DOMAIN x = D /\ DOMAIN f = D
    BY Zenon
  <2>2. ASSUME NEW i \in D PROVE f[i] = IF i \in 1 .. top THEN Cut(x[i] + High(f[i - 1])) ELSE x[i]
    <3>1. i # 0 => i - 1 \in D
      OBVIOUS
    <3>2. i = 0 => i \notin 1 .. top
      OBVIOUS
    <3> HIDE DEF D
    <3>3. f[i] = IF i = 0 THEN x[0] ELSE step[<<f[i - 1], i>>]
      BY <1>5, Zenon DEF Follows
    <3>4. i # 0 => step[<<f[i - 1], i>>] = next(f[i - 1], i)
      BY <1>4, <1>5, <3>1, Zenon
    <3> QED BY <3>2, <3>3, <3>4, Zenon DEF next
  <2> HIDE DEF D
  <2> QED BY <2>1, <2>2, Zenon
<1> DEFINE c == CHOOSE g : Is(g)
<1>7. Is(c)
  <2> HIDE DEF Is
  <2> QED BY <1>6, Zenon
<1>8. Carried(x, top) = [i \in DOMAIN x |-> c[i]]
  BY Zenon DEF Carried
<1> HIDE DEF c
<1>9. DOMAIN x = D
  BY Zenon
<1>10. \A i \in D : c[i] = IF i \in 1 .. top THEN Cut(x[i] + High(c[i - 1])) ELSE x[i]
  <2> DEFINE value(i) == IF i \in 1 .. top THEN Cut(x[i] + High(c[i - 1])) ELSE x[i]
  <2>1. c = [i \in D |-> value(i)]
    BY <1>7, <1>9, Zenon
  <2>2. \A i \in D : c[i] = value(i)
    <3> HIDE DEF value, D
    <3> QED BY <2>1, Zenon
  <2> QED BY <2>2, Zenon
<1>11. \A i \in D : c[i] \in Nat
  <2> DEFINE T == {i \in Nat : i \in D => c[i] \in Nat}
  <2>1. 0 \in T
    <3>1. 0 \in Nat /\ 0 \in D /\ 0 \notin 1 .. top
      OBVIOUS
    <3>2. c[0] = x[0] /\ x[0] \in Nat
      BY <1>10, <3>1, Zenon
    <3> QED BY <3>1, <3>2, Zenon
  <2>2. ASSUME NEW m \in Nat, m \in T PROVE m + 1 \in T
    <3> SUFFICES ASSUME m + 1 \in D PROVE c[m + 1] \in Nat
      <4>1. m + 1 \in Nat
        OBVIOUS
      <4> QED BY <4>1, Zenon
    <3> DEFINE e == m + 1
    <3>1. e \in D /\ e - 1 = m /\ m \in D
      OBVIOUS
    <3> HIDE DEF e
    <3>2. c[m] \in Nat
      BY <2>2, <3>1, Zenon
    <3>3. c[e] = next(c[m], e)
      <4> HIDE DEF D
      <4> QED BY <1>10, <3>1, Zenon DEF next
    <3>4. c[e] \in Nat
      BY <1>1, <3>1, <3>2, <3>3, Zenon
    <3> QED BY <3>4, Zenon DEF e
  <2>3. Nat \subseteq T
    <3> HIDE DEF T
    <3> QED BY <2>1, <2>2, Induction, Zenon
  <2>4. D \subseteq Nat
    OBVIOUS
  <2> QED BY <2>3, <2>4, Zenon
<1>12. Carried(x, top) = c /\ c \in [D -> Nat]
  <2>1. c = [i \in D |-> c[i]]
    BY <1>7, <1>9, Zenon
  <2>2. Carried(x, top) = c
    BY <1>8, <1>9, <2>1, Zenon
  <2>3. c \in [D -> Nat]
    <3> HIDE DEF D
    <3> QED BY <1>11, <2>1, Zenon
  <2> QED BY <2>2, <2>3
<1> QED BY <1>10, <1>12, Zenon DEF Chain

Lows(x) == [i \in 0 .. 7 |-> Low(x[i])]

\* Number, one word more.
NextWord(x, n) == Number(x, n + 1) = Number(x, n) + x[n] * Weight(n)

LEMMA NumberNext ==
  ASSUME NEW x, NEW n \in Nat, \A i \in 0 .. n : x[i] \in Nat
  PROVE  Number(x, 0) = 0 /\ Number(x, n) \in Nat /\ NextWord(x, n)
<1>1. DigitsFrom(x, 0, n + 1)
  <2>1. \A i \in 0 .. (n + 1) - 1 : i \in 0 .. n /\ 0 + i = i
    OBVIOUS
  <2> QED BY <2>1, Zenon DEF DigitsFrom
<1>2. 0 \in Nat /\ WordBits \in Nat /\ 0 + n = n
  BY Sizes
<1>3. NextDigit(WordBits, x, 0, n) /\ DigitsFrom(x, 0, n)
  BY <1>1, <1>2, LittleMore, FewerDigits, Zenon
<1>4. Number(x, 0) = 0 /\ Number(x, n) \in Nat
  BY <1>2, <1>3, LittleZero, LittleType, Zenon DEF Number
<1>5. NextWord(x, n)
  BY <1>2, <1>3, Zenon DEF NextDigit, NextWord, Number, Weight
<1> QED BY <1>4, <1>5, Zenon

\* With room for the carries none is lost.
NoneLost(c, x, top) ==
  /\ \A i \in 0 .. top : c[i] < Base * Base /\ High(c[i]) \in 0 .. Base - 1
  /\ \A i \in 1 .. top : c[i] = x[i] + High(c[i - 1])

LEMMA ChainRoom ==
  ASSUME NEW x \in [0 .. 7 -> Nat], NEW top \in 0 .. 7, NEW c, Chain(c, x, top),
         x[0] < Base * Base, \A i \in 1 .. top : x[i] <= Base * Base - Base
  PROVE  NoneLost(c, x, top)
<1> DEFINE sq == Base * Base
           T == {i \in Nat : i <= top => c[i] < sq /\ High(c[i]) \in 0 .. Base - 1 /\ (i > 0 => c[i] = x[i] + High(c[i - 1]))}
<1>0. Base \in Nat /\ sq \in Nat /\ Base >= 64
  BY Weights, Times
<1>1. \A i \in 0 .. 7 : c[i] \in Nat /\ c[i] = IF i \in 1 .. top THEN Cut(x[i] + High(c[i - 1])) ELSE x[i]
  BY DEF Chain
<1>2. \A n \in Nat : n < sq => High(n) \in 0 .. Base - 1
  <2> SUFFICES ASSUME NEW n \in Nat, n < sq PROVE High(n) \in 0 .. Base - 1
    BY Zenon
  <2>1. High(n) \in Nat /\ High(n) < Base
    BY LowHigh, Zenon
  <2> QED BY <1>0, <2>1
<1>3. 0 \in T
  <2>1. 0 \in Nat /\ 0 \in 0 .. 7 /\ 0 \notin 1 .. top /\ ~(0 > 0)
    OBVIOUS
  <2>2. c[0] = x[0] /\ c[0] \in Nat
    BY <1>1, <2>1, Zenon
  <2> QED BY <1>2, <2>1, <2>2, Zenon
<1>4. ASSUME NEW m \in Nat, m \in T PROVE m + 1 \in T
  <2> DEFINE e == m + 1
  <2> SUFFICES ASSUME e <= top PROVE c[e] < sq /\ High(c[e]) \in 0 .. Base - 1 /\ c[e] = x[e] + High(c[e - 1])
    <3>1. m + 1 \in Nat
      OBVIOUS
    <3> QED BY <3>1, Zenon
  <2>1. e \in 1 .. top /\ e \in 0 .. 7 /\ e - 1 = m /\ m <= top /\ e \in Nat
    OBVIOUS
  <2> HIDE DEF e
  <2> DEFINE h == High(c[m])
             y == x[e] + h
  <2>2. h \in 0 .. Base - 1
    BY <1>4, <2>1, Zenon
  <2>3. x[e] \in Nat /\ x[e] <= sq - Base
    BY <2>1
  <2> HIDE DEF h, sq
  <2>4. y \in Nat /\ y < sq
    BY <1>0, <2>2, <2>3
  <2>5. c[e] = Cut(y)
    BY <1>1, <2>1, Zenon DEF h
  <2> HIDE DEF y
  <2>6. Cut(y) = y
    BY <2>4, LowHigh, Zenon DEF sq
  <2>7. High(y) \in 0 .. Base - 1
    BY <1>2, <2>4, Zenon
  <2>8. c[e] = y
    BY <2>5, <2>6, Zenon
  <2>9. y = x[e] + High(c[e - 1])
    BY <2>1, Zenon DEF y, h
  <2> QED BY <2>4, <2>7, <2>8, <2>9, Zenon
<1>5. Nat \subseteq T
  <2> HIDE DEF T
  <2> QED BY <1>3, <1>4, Induction, Zenon
<1>6. /\ \A i \in 0 .. top : i \in Nat /\ i <= top
      /\ \A i \in 1 .. top : i \in Nat /\ i <= top /\ i > 0
  OBVIOUS
<1> QED BY <1>5, <1>6, Zenon DEF NoneLost

\* What is below a word, and the word with its carry, add up.
Summed(c, x, i) ==
  /\ Number(Lows(c), i) \in Nat /\ Number(Lows(c), i + 1) \in Nat /\ Number(x, i + 1) \in Nat
  /\ Number(Lows(c), i) + c[i] * Weight(i) = Number(x, i + 1)
  /\ Number(Lows(c), i + 1) + High(c[i]) * Weight(i + 1) = Number(x, i + 1)

LEMMA ChainSum ==
  ASSUME NEW x \in [0 .. 7 -> Nat], NEW top \in 0 .. 7, NEW c, Chain(c, x, top),
         x[0] < Base * Base, \A i \in 1 .. top : x[i] <= Base * Base - Base
  PROVE  \A i \in 0 .. top : Summed(c, x, i)
<1> DEFINE L == Lows(c)
           T == {i \in Nat : i <= top => Summed(c, x, i)}
<1>1. \A i \in 0 .. 7 : c[i] \in Nat /\ L[i] = Low(c[i]) /\ L[i] \in Nat /\ x[i] \in Nat
                        /\ High(c[i]) \in Nat /\ c[i] = High(c[i]) * Base + L[i]
  <2> SUFFICES ASSUME NEW i \in 0 .. 7
               PROVE  c[i] \in Nat /\ L[i] = Low(c[i]) /\ L[i] \in Nat /\ x[i] \in Nat
                      /\ High(c[i]) \in Nat /\ c[i] = High(c[i]) * Base + L[i]
    BY Zenon
  <2>1. c[i] \in Nat
    BY DEF Chain
  <2>2. Low(c[i]) \in 0 .. Base - 1 /\ High(c[i]) \in Nat /\ c[i] = High(c[i]) * Base + Low(c[i])
    BY <2>1, LowHigh, Zenon
  <2>3. L[i] = Low(c[i])
    BY Zenon DEF Lows
  <2>4. Low(c[i]) \in Nat
    BY <2>2
  <2> QED BY <2>1, <2>2, <2>3, <2>4, Zenon
<1> HIDE DEF L
<1>2. \A i \in 1 .. top : c[i] = x[i] + High(c[i - 1])
  BY ChainRoom, Zenon DEF NoneLost
<1>3. ASSUME NEW i \in 0 .. 7
      PROVE  /\ Number(x, 0) = 0 /\ Number(x, i) \in Nat /\ Number(x, i + 1) = Number(x, i) + x[i] * Weight(i)
             /\ Number(L, 0) = 0 /\ Number(L, i) \in Nat /\ Number(L, i + 1) = Number(L, i) + L[i] * Weight(i)
             /\ Weight(i) \in Nat /\ Weight(i + 1) = Base * Weight(i)
  <2>1. i \in Nat /\ \A j \in 0 .. i : j \in 0 .. 7
    OBVIOUS
  <2>2. Number(x, 0) = 0 /\ Number(x, i) \in Nat /\ NextWord(x, i)
    BY <1>1, <2>1, NumberNext, Zenon
  <2>3. Number(L, 0) = 0 /\ Number(L, i) \in Nat /\ NextWord(L, i)
    BY <1>1, <2>1, NumberNext, Zenon
  <2>4. Weight(i) \in Nat /\ Weight(i + 1) = Base * Weight(i)
    BY <2>1, Weights, Zenon
  <2> QED BY <2>2, <2>3, <2>4, Zenon DEF NextWord
<1>4. ASSUME NEW i \in 0 .. 7, Number(L, i) + c[i] * Weight(i) = Number(x, i + 1)
      PROVE  Summed(c, x, i)
  <2> DEFINE l == L[i]
             h == High(c[i])
             w == Weight(i)
             n == Number(L, i)
             v == c[i]
             k == Number(x, i)
             z == x[i]
  <2>1. l \in Nat /\ h \in Nat /\ w \in Nat /\ n \in Nat /\ v = h * Base + l /\ Base \in Nat /\ v \in Nat /\ z \in Nat
    BY <1>1, <1>3, Weights, Zenon
  <2>1a. Number(x, i + 1) = k + z * w /\ k \in Nat
    BY <1>3, Zenon
  <2>2. Number(L, i + 1) = n + l * w /\ Weight(i + 1) = Base * w /\ n + v * w = Number(x, i + 1)
    BY <1>3, <1>4, Zenon
  <2> HIDE DEF l, h, w, n, v, k, z
  <2>3. v * w = h * (Base * w) + l * w
    <3>1. (h * Base + l) * w = (h * Base) * w + l * w /\ (h * Base) * w = h * (Base * w)
      BY <2>1, Z3
    <3> QED BY <2>1, <3>1
  <2>4. l * w \in Nat /\ h * (Base * w) \in Nat /\ v * w \in Nat /\ z * w \in Nat
    <3>1. Base * w \in Nat
      BY <2>1, Times
    <3> QED BY <2>1, <3>1, Times
  <2>5. (n + l * w) + h * (Base * w) = n + v * w /\ n + l * w \in Nat /\ k + z * w \in Nat
    BY <2>1, <2>1a, <2>3, <2>4
  <2>6. Number(L, i + 1) + h * Weight(i + 1) = Number(x, i + 1)
    BY <2>2, <2>5, Zenon
  <2>7. Number(L, i + 1) \in Nat /\ Number(x, i + 1) \in Nat
    BY <2>1a, <2>2, <2>5, Zenon
  <2> QED BY <1>3, <1>4, <2>6, <2>7, Zenon DEF Summed, h, L
<1>5. 0 \in T
  <2>1. 0 \in Nat /\ 0 \in 0 .. 7 /\ 0 + 1 = 1 /\ 0 \notin 1 .. top
    OBVIOUS
  <2>2. c[0] = x[0]
    BY <2>1, Zenon DEF Chain
  <2>3. Number(L, 0) = 0 /\ Number(x, 0 + 1) = 0 + x[0] * Weight(0)
    BY <1>3, <2>1, Zenon
  <2>4. Number(L, 0) + c[0] * Weight(0) = Number(x, 0 + 1)
    BY <2>2, <2>3, Zenon
  <2> HIDE DEF T
  <2>5. Summed(c, x, 0)
    BY <1>4, <2>1, <2>4, Zenon
  <2> QED BY <2>1, <2>5, Zenon DEF T
<1>6. ASSUME NEW m \in Nat, m \in T PROVE m + 1 \in T
  <2> DEFINE e == m + 1
  <2> SUFFICES ASSUME e <= top PROVE Summed(c, x, e)
    <3>1. m + 1 \in Nat
      OBVIOUS
    <3> QED BY <3>1, Zenon
  <2>1. e \in 1 .. top /\ e \in 0 .. 7 /\ e - 1 = m /\ m <= top /\ m \in 0 .. 7
    OBVIOUS
  <2>2. Summed(c, x, m)
    BY <1>6, <2>1, Zenon
  <2>3. Number(L, e) + High(c[m]) * Weight(e) = Number(x, e)
    BY <2>2, Zenon DEF Summed, L
  <2> HIDE DEF e
  <2> DEFINE n == Number(L, e)
             h == High(c[m])
             w == Weight(e)
             k == Number(x, e)
             z == x[e]
  <2>4. c[e] = z + h /\ Number(x, e + 1) = k + z * w
    BY <1>2, <1>3, <2>1, Zenon
  <2>5. n \in Nat /\ h \in Nat /\ w \in Nat /\ k \in Nat /\ z \in Nat
    BY <1>1, <1>3, <2>1, Zenon
  <2>6. n + h * w = k
    BY <2>3, Zenon
  <2> HIDE DEF n, h, w, k, z
  <2>7. n + (z + h) * w = k + z * w
    <3>1. (z + h) * w = z * w + h * w
      BY <2>5, Z3
    <3>2. z * w \in Nat /\ h * w \in Nat
      BY <2>5, Times
    <3> QED BY <2>5, <2>6, <3>1, <3>2
  <2>8. Number(L, e) + c[e] * Weight(e) = Number(x, e + 1)
    BY <2>4, <2>7, Zenon DEF n, w
  <2> QED BY <1>4, <2>1, <2>8, Zenon
<1>7. Nat \subseteq T
  <2> HIDE DEF T
  <2> QED BY <1>5, <1>6, Induction, Zenon
<1>8. \A i \in 0 .. top : i \in Nat /\ i <= top
  OBVIOUS
<1> QED BY <1>7, <1>8, Zenon

-----------------------------------------------------------------------------
(* P, and numbers of four and five words.                                  *)

\* P against the weight of the fifth word.
LEMMA Modulus ==
  /\ Weight(4) \in Nat /\ Weight(4) >= 64 /\ 2^(4 * WordBits) = Weight(4)
  /\ P = 4 * Weight(4) - 5 /\ P \in Nat \ {0}
<1>1. WordBits \in Nat /\ 4 * WordBits \in Nat /\ WordBits * 4 = 4 * WordBits /\ 4 * WordBits + 1 \in Nat /\ (4 * WordBits + 1) + 1 = 4 * WordBits + 2
  BY Sizes
<1> DEFINE n == 4 * WordBits
           m == n + 1
<1>2. n \in Nat /\ m \in Nat /\ m + 1 = 4 * WordBits + 2
  BY <1>1
<1>3. Weight(4) = 2^n
  BY <1>1, Zenon DEF Weight
<1> HIDE DEF n
<1>4. 2^m = 2 * 2^n
  BY <1>2, PowerNext, Zenon
<1> HIDE DEF m
<1>5. 2^(m + 1) = 2 * 2^m
  BY <1>2, PowerNext, Zenon
<1>6. P = 2^(m + 1) - 5
  BY <1>2, Zenon DEF P
<1>7. 2^n \in Nat \ {0} /\ 2^n >= 64
  <2>1. Weight(3) \in Nat \ {0} /\ Weight(3 + 1) = Base * Weight(3) /\ Base \in Nat /\ Base >= 64
    <3>1. 3 \in Nat
      OBVIOUS
    <3> QED BY <3>1, Weights, Zenon
  <2>2. 3 + 1 = 4
    OBVIOUS
  <2>3. Base * Weight(3) >= Base * 1 /\ Base * Weight(3) \in Nat
    BY <2>1, Z3
  <2> QED BY <1>3, <2>1, <2>2, <2>3
<1> QED BY <1>3, <1>4, <1>5, <1>6, <1>7 DEF n

FourWords(x) == Number(x, 4) = x[0] * Weight(0) + x[1] * Weight(1) + x[2] * Weight(2) + x[3] * Weight(3)

\* Four words, written out.
LEMMA NumberFour ==
  ASSUME NEW x, \A i \in 0 .. 3 : x[i] \in Nat
  PROVE  FourWords(x) /\ Number(x, 4) \in Nat /\ \A i \in 0 .. 3 : x[i] * Weight(i) \in Nat
<1>1. ASSUME NEW n \in 0 .. 3
      PROVE  /\ Number(x, 0) = 0 /\ Number(x, n + 1) = Number(x, n) + x[n] * Weight(n)
             /\ Number(x, n) \in Nat /\ x[n] * Weight(n) \in Nat
  <2>1. n \in Nat /\ \A i \in 0 .. n : i \in 0 .. 3
    OBVIOUS
  <2>2. \A i \in 0 .. n : x[i] \in Nat
    BY <2>1, Zenon
  <2>3. Number(x, 0) = 0 /\ Number(x, n) \in Nat /\ NextWord(x, n)
    BY <2>1, <2>2, NumberNext, Zenon
  <2>4. x[n] \in Nat /\ Weight(n) \in Nat
    BY <2>1, Weights, Zenon
  <2> QED BY <2>3, <2>4, Times, Zenon DEF NextWord
<1>2. /\ 0 \in 0 .. 3 /\ 1 \in 0 .. 3 /\ 2 \in 0 .. 3 /\ 3 \in 0 .. 3
      /\ 0 + 1 = 1 /\ 1 + 1 = 2 /\ 2 + 1 = 3 /\ 3 + 1 = 4
  OBVIOUS
<1> DEFINE y(n) == x[n] * Weight(n)
<1>3. /\ Number(x, 0) = 0 /\ Number(x, 1) = Number(x, 0) + y(0) /\ Number(x, 2) = Number(x, 1) + y(1)
      /\ Number(x, 3) = Number(x, 2) + y(2) /\ Number(x, 4) = Number(x, 3) + y(3)
      /\ y(0) \in Nat /\ y(1) \in Nat /\ y(2) \in Nat /\ y(3) \in Nat
  BY <1>1, <1>2, Zenon
<1>4. \A i \in 0 .. 3 : y(i) \in Nat
  BY <1>1, Zenon
<1> DEFINE y0 == y(0)
           y1 == y(1)
           y2 == y(2)
           y3 == y(3)
<1>5. /\ Number(x, 0) = 0 /\ Number(x, 1) = Number(x, 0) + y0 /\ Number(x, 2) = Number(x, 1) + y1
      /\ Number(x, 3) = Number(x, 2) + y2 /\ Number(x, 4) = Number(x, 3) + y3
      /\ y0 \in Nat /\ y1 \in Nat /\ y2 \in Nat /\ y3 \in Nat
  BY <1>3, Zenon
<1> HIDE DEF y0, y1, y2, y3
<1>6. Number(x, 4) = y0 + y1 + y2 + y3 /\ Number(x, 4) \in Nat
  BY <1>5
<1> QED BY <1>4, <1>6, Zenon DEF FourWords, y0, y1, y2, y3

\* What five words stand for when the fifth has no bound.
Wide(x) == Number(Lows(x), 4) + x[4] * Weight(4)

\* Five words with room for their carries.
Roomy(x) ==
  /\ x \in [0 .. 7 -> Nat]
  /\ x[0] <= Base * Base - Base /\ x[1] <= Base * Base - Base /\ x[2] <= Base * Base - Base
  /\ x[3] <= Base * Base - Base /\ x[4] <= Base

\* The first five words after their carries.
LEMMA CarriedFive ==
  ASSUME NEW x \in [0 .. 7 -> Nat], x[0] <= Base * Base - Base, x[1] <= Base * Base - Base,
         x[2] <= Base * Base - Base, x[3] <= Base * Base - Base, x[4] <= Base
  PROVE  LET c == Carried(x, 4)
         IN  /\ c \in [0 .. 7 -> Nat]
             /\ Wide(c) = Number(x, 5) /\ Wide(c) \in Nat
             /\ c[4] = x[4] + High(c[3]) /\ c[3] = x[3] + High(c[2])
             /\ High(c[3]) \in 0 .. Base - 1 /\ High(c[2]) \in 0 .. Base - 1
             /\ Number(Lows(c), 4) + High(c[3]) * Weight(4) = Number(x, 4)
<1> DEFINE c == Carried(x, 4)
<1>1. Base \in Nat /\ Base >= 64 /\ Base * Base \in Nat /\ Base * Base >= 64 * Base
  BY Weights, Z3
<1>2. 4 \in 0 .. 7 /\ x[0] < Base * Base /\ \A i \in 1 .. 4 : x[i] <= Base * Base - Base
  <2> DEFINE sq == Base * Base
  <2>1. sq \in Nat /\ sq >= 64 * Base
    BY <1>1
  <2> HIDE DEF sq
  <2>2. x[0] \in Nat /\ x[4] \in Nat
    OBVIOUS
  <2>3. x[0] <= sq - Base /\ x[1] <= sq - Base /\ x[2] <= sq - Base /\ x[3] <= sq - Base /\ x[4] <= Base
    BY Zenon DEF sq
  <2>4. x[0] < sq /\ x[4] <= sq - Base
    BY <1>1, <2>1, <2>2, <2>3
  <2>5. \A i \in 1 .. 4 : x[i] <= sq - Base
    <3>1. \A i \in 1 .. 4 : i = 1 \/ i = 2 \/ i = 3 \/ i = 4
      OBVIOUS
    <3> QED BY <2>3, <2>4, <3>1, Zenon
  <2> QED BY <2>4, <2>5 DEF sq
<1>3. Chain(c, x, 4)
  BY <1>2, CarriedChain, Zenon
<1> HIDE DEF c
<1> NoneLost(c, x, 4)
  BY <1>2, <1>3, ChainRoom, Zenon
<1>4. \A i \in 1 .. 4 : c[i] = x[i] + High(c[i - 1])
  BY Zenon DEF NoneLost
<1>5. \A i \in 0 .. 4 : High(c[i]) \in 0 .. Base - 1
  BY Zenon DEF NoneLost
<1>6. \A i \in 0 .. 4 : Summed(c, x, i)
  BY <1>2, <1>3, ChainSum, Zenon
<1>7. 3 \in 0 .. 4 /\ 4 \in 0 .. 4 /\ 2 \in 0 .. 4 /\ 3 \in 1 .. 4 /\ 4 \in 1 .. 4 /\ 3 + 1 = 4 /\ 4 + 1 = 5 /\ 3 - 1 = 2 /\ 4 - 1 = 3
  OBVIOUS
<1>8. Wide(c) = Number(x, 5) /\ Wide(c) \in Nat
  BY <1>6, <1>7, Zenon DEF Summed, Wide
<1>9. Number(Lows(c), 4) + High(c[3]) * Weight(4) = Number(x, 4)
  BY <1>6, <1>7, Zenon DEF Summed
<1>10. c[4] = x[4] + High(c[3]) /\ c[3] = x[3] + High(c[2])
  BY <1>4, <1>7, Zenon
<1>11. c \in [0 .. 7 -> Nat]
  BY <1>3, Zenon DEF Chain
<1> QED BY <1>5, <1>7, <1>8, <1>9, <1>10, <1>11, Zenon DEF c

-----------------------------------------------------------------------------
(* The two passes of the reduction: a multiple of P is taken away.         *)

\* The parts of a word: h above two bits, e of it twice over.
LEMMA TwoParts ==
  ASSUME NEW n \in Nat
  PROVE  /\ Two(n) \in 0 .. 3 /\ AboveTwo(n) \in 0 .. Base - 1 /\ Low(n) = AboveTwo(n) + Two(n)
         /\ AboveTwo(n) % 4 = 0 /\ AboveTwo(n) <= n
<1> DEFINE Q == 2^(WordBits - 2)
           l == Low(n)
           h == High(n)
           e == l \div 4
           t == l % 4
<1>1. Q \in Nat /\ Base = 4 * Q /\ Base \in Nat
  BY Parts, Weights
<1>2. l \in 0 .. Base - 1 /\ h \in Nat /\ n = h * Base + l /\ Base \in Nat
  BY <1>1, LowHigh, Zenon
<1>3. l \in Nat /\ l <= n /\ l <= Base - 1
  <2>1. h * Base \in Nat
    BY <1>2, Times
  <2> HIDE DEF l, h
  <2> QED BY <1>2, <2>1
<1> HIDE DEF Q, l, h
<1>4. e \in Nat /\ t \in 0 .. 3 /\ l = e * 4 + t
  BY <1>3
<1> HIDE DEF e, t
<1>5. n = (h * Q + e) * 4 + t /\ h * Q + e \in Nat
  <2>1. h * (4 * Q) = 4 * (h * Q) /\ h * Q \in Nat
    BY <1>1, <1>2, Z3
  <2>2. n = 4 * (h * Q) + (e * 4 + t)
    BY <1>1, <1>2, <1>4, <2>1
  <2> QED BY <1>4, <2>1, <2>2
<1>6. n % 4 = t
  BY <1>4, <1>5, Division
<1>7. Two(n) = t /\ AboveTwo(n) = l - t
  BY <1>6, Zenon DEF Two, AboveTwo, l
<1>8. l - t = 4 * e /\ (4 * e) % 4 = 0
  BY <1>4
<1> HIDE DEF Two, AboveTwo
<1>9. Low(n) = AboveTwo(n) + Two(n)
  <2>1. l = (l - t) + t
    BY <1>3, <1>4
  <2> QED BY <1>7, <2>1, Zenon DEF l
<1>10. l - t \in 0 .. Base - 1 /\ l - t <= n
  <2>1. l - t \in Nat /\ l - t <= l /\ Base \in Nat
    BY <1>2, <1>3, <1>4
  <2> DEFINE z == l - t
  <2>2. z \in Nat /\ z <= l
    BY <2>1
  <2> HIDE DEF z
  <2>3. z \in 0 .. Base - 1 /\ z <= n
    BY <1>3, <2>1, <2>2
  <2> QED BY <2>3 DEF z
<1> QED BY <1>4, <1>7, <1>8, <1>9, <1>10

\* A word moved down by two bits, and what that moves into the top of the word below.
LEMMA QuarterParts ==
  ASSUME NEW n \in 0 .. Base - 1
  PROVE  \E e \in Nat, g \in 0 .. 3 : /\ n = 4 * e + g /\ n \div 4 = e /\ n % 4 = g /\ e <= 2^(WordBits - 2) - 1
                                      /\ Low(n * 2^(WordBits - 2)) = g * 2^(WordBits - 2)
<1> DEFINE Q == 2^(WordBits - 2)
           e == n \div 4
           g == n % 4
<1>1. Q \in Nat \ {0} /\ Base = 4 * Q /\ Base \in Nat \ {0}
  BY Parts, Weights
<1> HIDE DEF Q
<1>2. e \in Nat /\ g \in 0 .. 3 /\ n = 4 * e + g /\ n \in Nat /\ e <= Q - 1
  BY <1>1
<1> HIDE DEF e, g
<1>3. n * Q = e * Base + g * Q /\ g * Q \in 0 .. Base - 1
  <2>1. (4 * e + g) * Q = e * (4 * Q) + g * Q
    BY <1>1, <1>2, Z3
  <2>2. g * Q <= 3 * Q /\ g * Q \in Nat
    BY <1>1, <1>2, Z3
  <2> QED BY <1>1, <1>2, <2>1, <2>2
<1> DEFINE p == g * Q
<1>4. p \in 0 .. Base - 1 /\ n * Q = e * Base + p
  BY <1>3
<1> HIDE DEF p
<1>5. (e * Base + p) % Base = p
  BY <1>1, <1>2, <1>4, Division
<1>6. Low(n * Q) = g * Q
  BY <1>4, <1>5, Zenon DEF Low, Base, p
<1>7. n \div 4 = e /\ n % 4 = g
  BY DEF e, g
<1> QED BY <1>2, <1>6, <1>7, Zenon DEF Q

\* A word of the sum of the first pass, with what is above it.
LEMMA PassWord ==
  ASSUME NEW l \in Nat, NEW e \in Nat, NEW g \in Nat, NEW k \in Nat, NEW q \in Nat, NEW w \in Nat
  PROVE  /\ (l + (4 * e + g) + (e + k * q)) * w = l * w + 5 * (e * w) + g * w + k * (q * w)
         /\ (4 * e + g) * w = 4 * (e * w) + g * w
         /\ k * ((4 * q) * w) = 4 * (k * (q * w))
         /\ l * w \in Nat /\ e * w \in Nat /\ g * w \in Nat /\ q * w \in Nat /\ k * (q * w) \in Nat
<1>1. l * w \in Nat /\ e * w \in Nat /\ g * w \in Nat /\ q * w \in Nat
  BY Times
<1> DEFINE qw == q * w
           kq == k * q
           h == 4 * e + g
<1>2. qw \in Nat /\ k * qw \in Nat /\ kq \in Nat /\ kq * w = k * qw /\ h \in Nat
  BY <1>1, Z3
<1>3. h * w = 4 * (e * w) + g * w
  BY Z3
<1>4. k * ((4 * q) * w) = 4 * (k * qw)
  BY Z3
<1> HIDE DEF qw, kq, h
<1>5. (l + h + (e + kq)) * w = l * w + h * w + e * w + kq * w
  BY <1>2, Z3
<1>6. (l + h + (e + kq)) * w = l * w + 5 * (e * w) + g * w + k * qw
  <2>1. k * qw \in Nat
    BY <1>2
  <2> QED BY <1>1, <1>2, <1>3, <1>5, <2>1
<1> QED BY <1>1, <1>2, <1>3, <1>4, <1>6 DEF qw, kq, h

\* Weights of words above the fourth.
LEMMA WeightSum ==
  \A i, j \in Nat : Weight(i + j) = Weight(i) * Weight(j)
<1> SUFFICES ASSUME NEW i \in Nat, NEW j \in Nat PROVE Weight(i + j) = Weight(i) * Weight(j)
  OBVIOUS
<1> DEFINE m == WordBits * i
           n == WordBits * j
<1>1. m \in Nat /\ n \in Nat /\ WordBits * (i + j) = m + n
  BY Sizes, SMT
<1> HIDE DEF m, n
<1>2. 2^(m + n) = 2^m * 2^n
  BY <1>1, PowerSum, Zenon
<1> QED BY <1>1, <1>2, Zenon DEF Weight, m, n

\* Eight words are four and four.
Halved(x) == Number(x, 8) = Number(x, 4) + Weight(4) * Number([i \in 0 .. 3 |-> x[4 + i]], 4)

LEMMA NumberEight ==
  ASSUME NEW x, \A i \in 0 .. 7 : x[i] \in Nat
  PROVE  Halved(x)
<1> DEFINE upper == [i \in 0 .. 3 |-> x[4 + i]]
<1>1. 0 \in Nat /\ 4 \in Nat /\ 4 + 4 = 8 /\ 0 + 4 = 4 /\ WordBits \in Nat
  BY Sizes
<1>2. DigitsFrom(x, 0, 4 + 4)
  <2>1. \A i \in 0 .. (4 + 4) - 1 : 0 + i = i /\ i \in 0 .. 7
    OBVIOUS
  <2> QED BY <2>1, Zenon DEF DigitsFrom
<1>3. SplitsAt(WordBits, x, 0, 4, 4)
  BY <1>1, <1>2, LittleSplit, Zenon
<1>4. DigitsFrom(x, 4, 4) /\ SameDigits(x, 4, upper, 0, 4)
  <2>1. \A i \in 0 .. 4 - 1 : 0 + i = i /\ i \in 0 .. 3 /\ 4 + i \in 0 .. 7
    OBVIOUS
  <2> QED BY <2>1, Zenon DEF DigitsFrom, SameDigits
<1> HIDE DEF upper
<1>5. SameNumber(WordBits, x, 4, upper, 0, 4)
  BY <1>1, <1>4, LittleSame, Zenon
<1> QED BY <1>1, <1>3, <1>5, Zenon DEF SplitsAt, SameNumber, Number, Weight, Halved, upper

-----------------------------------------------------------------------------
(* The first pass.                                                         *)

FirstHigh == [i \in 0 .. 3 |-> IF i = 0 THEN AboveTwo(a[4]) ELSE Low(a[4 + i])]
FirstShifted(i) == FirstHigh[i] \div 4 + (IF i < 3 THEN Low(FirstHigh[i + 1] * 2^(WordBits - 2)) ELSE 0)
FirstSum ==
  [i \in 0 .. 7 |-> IF i < 4 THEN Cut(LeastSignificant(a)[i] + FirstHigh[i] + FirstShifted(i)) ELSE LeastSignificant(a)[i]]

LEMMA FirstHighWords ==
  ASSUME a \in [0 .. 7 -> Nat]
  PROVE  /\ \A i \in 0 .. 3 : FirstHigh[i] \in 0 .. Base - 1
         /\ FirstHigh[0] % 4 = 0 /\ Low(a[4]) = FirstHigh[0] + Two(a[4]) /\ Two(a[4]) \in 0 .. 3
         /\ Low(a[5]) = FirstHigh[1] /\ Low(a[6]) = FirstHigh[2] /\ Low(a[7]) = FirstHigh[3]
<1>1. /\ \A i \in 0 .. 3 : 4 + i \in 0 .. 7
      /\ 0 \in 0 .. 3 /\ 1 \in 0 .. 3 /\ 2 \in 0 .. 3 /\ 3 \in 0 .. 3 /\ 4 + 1 = 5 /\ 4 + 2 = 6 /\ 4 + 3 = 7 /\ 4 \in 0 .. 7
      /\ 1 # 0 /\ 2 # 0 /\ 3 # 0
  OBVIOUS
<1>2. \A i \in 0 .. 7 : a[i] \in Nat
  OBVIOUS
<1>3. /\ FirstHigh[0] = AboveTwo(a[4]) /\ FirstHigh[1] = Low(a[5]) /\ FirstHigh[2] = Low(a[6]) /\ FirstHigh[3] = Low(a[7])
      /\ \A i \in 0 .. 3 : FirstHigh[i] = IF i = 0 THEN AboveTwo(a[4]) ELSE Low(a[4 + i])
  BY <1>1, Zenon DEF FirstHigh
<1>4. AboveTwo(a[4]) % 4 = 0 /\ Low(a[4]) = AboveTwo(a[4]) + Two(a[4]) /\ Two(a[4]) \in 0 .. 3 /\ AboveTwo(a[4]) \in 0 .. Base - 1
  BY <1>1, <1>2, TwoParts, Zenon
<1>5. \A i \in 0 .. 3 : Low(a[4 + i]) \in 0 .. Base - 1
  BY <1>1, <1>2, LowHigh, Zenon
<1>6. \A i \in 0 .. 3 : FirstHigh[i] \in 0 .. Base - 1
  BY <1>3, <1>4, <1>5, Zenon
<1> QED BY <1>3, <1>4, <1>6, Zenon

LEMMA FirstSumWord ==
  ASSUME a \in [0 .. 7 -> Nat], NEW i \in 0 .. 3
  PROVE  LET q == 2^(WordBits - 2)
             e == FirstHigh[i] \div 4
             g == FirstHigh[i] % 4
             k == IF i < 3 THEN FirstHigh[i + 1] % 4 ELSE 0
         IN  /\ e \in Nat /\ g \in 0 .. 3 /\ k \in 0 .. 3
             /\ FirstHigh[i] = 4 * e + g
             /\ FirstSum[i] = Low(a[i]) + (4 * e + g) + (e + k * q)
             /\ FirstSum[i] \in Nat /\ FirstSum[i] <= 3 * Base
<1> DEFINE q == 2^(WordBits - 2)
           h == FirstHigh[i]
           e == h \div 4
           g == h % 4
           k == IF i < 3 THEN FirstHigh[i + 1] % 4 ELSE 0
           l == Low(a[i])
           u == IF i < 3 THEN Low(FirstHigh[i + 1] * q) ELSE 0
<1>1. q \in Nat \ {0} /\ Base = 4 * q /\ Base \in Nat /\ Base >= 64 /\ Base * Base >= 64 * Base /\ Base * Base \in Nat
  BY Parts, Weights, Z3
<1>2. e \in Nat /\ g \in 0 .. 3 /\ h = 4 * e + g /\ e <= q - 1
  <2>1. h \in 0 .. Base - 1
    BY FirstHighWords, Zenon
  <2> HIDE DEF h, q
  <2>2. PICK e1 \in Nat, g1 \in 0 .. 3 : h = 4 * e1 + g1 /\ h \div 4 = e1 /\ h % 4 = g1 /\ e1 <= q - 1
    BY <2>1, QuarterParts, Zenon DEF q
  <2> QED BY <2>2, Zenon
<1>3. k \in 0 .. 3 /\ u = k * q
  <2>1. CASE i < 3
    <3> DEFINE z == FirstHigh[i + 1]
    <3>1. i + 1 \in 0 .. 3
      BY <2>1
    <3>2. z \in 0 .. Base - 1
      BY <3>1, FirstHighWords, Zenon
    <3> HIDE DEF z, q
    <3>3. PICK e1 \in Nat, g1 \in 0 .. 3 : z % 4 = g1 /\ Low(z * q) = g1 * q
      BY <3>2, QuarterParts, Zenon DEF q
    <3>4. k = z % 4 /\ u = Low(z * q)
      BY <2>1, Zenon DEF z
    <3> QED BY <3>3, <3>4, Zenon
  <2>2. CASE ~(i < 3)
    <3>1. k = 0 /\ u = 0
      BY <2>2, Zenon
    <3> HIDE DEF k, u, q
    <3> QED BY <1>1, <3>1
  <2> QED BY <2>1, <2>2, Zenon
<1>4. l \in 0 .. Base - 1
  <2>1. a[i] \in Nat
    OBVIOUS
  <2> QED BY <2>1, LowHigh, Zenon
<1>5. FirstSum[i] = Cut(l + h + (e + u))
  <2>1. i \in 0 .. 7 /\ i < 4
    OBVIOUS
  <2>2. FirstSum[i] = Cut(LeastSignificant(a)[i] + FirstHigh[i] + FirstShifted(i))
    BY <2>1, Zenon DEF FirstSum
  <2>3. LeastSignificant(a)[i] = l
    <3>1. DOMAIN a = 0 .. 7
      OBVIOUS
    <3> HIDE DEF l
    <3>2. i \in DOMAIN a
      BY <2>1, <3>1, Zenon
    <3> QED BY <2>1, <3>2, Z3 DEF LeastSignificant, l
  <2>4. FirstShifted(i) = e + u
    BY Zenon DEF FirstShifted
  <2> QED BY <2>2, <2>3, <2>4, Zenon
<1> HIDE DEF e, g, k, l, u, q, h
<1> DEFINE x == l + (4 * e + g) + (e + k * q)
<1>6. x \in Nat /\ x <= 3 * Base /\ x < Base * Base
  <2>1. k * q \in Nat /\ k * q <= 3 * q
    BY <1>1, <1>3, Z3
  <2> DEFINE kq == k * q
             sq == Base * Base
  <2>2. kq \in Nat /\ kq <= 3 * q /\ sq \in Nat /\ sq >= 64 * Base
    BY <1>1, <2>1
  <2> HIDE DEF kq, sq
  <2>3. l + (4 * e + g) + (e + kq) \in Nat /\ l + (4 * e + g) + (e + kq) <= 3 * Base /\ l + (4 * e + g) + (e + kq) < sq
    BY <1>1, <1>2, <1>4, <2>2
  <2> QED BY <2>3 DEF kq, sq
<1>7. FirstSum[i] = Cut(x)
  BY <1>2, <1>3, <1>5, Zenon
<1> HIDE DEF x
<1>8. Cut(x) = x
  BY <1>6, LowHigh, Zenon
<1>9. FirstSum[i] = x
  BY <1>7, <1>8, Zenon
<1> QED BY <1>2, <1>3, <1>6, <1>9, Zenon DEF x, e, g, k, l, q, h

\* The first pass takes away a multiple of P.
LEMMA FirstPassValue ==
  ASSUME a \in [0 .. 7 -> Nat]
  PROVE  /\ FirstSum \in [0 .. 7 -> Nat]
         /\ \A i \in 0 .. 3 : FirstSum[i] <= 3 * Base
         /\ FirstSum[4] \in 0 .. 3
         /\ Number(FirstSum, 5) \in Nat
         /\ \E m \in Nat : Number(Lows(a), 8) = Number(FirstSum, 5) + m * P
<1> DEFINE q == 2^(WordBits - 2)
           h(i) == FirstHigh[i]
           e(i) == h(i) \div 4
           g(i) == h(i) % 4
           k(i) == IF i < 3 THEN g(i + 1) ELSE 0
           l(i) == Low(a[i])
           w(i) == Weight(i)
           t == Two(a[4])
<1>1. q \in Nat /\ Base = 4 * q /\ Base \in Nat
  BY Parts, Weights
<1>2. \A i \in 0 .. 3 : /\ e(i) \in Nat /\ g(i) \in Nat /\ k(i) \in Nat /\ h(i) = 4 * e(i) + g(i)
                        /\ FirstSum[i] = l(i) + (4 * e(i) + g(i)) + (e(i) + k(i) * q)
                        /\ FirstSum[i] \in Nat /\ FirstSum[i] <= 3 * Base
  <2> SUFFICES ASSUME NEW i \in 0 .. 3
               PROVE  /\ e(i) \in Nat /\ g(i) \in Nat /\ k(i) \in Nat /\ h(i) = 4 * e(i) + g(i)
                      /\ FirstSum[i] = l(i) + (4 * e(i) + g(i)) + (e(i) + k(i) * q)
                      /\ FirstSum[i] \in Nat /\ FirstSum[i] <= 3 * Base
    BY Zenon
  <2>1. \A j \in 0 .. 3 : j \in Nat
    OBVIOUS
  <2> QED BY <2>1, FirstSumWord, Zenon
<1>3. /\ 0 \in 0 .. 3 /\ 1 \in 0 .. 3 /\ 2 \in 0 .. 3 /\ 3 \in 0 .. 3
      /\ 0 < 3 /\ 1 < 3 /\ 2 < 3 /\ ~(3 < 3) /\ 0 + 1 = 1 /\ 1 + 1 = 2 /\ 2 + 1 = 3 /\ 3 + 1 = 4 /\ 4 + 1 = 5
      /\ \A i \in 0 .. 4 : i \in 0 .. 7 /\ i \in Nat
      /\ \A i \in 0 .. 3 : i \in 0 .. 4
  OBVIOUS
<1>4. /\ FirstSum \in [0 .. 7 -> Nat] /\ FirstSum[4] = t /\ t \in 0 .. 3
  <2>1. \A i \in 0 .. 7 : LeastSignificant(a)[i] \in Nat
    <3> SUFFICES ASSUME NEW i \in 0 .. 7 PROVE LeastSignificant(a)[i] \in Nat
      BY Zenon
    <3>1. DOMAIN a = 0 .. 7 /\ a[i] \in Nat
      OBVIOUS
    <3>2. Low(a[i]) \in 0 .. Base - 1 /\ Two(a[i]) \in 0 .. 3
      BY <3>1, LowHigh, TwoParts, Zenon
    <3>3. Low(a[i]) \in Nat /\ Two(a[i]) \in Nat
      BY <3>2, <1>1
    <3> QED BY <3>1, <3>3, Z3 DEF LeastSignificant
  <2>2. \A i \in 0 .. 7 : FirstSum[i] \in Nat
    <3>1. \A i \in 0 .. 7 : i \in 0 .. 3 \/ ~(i < 4)
      OBVIOUS
    <3>2. \A i \in 0 .. 7 : ~(i < 4) => FirstSum[i] = LeastSignificant(a)[i]
      BY Zenon DEF FirstSum
    <3> HIDE DEF e, g, k, l, h, q
    <3>3. \A i \in 0 .. 3 : FirstSum[i] \in Nat
      BY <1>2, Zenon
    <3> QED BY <2>1, <3>1, <3>2, <3>3, Zenon
  <2>3. FirstSum[4] = t
    <3>1. 4 \in 0 .. 7 /\ ~(4 < 4) /\ 4 = 4 /\ 4 \in DOMAIN a
      OBVIOUS
    <3>2. FirstSum[4] = LeastSignificant(a)[4]
      BY <3>1, Zenon DEF FirstSum
    <3>3. LeastSignificant(a)[4] = Two(a[4])
      BY <3>1, Z3 DEF LeastSignificant
    <3> QED BY <3>2, <3>3, Zenon
  <2>4. t \in 0 .. 3
    BY FirstHighWords, Zenon
  <2>5. FirstSum \in [0 .. 7 -> Nat]
    <3>1. FirstSum = [i \in 0 .. 7 |-> FirstSum[i]]
      BY Zenon DEF FirstSum
    <3> QED BY <2>2, <3>1, Zenon
  <2> QED BY <2>3, <2>4, <2>5
<1> DEFINE upper == [i \in 0 .. 3 |-> Lows(a)[4 + i]]
<1>5. /\ h(0) % 4 = 0 /\ g(0) = 0
      /\ upper[0] = h(0) + t /\ upper[1] = h(1) /\ upper[2] = h(2) /\ upper[3] = h(3)
  <2>1. /\ h(0) % 4 = 0 /\ Low(a[4]) = h(0) + t /\ Low(a[5]) = h(1) /\ Low(a[6]) = h(2) /\ Low(a[7]) = h(3)
    BY FirstHighWords, Zenon
  <2>2. 4 + 0 = 4 /\ 4 + 1 = 5 /\ 4 + 2 = 6 /\ 4 + 3 = 7 /\ 4 \in 0 .. 7 /\ 5 \in 0 .. 7 /\ 6 \in 0 .. 7 /\ 7 \in 0 .. 7
    OBVIOUS
  <2>3. upper[0] = Low(a[4]) /\ upper[1] = Low(a[5]) /\ upper[2] = Low(a[6]) /\ upper[3] = Low(a[7])
    BY <1>3, <2>2, Zenon DEF Lows
  <2> QED BY <2>1, <2>3, Zenon
<1>6. \A i \in 0 .. 7 : l(i) \in Nat /\ Lows(a)[i] = l(i)
  <2> SUFFICES ASSUME NEW i \in 0 .. 7 PROVE l(i) \in Nat /\ Lows(a)[i] = l(i)
    BY Zenon
  <2>1. a[i] \in Nat
    OBVIOUS
  <2>2. l(i) \in 0 .. Base - 1
    BY <2>1, LowHigh, Zenon
  <2>3. l(i) \in Nat
    BY <1>1, <2>2
  <2> QED BY <2>3, Zenon DEF Lows
<1>7. /\ \A i \in 0 .. 4 : w(i) \in Nat
      /\ w(0) = 1 /\ w(1) = Base * w(0) /\ w(2) = Base * w(1) /\ w(3) = Base * w(2)
  BY <1>3, Weights, Zenon
<1>8. /\ FourWords(Lows(a)) /\ Halved(Lows(a)) /\ FourWords(FirstSum) /\ NextWord(FirstSum, 4)
      /\ Number(FirstSum, 4) \in Nat /\ Number(Lows(a), 4) \in Nat
  <2>1. \A i \in 0 .. 7 : Lows(a)[i] \in Nat
    BY <1>6, Zenon
  <2>2. \A i \in 0 .. 7 : FirstSum[i] \in Nat
    BY <1>4, Zenon
  <2>3. \A i \in 0 .. 3 : i \in 0 .. 7
    OBVIOUS
  <2>4. 4 \in Nat
    OBVIOUS
  <2> QED BY <1>3, <2>1, <2>2, <2>3, <2>4, NumberFour, NumberEight, NumberNext, Zenon
<1>9. FourWords(upper) /\ Number(upper, 4) \in Nat
  <2>1. \A i \in 0 .. 3 : upper[i] = Lows(a)[4 + i] /\ 4 + i \in 0 .. 7
    OBVIOUS
  <2>2. \A i \in 0 .. 3 : upper[i] \in Nat
    <3> HIDE DEF upper
    <3> QED BY <1>6, <2>1, Zenon
  <2> HIDE DEF upper
  <2> QED BY <2>2, NumberFour, Zenon
<1>10. \A i \in 0 .. 3 :
         /\ FirstSum[i] * w(i) = l(i) * w(i) + 5 * (e(i) * w(i)) + g(i) * w(i) + k(i) * (q * w(i))
         /\ h(i) * w(i) = 4 * (e(i) * w(i)) + g(i) * w(i)
         /\ k(i) * (Base * w(i)) = 4 * (k(i) * (q * w(i)))
         /\ l(i) * w(i) \in Nat /\ e(i) * w(i) \in Nat /\ g(i) * w(i) \in Nat /\ k(i) * (q * w(i)) \in Nat
  <2> SUFFICES ASSUME NEW i \in 0 .. 3
               PROVE  /\ FirstSum[i] * w(i) = l(i) * w(i) + 5 * (e(i) * w(i)) + g(i) * w(i) + k(i) * (q * w(i))
                      /\ h(i) * w(i) = 4 * (e(i) * w(i)) + g(i) * w(i)
                      /\ k(i) * (Base * w(i)) = 4 * (k(i) * (q * w(i)))
                      /\ l(i) * w(i) \in Nat /\ e(i) * w(i) \in Nat /\ g(i) * w(i) \in Nat /\ k(i) * (q * w(i)) \in Nat
    BY Zenon
  <2> DEFINE li == l(i)
             ei == e(i)
             gi == g(i)
             ki == k(i)
             wi == w(i)
             hi == h(i)
             xi == FirstSum[i]
  <2>1. li \in Nat /\ ei \in Nat /\ gi \in Nat /\ ki \in Nat /\ wi \in Nat /\ q \in Nat /\ Base = 4 * q
        /\ hi = 4 * ei + gi /\ xi = li + (4 * ei + gi) + (ei + ki * q)
    <3>1. i \in 0 .. 7 /\ i \in 0 .. 4
      OBVIOUS
    <3> HIDE DEF e, g, k, h, q, w, l
    <3> QED BY <1>1, <1>2, <1>6, <1>7, <3>1, Zenon
  <2> HIDE DEF e, g, k, h, q, w, l
  <2> HIDE DEF li, ei, gi, ki, wi, hi, xi
  <2>2. /\ (li + (4 * ei + gi) + (ei + ki * q)) * wi = li * wi + 5 * (ei * wi) + gi * wi + ki * (q * wi)
        /\ (4 * ei + gi) * wi = 4 * (ei * wi) + gi * wi
        /\ ki * ((4 * q) * wi) = 4 * (ki * (q * wi))
        /\ li * wi \in Nat /\ ei * wi \in Nat /\ gi * wi \in Nat /\ ki * (q * wi) \in Nat
    BY <2>1, PassWord
  <2>3. /\ xi * wi = li * wi + 5 * (ei * wi) + gi * wi + ki * (q * wi)
        /\ hi * wi = 4 * (ei * wi) + gi * wi
        /\ ki * (Base * wi) = 4 * (ki * (q * wi))
    BY <2>1, <2>2, Zenon
  <2> QED BY <2>2, <2>3, Zenon DEF li, ei, gi, ki, wi, hi, xi
<1>11. k(0) = g(1) /\ k(1) = g(2) /\ k(2) = g(3) /\ k(3) = 0
  BY <1>3, Zenon
<1> DEFINE L(i) == l(i) * w(i)
           E(i) == e(i) * w(i)
           G(i) == g(i) * w(i)
           K(i) == k(i) * (q * w(i))
           X(i) == FirstSum[i] * w(i)
           H(i) == h(i) * w(i)
           U(i) == upper[i] * w(i)
<1> DEFINE S == E(0) + K(0) + E(1) + K(1) + E(2) + K(2) + E(3) + K(3)
<1>12. \A i \in 0 .. 3 : /\ X(i) = L(i) + 5 * E(i) + G(i) + K(i) /\ H(i) = 4 * E(i) + G(i)
                         /\ L(i) \in Nat /\ E(i) \in Nat /\ G(i) \in Nat /\ K(i) \in Nat
  <2> HIDE DEF e, g, k, h, q, w, l
  <2> QED BY <1>10, Zenon
<1>13. 4 * K(0) = G(1) /\ 4 * K(1) = G(2) /\ 4 * K(2) = G(3) /\ K(3) = 0 /\ G(0) = 0
  <2>1. 4 * K(0) = G(1) /\ 4 * K(1) = G(2) /\ 4 * K(2) = G(3)
    <3> HIDE DEF e, g, k, h, q, w, l
    <3>1. k(0) * (Base * w(0)) = 4 * K(0) /\ k(1) * (Base * w(1)) = 4 * K(1) /\ k(2) * (Base * w(2)) = 4 * K(2)
      BY <1>3, <1>10, Zenon
    <3> QED BY <1>7, <1>11, <3>1, Zenon
  <2>2. K(3) = 0 * (q * w(3)) /\ G(0) = 0 * w(0)
    BY <1>5, <1>11, Zenon
  <2>3. q * w(3) \in Nat /\ w(0) \in Nat
    <3>1. w(3) \in Nat /\ w(0) \in Nat
      BY <1>3, <1>7, Zenon
    <3> HIDE DEF q, w
    <3> QED BY <1>1, <3>1, Times
  <2> DEFINE qw == q * w(3)
             w0 == w(0)
  <2>4. 0 * qw = 0 /\ 0 * w0 = 0
    <3>1. qw \in Nat /\ w0 \in Nat
      BY <2>3
    <3> HIDE DEF qw, w0
    <3> QED BY <3>1
  <2> QED BY <2>1, <2>2, <2>4, Zenon
<1>14. /\ Number(FirstSum, 4) = X(0) + X(1) + X(2) + X(3) /\ Number(Lows(a), 4) = L(0) + L(1) + L(2) + L(3)
       /\ Number(upper, 4) = U(0) + U(1) + U(2) + U(3)
       /\ U(0) = (h(0) + t) * w(0) /\ U(1) = H(1) /\ U(2) = H(2) /\ U(3) = H(3)
  <2>1. \A i \in 0 .. 3 : i \in 0 .. 7
    OBVIOUS
  <2>2. Lows(a)[0] = l(0) /\ Lows(a)[1] = l(1) /\ Lows(a)[2] = l(2) /\ Lows(a)[3] = l(3)
    BY <1>3, <1>6, <2>1, Zenon
  <2> HIDE DEF e, g, k, h, q, l, upper
  <2> QED BY <1>5, <1>8, <1>9, <2>2, Zenon DEF FourWords
<1>15. U(0) = H(0) + t /\ t \in Nat
  <2>1. h(0) \in Nat /\ t \in Nat
    <3>1. h(0) \in 0 .. Base - 1 /\ t \in 0 .. 3
      BY <1>3, FirstHighWords, Zenon
    <3> QED BY <1>1, <3>1
  <2> DEFINE h0 == h(0)
  <2>2. U(0) = (h0 + t) * 1 /\ H(0) = h0 * 1 /\ h0 \in Nat
    BY <1>7, <1>14, <2>1, Zenon
  <2> HIDE DEF h0, t, U, H
  <2>3. (h0 + t) * 1 = h0 * 1 + t
    BY <2>1, <2>2
  <2> QED BY <2>1, <2>2, <2>3, Zenon
<1>16. /\ S \in Nat /\ Number(upper, 4) = 4 * S + t
       /\ Number(FirstSum, 4) = Number(Lows(a), 4) + 5 * S
  <2> DEFINE L0 == L(0)
             L1 == L(1)
             L2 == L(2)
             L3 == L(3)
             E0 == E(0)
             E1 == E(1)
             E2 == E(2)
             E3 == E(3)
             G0 == G(0)
             G1 == G(1)
             G2 == G(2)
             G3 == G(3)
             K0 == K(0)
             K1 == K(1)
             K2 == K(2)
             K3 == K(3)
             X0 == X(0)
             X1 == X(1)
             X2 == X(2)
             X3 == X(3)
             H0 == H(0)
             H1 == H(1)
             H2 == H(2)
             H3 == H(3)
             x4 == Number(FirstSum, 4)
             l4 == Number(Lows(a), 4)
             u4 == Number(upper, 4)
  <2>1. /\ X0 = L0 + 5 * E0 + G0 + K0 /\ X1 = L1 + 5 * E1 + G1 + K1 /\ X2 = L2 + 5 * E2 + G2 + K2 /\ X3 = L3 + 5 * E3 + G3 + K3
        /\ H0 = 4 * E0 + G0 /\ H1 = 4 * E1 + G1 /\ H2 = 4 * E2 + G2 /\ H3 = 4 * E3 + G3
        /\ L0 \in Nat /\ L1 \in Nat /\ L2 \in Nat /\ L3 \in Nat /\ E0 \in Nat /\ E1 \in Nat /\ E2 \in Nat /\ E3 \in Nat
        /\ G0 \in Nat /\ G1 \in Nat /\ G2 \in Nat /\ G3 \in Nat /\ K0 \in Nat /\ K1 \in Nat /\ K2 \in Nat /\ K3 \in Nat
    <3> HIDE DEF L, E, G, K, X, H
    <3> QED BY <1>3, <1>12, Zenon
  <2>2. 4 * K0 = G1 /\ 4 * K1 = G2 /\ 4 * K2 = G3 /\ K3 = 0 /\ G0 = 0
    BY <1>13, Zenon
  <2>3. x4 = X0 + X1 + X2 + X3 /\ l4 = L0 + L1 + L2 + L3 /\ u4 = (H0 + t) + H1 + H2 + H3
    BY <1>14, <1>15, Zenon
  <2>4. S = E0 + K0 + E1 + K1 + E2 + K2 + E3 + K3
    BY Zenon
  <2> HIDE DEF S, t, L0, L1, L2, L3, E0, E1, E2, E3, G0, G1, G2, G3, K0, K1, K2, K3, X0, X1, X2, X3, H0, H1, H2, H3, x4, l4, u4
  <2>5. S \in Nat /\ u4 = 4 * S + t
    BY <1>15, <2>1, <2>2, <2>3, <2>4
  <2>6. x4 = l4 + 5 * S
    BY <1>15, <2>1, <2>2, <2>3, <2>4
  <2> QED BY <2>5, <2>6, Zenon DEF x4, l4, u4
<1>17. Number(FirstSum, 5) = Number(FirstSum, 4) + t * Weight(4) /\ t * Weight(4) \in Nat
  <2>1. Weight(4) \in Nat
    BY Modulus
  <2>2. Number(FirstSum, 5) = Number(FirstSum, 4) + FirstSum[4] * Weight(4)
    BY <1>3, <1>8, Zenon DEF NextWord
  <2> QED BY <1>4, <1>15, <2>1, <2>2, Times
<1>18. Number(Lows(a), 8) = Number(Lows(a), 4) + Weight(4) * Number(upper, 4)
  BY <1>8, Zenon DEF Halved
<1>19. Number(Lows(a), 8) = Number(FirstSum, 5) + S * P
  <2> DEFINE v == Weight(4)
             x4 == Number(FirstSum, 4)
             x5 == Number(FirstSum, 5)
             l4 == Number(Lows(a), 4)
             l8 == Number(Lows(a), 8)
  <2>1. l8 = l4 + v * (4 * S + t) /\ x4 = l4 + 5 * S /\ x5 = x4 + t * v
    BY <1>16, <1>17, <1>18, Zenon
  <2>2. v \in Nat /\ P = 4 * v - 5 /\ S \in Nat /\ t \in Nat /\ l4 \in Nat
    BY <1>8, <1>15, <1>16, Modulus
  <2> HIDE DEF v, x4, x5, l4, l8, S, t, P
  <2> DEFINE vs == v * S
             vt == v * t
  <2>3. v * (4 * S + t) = 4 * vs + vt /\ t * v = vt /\ vs \in Nat /\ vt \in Nat
    BY <2>2, Z3
  <2>4. S * (4 * v - 5) = 4 * vs - 5 * S
    BY <2>2, Z3
  <2> HIDE DEF vs, vt
  <2>5. l8 = x5 + (4 * vs - 5 * S)
    BY <2>1, <2>2, <2>3
  <2> QED BY <2>2, <2>4, <2>5, Zenon DEF x5, l8
<1>20. Number(FirstSum, 5) \in Nat
  BY <1>8, <1>17
<1>21. \A i \in 0 .. 3 : FirstSum[i] <= 3 * Base
  <2> HIDE DEF e, g, k, l, h, q
  <2> QED BY <1>2, Zenon
<1> HIDE DEF S
<1> QED BY <1>4, <1>16, <1>19, <1>20, <1>21, Zenon

\* FirstPass leaves five words, the fifth at most 6, of the same value modulo P.
LEMMA FirstPassRight ==
  ASSUME a \in [0 .. 7 -> Nat]
  PROVE  LET c == Carried(FirstSum, 4)
         IN  /\ c \in [0 .. 7 -> Nat] /\ c[4] \in 0 .. 6 /\ Wide(c) \in Nat
             /\ Congruent(Number(Lows(a), 8), Wide(c), P)
<1> DEFINE x == FirstSum
           c == Carried(x, 4)
<1>1. /\ x \in [0 .. 7 -> Nat] /\ x[0] <= 3 * Base /\ x[1] <= 3 * Base /\ x[2] <= 3 * Base /\ x[3] <= 3 * Base
      /\ x[4] \in 0 .. 3 /\ Number(x, 5) \in Nat
  <2>1. 0 \in 0 .. 3 /\ 1 \in 0 .. 3 /\ 2 \in 0 .. 3 /\ 3 \in 0 .. 3
    OBVIOUS
  <2> QED BY <2>1, FirstPassValue, Zenon
<1>2. PICK m \in Nat : Number(Lows(a), 8) = Number(x, 5) + m * P
  BY FirstPassValue, Zenon
<1> HIDE DEF x
<1>3. Base \in Nat /\ Base >= 64 /\ Base * Base \in Nat /\ Base * Base >= 64 * Base
  BY Weights, Z3
<1>4. /\ x[0] <= Base * Base - Base /\ x[1] <= Base * Base - Base /\ x[2] <= Base * Base - Base
      /\ x[3] <= Base * Base - Base /\ x[4] <= Base
  <2> DEFINE sq == Base * Base
  <2>1. sq \in Nat /\ sq >= 64 * Base
    BY <1>3
  <2> HIDE DEF sq
  <2>2. \A y \in Nat : y <= 3 * Base => y <= sq - Base
    BY <1>3, <2>1
  <2>3. x[0] \in Nat /\ x[1] \in Nat /\ x[2] \in Nat /\ x[3] \in Nat
    BY <1>1
  <2>4. x[0] <= sq - Base /\ x[1] <= sq - Base /\ x[2] <= sq - Base /\ x[3] <= sq - Base
    BY <1>1, <2>2, <2>3, Zenon
  <2>5. x[4] <= Base
    BY <1>1, <1>3
  <2> QED BY <2>4, <2>5, Zenon DEF sq
<1>5. /\ c \in [0 .. 7 -> Nat] /\ Wide(c) = Number(x, 5) /\ Wide(c) \in Nat
      /\ c[4] = x[4] + High(c[3]) /\ c[3] = x[3] + High(c[2])
      /\ High(c[3]) \in 0 .. Base - 1 /\ High(c[2]) \in 0 .. Base - 1
  BY <1>1, <1>4, CarriedFive, Zenon
<1> HIDE DEF c
<1>6. c[4] \in 0 .. 6
  <2> DEFINE h == High(c[3])
             l == Low(c[3])
             y == c[3]
             u == High(c[2])
  <2>1. y \in Nat /\ h \in Nat /\ y = h * Base + l /\ l \in 0 .. Base - 1
    <3>1. c[3] \in Nat
      BY <1>5
    <3> QED BY <3>1, LowHigh, Zenon
  <2>2. y = x[3] + u /\ u \in 0 .. Base - 1 /\ x[3] \in Nat /\ x[3] <= 3 * Base
    BY <1>1, <1>5
  <2> HIDE DEF h, l, y, u
  <2>3. h * Base < 4 * Base
    <3>1. h * Base \in Nat
      BY <1>3, <2>1, Times
    <3> DEFINE hb == h * Base
    <3>2. hb \in Nat /\ y = hb + l
      BY <2>1, <3>1
    <3> HIDE DEF hb
    <3>3. hb < 4 * Base
      BY <1>3, <2>1, <2>2, <3>2
    <3> QED BY <3>3 DEF hb
  <2>4. h <= 3
    <3>1. SUFFICES ASSUME h >= 4 PROVE FALSE
      BY <2>1
    <3>2. h * Base >= 4 * Base
      BY <1>3, <2>1, <3>1, Z3
    <3>3. h * Base \in Nat
      BY <1>3, <2>1, Times
    <3> QED BY <1>3, <2>3, <3>2, <3>3
  <2>5. c[4] = x[4] + h
    BY <1>5, Zenon DEF h
  <2> QED BY <1>1, <2>1, <2>4, <2>5
<1>7. Congruent(Number(Lows(a), 8), Wide(c), P)
  <2> DEFINE y == Wide(c)
  <2>1. y \in Nat /\ Number(Lows(a), 8) = y + m * P /\ P \in Nat \ {0}
    BY <1>2, <1>5, Modulus, Zenon
  <2> HIDE DEF y
  <2>2. Congruent(y + m * P, y, P)
    BY <2>1, CongruentMore, Zenon
  <2> QED BY <2>1, <2>2, Zenon DEF y
<1> QED BY <1>5, <1>6, <1>7, Zenon DEF c, x

-----------------------------------------------------------------------------
(* The second pass.                                                        *)

\* Numbers of words that are words.
LEMMA NumberBound ==
  ASSUME NEW x, NEW n \in Nat, \A i \in 0 .. n - 1 : x[i] \in Word
  PROVE  Number(x, n) \in 0 .. Weight(n) - 1
<1>1. WordBits \in Nat /\ 0 \in Nat
  BY Sizes
<1>2. \A m \in 0 .. n - 1 : x[0 + m] \in 0 .. 2^WordBits - 1
  <2>1. \A m \in 0 .. n - 1 : 0 + m = m
    OBVIOUS
  <2> QED BY <2>1, Zenon DEF Word
<1>3. LittleEndian(WordBits, x, 0, n) \in 0 .. 2^(WordBits * n) - 1
  BY <1>1, <1>2, LittleBound, Zenon
<1> QED BY <1>3, Zenon DEF Number, Weight

\* Equal words make equal numbers.
Agree(x, y, n) == Number(x, n) = Number(y, n)

LEMMA NumberSame ==
  ASSUME NEW x, NEW y, NEW n \in Nat, \A i \in 0 .. n - 1 : x[i] \in Nat /\ y[i] = x[i]
  PROVE  Agree(x, y, n)
<1>1. \A i \in 0 .. n - 1 : 0 + i = i
  OBVIOUS
<1>2. WordBits \in Nat /\ 0 \in Nat
  BY Sizes
<1>3. DigitsFrom(x, 0, n) /\ SameDigits(x, 0, y, 0, n)
  BY <1>1, Zenon DEF DigitsFrom, SameDigits
<1>4. SameNumber(WordBits, x, 0, y, 0, n)
  BY <1>2, <1>3, LittleSame, Zenon
<1> QED BY <1>4, Zenon DEF SameNumber, Agree, Number

\* The words that are left of a sum.
LEMMA LeastWords ==
  ASSUME NEW x \in [0 .. 7 -> Nat]
  PROVE  LET d == LeastSignificant(x)
         IN  /\ d \in [0 .. 7 -> Nat] /\ d[4] = Two(x[4])
             /\ \A i \in 0 .. 3 : d[i] = Low(x[i]) /\ d[i] \in Word
             /\ Number(d, 4) = Number(Lows(x), 4) /\ Number(d, 4) \in 0 .. Weight(4) - 1
<1> DEFINE d == LeastSignificant(x)
           v(i) == CASE i < 4 -> Low(x[i]) [] i = 4 -> Two(x[i]) [] i > 4 -> x[i]
<1>1. DOMAIN x = 0 .. 7 /\ \A i \in 0 .. 7 : x[i] \in Nat
  OBVIOUS
<1>2. d = [i \in 0 .. 7 |-> v(i)]
  BY <1>1, Zenon DEF LeastSignificant
<1>3. \A i \in 0 .. 7 : Low(x[i]) \in 0 .. Base - 1 /\ Two(x[i]) \in 0 .. 3
  BY <1>1, LowHigh, TwoParts, Zenon
<1>4. Base \in Nat /\ Word = 0 .. Base - 1
  BY Weights, Zenon
<1>5. ASSUME NEW i \in 0 .. 7
      PROVE  d[i] = v(i) /\ v(i) \in Nat
  <2>1. x[i] \in Nat /\ Low(x[i]) \in Nat /\ Two(x[i]) \in Nat
    <3>1. \A n : (n \in 0 .. Base - 1 \/ n \in 0 .. 3) => n \in Nat
      BY <1>4
    <3> QED BY <1>1, <1>3, <3>1, Zenon
  <2>2. v(i) \in Nat
    BY <2>1, Z3
  <2> HIDE DEF v, d
  <2> QED BY <1>2, <2>2, Zenon
<1>6. d \in [0 .. 7 -> Nat]
  <2> HIDE DEF v, d
  <2> QED BY <1>2, <1>5, Zenon
<1>7. v(4) = Two(x[4]) /\ \A i \in 0 .. 3 : v(i) = Low(x[i])
  BY Z3
<1> HIDE DEF v
<1>8. \A i \in 0 .. 3 : i \in 0 .. 7 /\ 4 \in 0 .. 7 /\ 4 \in Nat
  OBVIOUS
<1>9. d[4] = Two(x[4])
  <2>1. 4 \in 0 .. 7
    OBVIOUS
  <2> HIDE DEF d
  <2> QED BY <1>5, <1>7, <2>1, Zenon
<1> HIDE DEF d
<1>10. \A i \in 0 .. 3 : d[i] = Low(x[i]) /\ d[i] \in Word
  <2>1. \A i \in 0 .. 3 : d[i] = Low(x[i])
    BY <1>5, <1>7, <1>8, Zenon
  <2>2. \A i \in 0 .. 3 : Low(x[i]) \in Word
    BY <1>3, <1>4, <1>8, Zenon
  <2> QED BY <2>1, <2>2, Zenon
<1>11. Agree(d, Lows(x), 4) /\ Number(d, 4) \in 0 .. Weight(4) - 1
  <2>1. \A i \in 0 .. 4 - 1 : i \in 0 .. 3
    OBVIOUS
  <2>2. \A i \in 0 .. 4 - 1 : d[i] \in Nat /\ Lows(x)[i] = d[i]
    BY <1>5, <1>8, <1>10, <2>1, Zenon DEF Lows
  <2>3. \A i \in 0 .. 4 - 1 : d[i] \in Word
    BY <1>10, <2>1, Zenon
  <2>4. 4 \in Nat
    OBVIOUS
  <2> QED BY <2>2, <2>3, <2>4, NumberSame, NumberBound, Zenon
<1> QED BY <1>6, <1>9, <1>10, <1>11, Zenon DEF Agree, d

\* SecondPass, before its carries.
SecondSum == [LeastSignificant(a) EXCEPT ![0] = Cut(@ + AboveTwo(a[4]) + AboveTwo(a[4]) \div 4)]

\* The second takes P away once if that is needed, and leaves 130 bits.
LEMMA SecondPassRight ==
  ASSUME a \in [0 .. 7 -> Nat], a[4] \in 0 .. 6
  PROVE  LET d == LeastSignificant(Carried(SecondSum, 4))
         IN  /\ d \in [0 .. 7 -> Nat] /\ d[4] \in 0 .. 3 /\ \A i \in 0 .. 3 : d[i] \in Word
             /\ Number(d, 5) \in Nat
             /\ Congruent(Wide(a), Number(d, 5), P)
             /\ Roomy(SecondSum)
<1> DEFINE low == LeastSignificant(a)
           x == SecondSum
           h == AboveTwo(a[4])
           t == Two(a[4])
           z == h \div 4
           c == Carried(x, 4)
           d == LeastSignificant(c)
           v == Weight(4)
           n == Number(low, 4)
<1>1. Base \in Nat /\ Base >= 64 /\ Base * Base \in Nat /\ Base * Base >= 64 * Base
  BY Weights, Z3
<1>2. /\ low \in [0 .. 7 -> Nat] /\ low[4] = t
      /\ \A i \in 0 .. 3 : low[i] = Low(a[i]) /\ low[i] \in Word
      /\ n = Number(Lows(a), 4) /\ n \in 0 .. v - 1
  BY LeastWords, Zenon
<1>3. v \in Nat /\ v >= 64 /\ P = 4 * v - 5 /\ P \in Nat \ {0} /\ n \in Nat
  BY <1>2, Modulus
<1>4. z \in {0, 1} /\ h = 4 * z /\ t \in 0 .. 3 /\ a[4] = 4 * z + t
  <2> DEFINE u == a[4]
  <2>1. u \in Nat /\ u \in 0 .. 6 /\ u < Base
    BY <1>1
  <2>2. h \in 0 .. Base - 1 /\ h % 4 = 0 /\ h <= u /\ t \in 0 .. 3 /\ Low(u) = h + t
    BY <2>1, TwoParts, Zenon
  <2>3. Low(u) = u
    BY <2>1, LowHigh, Zenon
  <2>4. u = h + t /\ h \in Nat
    <3>1. h \in Nat
      BY <1>1, <2>2
    <3> QED BY <2>2, <2>3, <3>1, Zenon
  <2> HIDE DEF h, t, u
  <2>5. z \in {0, 1} /\ h = 4 * z
    BY <2>1, <2>2, <2>4
  <2> QED BY <2>2, <2>4, <2>5 DEF u
<1> HIDE DEF low, h, t, n
<1>5. /\ x \in [0 .. 7 -> Nat] /\ x[0] = low[0] + 5 * z /\ x[4] = t
      /\ \A i \in 1 .. 3 : x[i] = low[i]
      /\ \A i \in 0 .. 3 : low[i] \in Nat /\ low[i] <= Base - 1
  <2>1. \A i \in 0 .. 3 : low[i] \in Nat /\ low[i] <= Base - 1
    <3>1. \A k \in Word : k \in Nat /\ k <= Base - 1
      BY <1>1, Weights
    <3> QED BY <1>2, <3>1, Zenon
  <2>2. x = [low EXCEPT ![0] = Cut(low[0] + h + z)]
    BY Zenon DEF SecondSum, low, h
  <2> DEFINE y == low[0] + 5 * z
             sq == Base * Base
  <2>3. y \in Nat /\ y < sq
    <3>1. 0 \in 0 .. 3
      OBVIOUS
    <3>2. low[0] \in Nat /\ low[0] <= Base - 1
      BY <2>1, <3>1, Zenon
    <3>3. sq \in Nat /\ sq >= 64 * Base
      BY <1>1
    <3> HIDE DEF sq, z
    <3> QED BY <1>1, <1>4, <3>2, <3>3
  <2>4. low[0] + h + z = y
    <3>1. low[0] \in Nat
      BY <2>1
    <3> HIDE DEF z
    <3> QED BY <1>4, <3>1
  <2> HIDE DEF y, sq, z
  <2>5. Cut(y) = y
    BY <2>3, LowHigh, Zenon DEF sq
  <2>6. x = [low EXCEPT ![0] = y]
    BY <2>2, <2>4, <2>5, Zenon
  <2> HIDE DEF x
  <2>7. x \in [0 .. 7 -> Nat] /\ x[0] = y /\ x[4] = low[4] /\ \A i \in 1 .. 3 : x[i] = low[i]
    BY <1>2, <2>3, <2>6
  <2> QED BY <1>2, <2>1, <2>7, Zenon DEF y
<1> HIDE DEF x, z
<1>6. /\ x[0] <= Base * Base - Base /\ x[1] <= Base * Base - Base /\ x[2] <= Base * Base - Base
      /\ x[3] <= Base * Base - Base /\ x[4] <= Base
  <2> DEFINE sq == Base * Base
  <2>1. sq \in Nat /\ sq >= 64 * Base
    BY <1>1
  <2> HIDE DEF sq
  <2>2. 0 \in 0 .. 3 /\ 1 \in 0 .. 3 /\ 2 \in 0 .. 3 /\ 3 \in 0 .. 3 /\ 1 \in 1 .. 3 /\ 2 \in 1 .. 3 /\ 3 \in 1 .. 3
    OBVIOUS
  <2>3. \A y \in Nat : y <= Base - 1 => y <= sq - Base /\ y + 5 * z <= sq - Base
    BY <1>1, <1>4, <2>1
  <2>4. x[0] <= sq - Base /\ x[1] <= sq - Base /\ x[2] <= sq - Base /\ x[3] <= sq - Base
    BY <1>5, <2>2, <2>3, Zenon
  <2>5. x[4] <= Base
    BY <1>1, <1>4, <1>5
  <2> QED BY <2>4, <2>5, Zenon DEF sq
<1>7. /\ c \in [0 .. 7 -> Nat] /\ Wide(c) = Number(x, 5)
      /\ c[4] = x[4] + High(c[3]) /\ High(c[3]) \in 0 .. Base - 1
      /\ Number(Lows(c), 4) + High(c[3]) * Weight(4) = Number(x, 4)
  BY <1>5, <1>6, CarriedFive, Zenon
<1> HIDE DEF c
<1>8. /\ d \in [0 .. 7 -> Nat] /\ d[4] = Two(c[4]) /\ (\A i \in 0 .. 3 : d[i] \in Word)
      /\ Number(d, 4) = Number(Lows(c), 4) /\ Number(d, 4) \in 0 .. v - 1
  BY <1>7, LeastWords, Zenon
<1> HIDE DEF d
<1>9. Number(x, 4) = n + 5 * z
  <2>1. FourWords(x) /\ FourWords(low)
    <3>1. \A i \in 0 .. 3 : x[i] \in Nat
      BY <1>5
    <3>2. \A i \in 0 .. 3 : low[i] \in Nat
      BY <1>5, Zenon
    <3> QED BY <3>1, <3>2, NumberFour, Zenon
  <2>2. \A i \in 0 .. 3 : low[i] * Weight(i) \in Nat
    <3>1. \A i \in 0 .. 3 : low[i] \in Nat
      BY <1>5, Zenon
    <3> QED BY <3>1, NumberFour, Zenon
  <2> DEFINE y0 == low[0]
             y1 == low[1] * Weight(1)
             y2 == low[2] * Weight(2)
             y3 == low[3] * Weight(3)
  <2>3. 0 \in 0 .. 3 /\ 1 \in 0 .. 3 /\ 2 \in 0 .. 3 /\ 3 \in 0 .. 3 /\ 1 \in 1 .. 3 /\ 2 \in 1 .. 3 /\ 3 \in 1 .. 3
    OBVIOUS
  <2>4. y0 \in Nat /\ y1 \in Nat /\ y2 \in Nat /\ y3 \in Nat
    BY <1>5, <2>2, <2>3, Zenon
  <2>5. Number(x, 4) = (y0 + 5 * z) * 1 + y1 + y2 + y3 /\ n = y0 * 1 + y1 + y2 + y3
    BY <1>5, <2>1, <2>3, Weights, Zenon DEF FourWords, n
  <2> HIDE DEF y0, y1, y2, y3
  <2> QED BY <1>4, <2>4, <2>5
<1>10. Number(x, 5) = Number(x, 4) + t * v
  <2>1. 4 \in Nat /\ 4 + 1 = 5 /\ \A i \in 0 .. 4 : x[i] \in Nat
    BY <1>5
  <2>2. NextWord(x, 4)
    BY <2>1, NumberNext, Zenon
  <2> QED BY <1>5, <2>1, <2>2, Zenon DEF NextWord
<1>11. c[4] \in 0 .. 3 /\ d[4] = c[4]
  <2> DEFINE k == High(c[3])
             y == Number(d, 4)
  <2>1. k \in Nat /\ y \in Nat /\ y + k * v = n + 5 * z /\ n <= v - 1
    <3>1. y + k * v = n + 5 * z
      BY <1>7, <1>8, <1>9, Zenon
    <3>2. n \in 0 .. v - 1
      BY <1>2, Zenon
    <3> QED BY <1>1, <1>3, <1>7, <1>8, <3>1, <3>2
  <2>2. c[4] = t + k
    BY <1>5, <1>7, Zenon
  <2> HIDE DEF k, y, v
  <2>3. k \in {0, 1} /\ (z = 0 => k = 0)
    <3>1. k * v \in Nat
      BY <1>3, <2>1, Times
    <3>2. k * v < 2 * v /\ (z = 0 => k * v < v)
      <4> DEFINE kv == k * v
      <4>1. kv \in Nat /\ y + kv = n + 5 * z
        BY <2>1, <3>1
      <4> HIDE DEF kv
      <4>2. kv < 2 * v /\ (z = 0 => kv < v)
        BY <1>3, <1>4, <2>1, <4>1
      <4> QED BY <4>2 DEF kv
    <3>3. k >= 2 => k * v >= 2 * v
      BY <1>3, <2>1, Z3
    <3>4. k = 1 => k * v = v
      BY <1>3
    <3> QED BY <1>3, <2>1, <3>1, <3>2, <3>3, <3>4
  <2>4. t + k \in 0 .. 3
    <3>1. 4 * z + t \in 0 .. 6
      BY <1>4
    <3> QED BY <1>4, <2>3, <3>1
  <2>5. c[4] \in 0 .. 3
    BY <2>2, <2>4
  <2>6. Two(c[4]) = c[4]
    BY <2>5 DEF Two
  <2> QED BY <1>8, <2>5, <2>6, Zenon
<1>12. Number(d, 5) = Wide(c) /\ Number(d, 5) \in Nat
  <2>1. 4 \in Nat /\ 4 + 1 = 5 /\ 5 \in Nat /\ \A i \in 0 .. 4 : d[i] \in Nat
    BY <1>8
  <2>2. NextWord(d, 4)
    BY <2>1, NumberNext, Zenon
  <2>3. Number(d, 5) = Number(d, 4) + d[4] * Weight(4)
    BY <2>1, <2>2, Zenon DEF NextWord
  <2>4. Number(d, 5) = Wide(c)
    BY <1>8, <1>11, <2>3, Zenon DEF Wide
  <2>5. Number(d, 4) \in Nat /\ d[4] * Weight(4) \in Nat
    BY <1>3, <1>8, <1>11, Z3
  <2> QED BY <2>3, <2>4, <2>5
<1>13. Wide(a) = Number(d, 5) + z * P
  <2> DEFINE y == Number(d, 5)
             w == Wide(a)
             av == a[4]
  <2>1. w = n + av * v
    BY <1>2, Zenon DEF Wide
  <2>2. y = (n + 5 * z) + t * v
    BY <1>7, <1>9, <1>10, <1>12, Zenon
  <2>3. av = 4 * z + t
    BY <1>4, Zenon
  <2> HIDE DEF y, w, av, v
  <2>4. (4 * z + t) * v = 4 * (z * v) + t * v /\ z * v \in Nat /\ t * v \in Nat /\ z * (4 * v - 5) = 4 * (z * v) - 5 * z
    BY <1>3, <1>4, Z3
  <2>5. w = y + z * (4 * v - 5)
    BY <1>3, <1>4, <2>1, <2>2, <2>3, <2>4
  <2> QED BY <1>3, <2>5, Zenon DEF y, w
<1>14. Congruent(Wide(a), Number(d, 5), P)
  <2> DEFINE y == Number(d, 5)
  <2>1. y \in Nat /\ z \in Nat
    BY <1>4, <1>12
  <2> HIDE DEF y
  <2>2. Congruent(y + z * P, y, P)
    BY <1>3, <2>1, CongruentMore, Zenon
  <2> QED BY <1>13, <2>2, Zenon DEF y
<1>15. d[4] \in 0 .. 3
  BY <1>11, Zenon
<1>16. Roomy(x)
  BY <1>5, <1>6, Zenon DEF Roomy
<1> QED BY <1>8, <1>12, <1>14, <1>15, <1>16, Zenon DEF d, c, x

-----------------------------------------------------------------------------
(* The product of the accumulator and r: no column leaves a double word.   *)

\* A column of the product, and the columns.
Product(i, k) == IF k - i \in 0 .. 3 THEN Low(a[i]) * r[k - i] ELSE 0
Column(k) == Product(0, k) + Product(1, k) + Product(2, k) + Product(3, k) + Product(4, k)
ProductSum == [k \in 0 .. 7 |-> Cut(Column(k))]

\* What multiplication finds: words, the fifth of which is small, and a clamped factor.
Factors ==
  /\ a \in [0 .. 7 -> Nat] /\ a[4] \in 0 .. 5
  /\ r \in [0 .. 3 -> Nat] /\ \A j \in 0 .. 3 : r[j] < 2^(WordBits - TopClear)

Term(i, j) == Low(a[i]) * r[j]

\* Bounds of the terms, for Base = 8 * e.
Bounded(m, e) ==
  /\ Base = 8 * e /\ m = (Base - 1) * (e - 1)
  /\ \A i \in 0 .. 4 : \A j \in 0 .. 3 : Term(i, j) \in 0 .. m
  /\ \A j \in 0 .. 3 : Term(4, j) \in 0 .. 5 * (e - 1)

\* A clamped word of r leaves room for five products in a double word.
LEMMA TermBounds ==
  ASSUME Factors
  PROVE  \E e \in Nat \ {0}, m \in Nat : Bounded(m, e)
<1>1. PICK e \in Nat \ {0} : Base = 8 * e /\ 2^(WordBits - TopClear) <= e
  BY Parts
<1>2. Base \in Nat /\ Base >= 64 /\ 2^(WordBits - TopClear) \in Nat
  BY Weights, Parts
<1> DEFINE m == (Base - 1) * (e - 1)
<1>3. m \in Nat /\ Base - 1 \in Nat /\ e - 1 \in Nat
  <2>1. Base - 1 \in Nat /\ e - 1 \in Nat
    BY <1>1, <1>2
  <2> QED BY <2>1, Times
<1>4. \A j \in 0 .. 3 : r[j] \in Nat /\ r[j] <= e - 1
  <2> SUFFICES ASSUME NEW j \in 0 .. 3 PROVE r[j] \in Nat /\ r[j] <= e - 1
    OBVIOUS
  <2>1. r[j] \in Nat /\ r[j] < 2^(WordBits - TopClear)
    BY DEF Factors
  <2> QED BY <1>1, <1>2, <2>1
<1>5. \A i \in 0 .. 4 : Low(a[i]) \in Nat /\ Low(a[i]) <= Base - 1
  <2>1. \A i \in 0 .. 4 : a[i] \in Nat
    BY DEF Factors
  <2>2. \A i \in 0 .. 4 : Low(a[i]) \in 0 .. Base - 1
    BY <2>1, LowHigh, Zenon
  <2>3. \A n \in 0 .. Base - 1 : n \in Nat /\ n <= Base - 1
    BY <1>2
  <2> QED BY <2>2, <2>3, Zenon
<1>6. Low(a[4]) = a[4] /\ a[4] \in Nat /\ a[4] <= 5
  <2>1. a[4] \in Nat /\ a[4] < Base /\ a[4] <= 5
    BY <1>2 DEF Factors
  <2> QED BY <2>1, LowHigh, Zenon
<1>7. ASSUME NEW i \in 0 .. 4, NEW j \in 0 .. 3 PROVE Term(i, j) \in 0 .. m
  <2> DEFINE x == Low(a[i])
             y == r[j]
             b == Base - 1
             d == e - 1
  <2>1. x \in Nat /\ y \in Nat /\ b \in Nat /\ d \in Nat /\ x <= b /\ y <= d
    BY <1>3, <1>4, <1>5, Zenon
  <2> HIDE DEF x, y, b, d
  <2>2. x * y <= b * d /\ x * y \in Nat /\ b * d \in Nat
    BY <2>1, TimesSmall, Times
  <2>3. x * y \in 0 .. b * d
    <3> DEFINE p == x * y
               l == b * d
    <3>1. p \in Nat /\ l \in Nat /\ p <= l
      BY <2>2
    <3> HIDE DEF p, l
    <3>2. p \in 0 .. l
      BY <3>1
    <3> QED BY <3>2 DEF p, l
  <2> QED BY <2>3, Zenon DEF Term, x, y, b, d
<1>8. ASSUME NEW j \in 0 .. 3 PROVE Term(4, j) \in 0 .. 5 * (e - 1)
  <2> DEFINE x == Low(a[4])
             y == r[j]
             d == e - 1
  <2>1. x \in Nat /\ y \in Nat /\ 5 \in Nat /\ d \in Nat /\ x <= 5 /\ y <= d
    <3>1. 5 \in Nat
      OBVIOUS
    <3> QED BY <1>3, <1>4, <1>6, <3>1, Zenon
  <2> HIDE DEF x, y, d
  <2>2. x * y <= 5 * d /\ x * y \in Nat
    BY <2>1, TimesSmall, Times
  <2>3. x * y \in 0 .. 5 * d
    BY <2>1, <2>2
  <2> QED BY <2>3, Zenon DEF Term, x, y, d
<1> QED BY <1>1, <1>3, <1>7, <1>8, Zenon DEF Bounded

\* The columns, written out.
Columns ==
  /\ Column(0) = Term(0, 0)
  /\ Column(1) = Term(0, 1) + Term(1, 0)
  /\ Column(2) = Term(0, 2) + Term(1, 1) + Term(2, 0)
  /\ Column(3) = Term(0, 3) + Term(1, 2) + Term(2, 1) + Term(3, 0)
  /\ Column(4) = Term(1, 3) + Term(2, 2) + Term(3, 1) + Term(4, 0)
  /\ Column(5) = Term(2, 3) + Term(3, 2) + Term(4, 1)
  /\ Column(6) = Term(3, 3) + Term(4, 2)
  /\ Column(7) = Term(4, 3)

LEMMA ColumnTerms ==
  ASSUME \A i \in 0 .. 4 : \A j \in 0 .. 3 : Term(i, j) \in Nat
  PROVE  Columns
<1>1. \A i, k : Product(i, k) = IF k - i \in 0 .. 3 THEN Term(i, k - i) ELSE 0
  BY Zenon DEF Product, Term
<1>2. ASSUME NEW k \in 0 .. 7
      PROVE  Column(k) = (IF k - 0 \in 0 .. 3 THEN Term(0, k - 0) ELSE 0) + (IF k - 1 \in 0 .. 3 THEN Term(1, k - 1) ELSE 0)
                         + (IF k - 2 \in 0 .. 3 THEN Term(2, k - 2) ELSE 0) + (IF k - 3 \in 0 .. 3 THEN Term(3, k - 3) ELSE 0)
                         + (IF k - 4 \in 0 .. 3 THEN Term(4, k - 4) ELSE 0)
  BY <1>1, Zenon DEF Column
<1> DEFINE t00 == Term(0, 0)
           t01 == Term(0, 1)
           t02 == Term(0, 2)
           t03 == Term(0, 3)
           t10 == Term(1, 0)
           t11 == Term(1, 1)
           t12 == Term(1, 2)
           t13 == Term(1, 3)
           t20 == Term(2, 0)
           t21 == Term(2, 1)
           t22 == Term(2, 2)
           t23 == Term(2, 3)
           t30 == Term(3, 0)
           t31 == Term(3, 1)
           t32 == Term(3, 2)
           t33 == Term(3, 3)
           t40 == Term(4, 0)
           t41 == Term(4, 1)
           t42 == Term(4, 2)
           t43 == Term(4, 3)
<1>3. /\ t00 \in Nat /\ t01 \in Nat /\ t02 \in Nat /\ t03 \in Nat /\ t10 \in Nat /\ t11 \in Nat /\ t12 \in Nat /\ t13 \in Nat
      /\ t20 \in Nat /\ t21 \in Nat /\ t22 \in Nat /\ t23 \in Nat /\ t30 \in Nat /\ t31 \in Nat /\ t32 \in Nat /\ t33 \in Nat
      /\ t40 \in Nat /\ t41 \in Nat /\ t42 \in Nat /\ t43 \in Nat
  <2>1. 0 \in 0 .. 4 /\ 1 \in 0 .. 4 /\ 2 \in 0 .. 4 /\ 3 \in 0 .. 4 /\ 4 \in 0 .. 4 /\ 0 \in 0 .. 3 /\ 1 \in 0 .. 3 /\ 2 \in 0 .. 3 /\ 3 \in 0 .. 3
    OBVIOUS
  <2> QED BY <2>1, Zenon
<1>4. /\ 0 - 0 = 0 /\ 0 \in 0 .. 3 /\ 0 - 1 \notin 0 .. 3 /\ 0 - 2 \notin 0 .. 3 /\ 0 - 3 \notin 0 .. 3 /\ 0 - 4 \notin 0 .. 3
      /\ 1 - 0 = 1 /\ 1 - 1 = 0 /\ 1 - 2 \notin 0 .. 3 /\ 1 - 3 \notin 0 .. 3 /\ 1 - 4 \notin 0 .. 3
      /\ 2 - 0 = 2 /\ 2 - 1 = 1 /\ 2 - 2 = 0 /\ 2 - 3 \notin 0 .. 3 /\ 2 - 4 \notin 0 .. 3
      /\ 3 - 0 = 3 /\ 3 - 1 = 2 /\ 3 - 2 = 1 /\ 3 - 3 = 0 /\ 3 - 4 \notin 0 .. 3
      /\ 4 - 0 \notin 0 .. 3 /\ 4 - 1 = 3 /\ 4 - 2 = 2 /\ 4 - 3 = 1 /\ 4 - 4 = 0
      /\ 5 - 0 \notin 0 .. 3 /\ 5 - 1 \notin 0 .. 3 /\ 5 - 2 = 3 /\ 5 - 3 = 2 /\ 5 - 4 = 1
      /\ 6 - 0 \notin 0 .. 3 /\ 6 - 1 \notin 0 .. 3 /\ 6 - 2 \notin 0 .. 3 /\ 6 - 3 = 3 /\ 6 - 4 = 2
      /\ 7 - 0 \notin 0 .. 3 /\ 7 - 1 \notin 0 .. 3 /\ 7 - 2 \notin 0 .. 3 /\ 7 - 3 \notin 0 .. 3 /\ 7 - 4 = 3
      /\ 1 \in 0 .. 3 /\ 2 \in 0 .. 3 /\ 3 \in 0 .. 3
  OBVIOUS
<1>5. 0 \in 0 .. 7 /\ 1 \in 0 .. 7 /\ 2 \in 0 .. 7 /\ 3 \in 0 .. 7 /\ 4 \in 0 .. 7 /\ 5 \in 0 .. 7 /\ 6 \in 0 .. 7 /\ 7 \in 0 .. 7
  OBVIOUS
<1>6. Column(0) = t00 + 0 + 0 + 0 + 0
  <2>1. Product(0, 0) = t00
    <3>1. 0 - 0 \in 0 .. 3 /\ 0 - 0 = 0
      OBVIOUS
    <3>2. Product(0, 0) = Term(0, 0 - 0)
      BY <3>1, Zenon DEF Product, Term
    <3> QED BY <3>1, <3>2, Zenon
  <2>2. Product(1, 0) = 0 /\ Product(2, 0) = 0 /\ Product(3, 0) = 0 /\ Product(4, 0) = 0
    BY <1>4, Zenon DEF Product
  <2> QED BY <2>1, <2>2, Zenon DEF Column
<1>7. Column(1) = t01 + t10 + 0 + 0 + 0
  <2>1. /\ 1 \in 0 .. 7 /\ 1 - 0 = 1 /\ 1 \in 0 .. 3 /\ 1 - 1 = 0 /\ 0 \in 0 .. 3
        /\ 1 - 2 \notin 0 .. 3 /\ 1 - 3 \notin 0 .. 3 /\ 1 - 4 \notin 0 .. 3
    OBVIOUS
  <2> QED BY <1>2, <2>1, Zenon
<1>8. Column(2) = t02 + t11 + t20 + 0 + 0
  <2>1. /\ 2 \in 0 .. 7 /\ 2 - 0 = 2 /\ 2 \in 0 .. 3 /\ 2 - 1 = 1 /\ 1 \in 0 .. 3
        /\ 2 - 2 = 0 /\ 0 \in 0 .. 3 /\ 2 - 3 \notin 0 .. 3 /\ 2 - 4 \notin 0 .. 3
    OBVIOUS
  <2> QED BY <1>2, <2>1, Zenon
<1>9. Column(3) = t03 + t12 + t21 + t30 + 0
  <2>1. /\ 3 \in 0 .. 7 /\ 3 - 0 = 3 /\ 3 \in 0 .. 3 /\ 3 - 1 = 2 /\ 2 \in 0 .. 3
        /\ 3 - 2 = 1 /\ 1 \in 0 .. 3 /\ 3 - 3 = 0 /\ 0 \in 0 .. 3 /\ 3 - 4 \notin 0 .. 3
    OBVIOUS
  <2> QED BY <1>2, <2>1, Zenon
<1>10. Column(4) = 0 + t13 + t22 + t31 + t40
  <2>1. /\ 4 \in 0 .. 7 /\ 4 - 0 \notin 0 .. 3 /\ 4 - 1 = 3 /\ 3 \in 0 .. 3
        /\ 4 - 2 = 2 /\ 2 \in 0 .. 3 /\ 4 - 3 = 1 /\ 1 \in 0 .. 3 /\ 4 - 4 = 0 /\ 0 \in 0 .. 3
    OBVIOUS
  <2> QED BY <1>2, <2>1, Zenon
<1>11. Column(5) = 0 + 0 + t23 + t32 + t41
  <2>1. /\ 5 \in 0 .. 7 /\ 5 - 0 \notin 0 .. 3 /\ 5 - 1 \notin 0 .. 3
        /\ 5 - 2 = 3 /\ 3 \in 0 .. 3 /\ 5 - 3 = 2 /\ 2 \in 0 .. 3 /\ 5 - 4 = 1 /\ 1 \in 0 .. 3
    OBVIOUS
  <2> QED BY <1>2, <2>1, Zenon
<1>12. Column(6) = 0 + 0 + 0 + t33 + t42
  <2>1. /\ 6 \in 0 .. 7 /\ 6 - 0 \notin 0 .. 3 /\ 6 - 1 \notin 0 .. 3
        /\ 6 - 2 \notin 0 .. 3 /\ 6 - 3 = 3 /\ 3 \in 0 .. 3 /\ 6 - 4 = 2 /\ 2 \in 0 .. 3
    OBVIOUS
  <2> QED BY <1>2, <2>1, Zenon
<1>13. Column(7) = 0 + 0 + 0 + 0 + t43
  <2>1. /\ 7 \in 0 .. 7 /\ 7 - 0 \notin 0 .. 3 /\ 7 - 1 \notin 0 .. 3
        /\ 7 - 2 \notin 0 .. 3 /\ 7 - 3 \notin 0 .. 3 /\ 7 - 4 = 3 /\ 3 \in 0 .. 3
    OBVIOUS
  <2> QED BY <1>2, <2>1, Zenon
<1> HIDE DEF t00, t01, t02, t03, t10, t11, t12, t13, t20, t21, t22, t23, t30, t31, t32, t33, t40, t41, t42, t43
<1>14. /\ Column(0) = t00 /\ Column(1) = t01 + t10 /\ Column(2) = t02 + t11 + t20
       /\ Column(3) = t03 + t12 + t21 + t30 /\ Column(4) = t13 + t22 + t31 + t40
       /\ Column(5) = t23 + t32 + t41 /\ Column(6) = t33 + t42 /\ Column(7) = t43
  BY <1>3, <1>6, <1>7, <1>8, <1>9, <1>10, <1>11, <1>12, <1>13
<1> QED BY <1>14, Zenon DEF Columns, t00, t01, t02, t03, t10, t11, t12, t13, t20, t21, t22, t23, t30, t31, t32, t33, t40, t41, t42, t43

\* The columns fit into double words, and the two upper ones into what the carries leave them.
LEMMA ProductWords ==
  ASSUME Factors
  PROVE  /\ ProductSum \in [0 .. 7 -> Nat] /\ \A k \in 0 .. 7 : ProductSum[k] <= Base * Base - Base
         /\ \A k \in 0 .. 7 : ProductSum[k] = Column(k)
         /\ Columns
         /\ \E e \in Nat \ {0} : /\ Base = 8 * e /\ ProductSum[7] <= 5 * (e - 1)
                                /\ ProductSum[6] + Base <= (e + 1) * Base
<1>1. PICK e \in Nat \ {0}, m \in Nat : Bounded(m, e)
  BY TermBounds, Zenon
<1> DEFINE sq == Base * Base
           be == Base * e
<1>2. Base \in Nat /\ Base >= 64 /\ sq \in Nat /\ be \in Nat /\ Base = 8 * e /\ sq = 8 * be /\ m = be - Base - e + 1
  <2>1. Base \in Nat /\ Base >= 64
    BY Weights
  <2>2. Base = 8 * e /\ m = (Base - 1) * (e - 1)
    BY <1>1 DEF Bounded
  <2>3. Base * (8 * e) = 8 * (Base * e)
    BY <2>1, Z3
  <2>4. (Base - 1) * (e - 1) = Base * e - Base - e + 1
    BY <2>1, Z3
  <2>5. sq \in Nat /\ be \in Nat
    BY <2>1, Times
  <2> QED BY <2>1, <2>2, <2>3, <2>4, <2>5
<1> HIDE DEF sq, be
<1>3. \A i \in 0 .. 4 : \A j \in 0 .. 3 : Term(i, j) \in Nat /\ Term(i, j) <= m
  <2>1. \A t \in 0 .. m : t \in Nat /\ t <= m
    OBVIOUS
  <2> QED BY <1>1, <2>1, Zenon DEF Bounded
<1>4. Columns
  BY <1>3, ColumnTerms, Zenon
<1> DEFINE t00 == Term(0, 0)
           t01 == Term(0, 1)
           t02 == Term(0, 2)
           t03 == Term(0, 3)
           t10 == Term(1, 0)
           t11 == Term(1, 1)
           t12 == Term(1, 2)
           t13 == Term(1, 3)
           t20 == Term(2, 0)
           t21 == Term(2, 1)
           t22 == Term(2, 2)
           t23 == Term(2, 3)
           t30 == Term(3, 0)
           t31 == Term(3, 1)
           t32 == Term(3, 2)
           t33 == Term(3, 3)
           t40 == Term(4, 0)
           t41 == Term(4, 1)
           t42 == Term(4, 2)
           t43 == Term(4, 3)
<1>5. /\ t00 \in Nat /\ t01 \in Nat /\ t02 \in Nat /\ t03 \in Nat
      /\ t10 \in Nat /\ t11 \in Nat /\ t12 \in Nat /\ t13 \in Nat
      /\ t20 \in Nat /\ t21 \in Nat /\ t22 \in Nat /\ t23 \in Nat
      /\ t30 \in Nat /\ t31 \in Nat /\ t32 \in Nat /\ t33 \in Nat
      /\ t40 \in Nat /\ t41 \in Nat /\ t42 \in Nat /\ t43 \in Nat
      /\ t00 <= m /\ t01 <= m /\ t02 <= m /\ t03 <= m
      /\ t10 <= m /\ t11 <= m /\ t12 <= m /\ t13 <= m
      /\ t20 <= m /\ t21 <= m /\ t22 <= m /\ t23 <= m
      /\ t30 <= m /\ t31 <= m /\ t32 <= m /\ t33 <= m
      /\ t40 <= m /\ t41 <= m /\ t42 <= m /\ t43 <= m
  <2>1. 0 \in 0 .. 4 /\ 1 \in 0 .. 4 /\ 2 \in 0 .. 4 /\ 3 \in 0 .. 4 /\ 4 \in 0 .. 4 /\ 0 \in 0 .. 3 /\ 1 \in 0 .. 3 /\ 2 \in 0 .. 3 /\ 3 \in 0 .. 3
    OBVIOUS
  <2> QED BY <1>3, <2>1, Zenon
<1>6. t42 <= 5 * (e - 1) /\ t43 <= 5 * (e - 1)
  <2>1. 2 \in 0 .. 3 /\ 3 \in 0 .. 3 /\ \A t \in 0 .. 5 * (e - 1) : t <= 5 * (e - 1)
    OBVIOUS
  <2> QED BY <1>1, <2>1, Zenon DEF Bounded
<1>7. /\ Column(0) = t00
      /\ Column(1) = t01 + t10
      /\ Column(2) = t02 + t11 + t20
      /\ Column(3) = t03 + t12 + t21 + t30
      /\ Column(4) = t13 + t22 + t31 + t40
      /\ Column(5) = t23 + t32 + t41
      /\ Column(6) = t33 + t42
      /\ Column(7) = t43
  BY <1>4, Zenon DEF Columns
<1> HIDE DEF t00, t01, t02, t03, t10, t11, t12, t13, t20, t21, t22, t23, t30, t31, t32, t33, t40, t41, t42, t43
<1>8. \A k \in 0 .. 7 : Column(k) \in Nat /\ Column(k) <= sq - Base /\ Column(k) < sq
  <2>1. Column(0) \in Nat /\ Column(0) <= 4 * m
    BY <1>5, <1>7
  <2>2. Column(1) \in Nat /\ Column(1) <= 4 * m
    BY <1>5, <1>7
  <2>3. Column(2) \in Nat /\ Column(2) <= 4 * m
    BY <1>5, <1>7
  <2>4. Column(3) \in Nat /\ Column(3) <= 4 * m
    BY <1>5, <1>7
  <2>5. Column(4) \in Nat /\ Column(4) <= 4 * m
    BY <1>5, <1>7
  <2>6. Column(5) \in Nat /\ Column(5) <= 4 * m
    BY <1>5, <1>7
  <2>7. Column(6) \in Nat /\ Column(6) <= 4 * m
    BY <1>5, <1>7
  <2>8. Column(7) \in Nat /\ Column(7) <= 4 * m
    BY <1>5, <1>7
  <2>9. \A x \in Nat : x <= 4 * m => x <= sq - Base /\ x < sq
    BY <1>2
  <2>10. \A k \in 0 .. 7 : k = 0 \/ k = 1 \/ k = 2 \/ k = 3 \/ k = 4 \/ k = 5 \/ k = 6 \/ k = 7
    OBVIOUS
  <2> QED BY <2>1, <2>2, <2>3, <2>4, <2>5, <2>6, <2>7, <2>8, <2>9, <2>10, Zenon
<1>9. \A k \in 0 .. 7 : ProductSum[k] = Column(k)
  <2>1. \A n \in Nat : n < sq => Cut(n) = n
    BY LowHigh, Zenon DEF sq
  <2> QED BY <1>8, <2>1, Zenon DEF ProductSum
<1>10. ProductSum \in [0 .. 7 -> Nat] /\ \A k \in 0 .. 7 : ProductSum[k] <= sq - Base
  <2>1. ProductSum = [k \in 0 .. 7 |-> ProductSum[k]]
    BY Zenon DEF ProductSum
  <2> QED BY <1>8, <1>9, <2>1, Zenon
<1>11. ProductSum[7] <= 5 * (e - 1) /\ ProductSum[6] + Base <= (e + 1) * Base
  <2>1. ProductSum[7] = t43 /\ ProductSum[6] = t33 + t42
    <3>1. 6 \in 0 .. 7 /\ 7 \in 0 .. 7
      OBVIOUS
    <3> QED BY <1>7, <1>9, <3>1, Zenon
  <2>2. (e + 1) * Base = be + Base
    BY <1>2, Z3 DEF be
  <2> QED BY <1>2, <1>5, <1>6, <2>1, <2>2
<1> QED BY <1>2, <1>4, <1>9, <1>10, <1>11, Zenon DEF sq

\* The eight words of the product.
EightWords(x) ==
  Number(x, 8) = x[0] * Weight(0) + x[1] * Weight(1) + x[2] * Weight(2) + x[3] * Weight(3)
                 + x[4] * Weight(4) + x[5] * Weight(5) + x[6] * Weight(6) + x[7] * Weight(7)

LEMMA NumberWords ==
  ASSUME NEW x, \A i \in 0 .. 7 : x[i] \in Nat
  PROVE  /\ EightWords(x) /\ Number(x, 5) = Number(x, 4) + x[4] * Weight(4)
         /\ FourWords(x) /\ Number(x, 4) \in Nat /\ Number(x, 8) \in Nat
<1>1. /\ \A n \in 0 .. 7 : n \in Nat /\ \A i \in 0 .. n : i \in 0 .. 7
      /\ \A i \in 0 .. 3 : i \in 0 .. 7
  OBVIOUS
<1>2. FourWords(x) /\ Number(x, 4) \in Nat
  BY <1>1, NumberFour, Zenon
<1>3. 4 \in 0 .. 7 /\ 5 \in 0 .. 7 /\ 6 \in 0 .. 7 /\ 7 \in 0 .. 7 /\ 4 + 1 = 5 /\ 5 + 1 = 6 /\ 6 + 1 = 7 /\ 7 + 1 = 8
  OBVIOUS
<1>4. \A n \in 0 .. 7 : NextWord(x, n)
  BY <1>1, NumberNext, Zenon
<1>5. \A n \in 0 .. 7 : Number(x, n + 1) = Number(x, n) + x[n] * Weight(n)
  BY <1>4, Zenon DEF NextWord
<1>6. Number(x, 8) = (((Number(x, 4) + x[4] * Weight(4)) + x[5] * Weight(5)) + x[6] * Weight(6)) + x[7] * Weight(7)
  BY <1>3, <1>5, Zenon
<1>7. Number(x, 5) = Number(x, 4) + x[4] * Weight(4)
  BY <1>3, <1>5, Zenon
<1>8. EightWords(x)
  BY <1>2, <1>6, Zenon DEF EightWords, FourWords
<1>9. Number(x, 8) \in Nat
  <2>1. \A n \in 0 .. 7 : x[n] * Weight(n) \in Nat
    <3>1. \A n \in 0 .. 7 : Weight(n) \in Nat
      BY <1>1, Weights, Zenon
    <3> QED BY <3>1, Times, Zenon
  <2> DEFINE y4 == x[4] * Weight(4)
             y5 == x[5] * Weight(5)
             y6 == x[6] * Weight(6)
             y7 == x[7] * Weight(7)
  <2>2. y4 \in Nat /\ y5 \in Nat /\ y6 \in Nat /\ y7 \in Nat /\ Number(x, 8) = (((Number(x, 4) + y4) + y5) + y6) + y7
    BY <1>3, <1>6, <2>1, Zenon
  <2> HIDE DEF y4, y5, y6, y7
  <2> QED BY <1>2, <2>2
<1> QED BY <1>2, <1>7, <1>8, <1>9, Zenon

\* Words times words, column by column.
LEMMA ProductValue ==
  ASSUME Factors
  PROVE  Number(ProductSum, 8) = Wide(a) * Number(r, 4)
<1>1. Columns /\ ProductSum \in [0 .. 7 -> Nat] /\ \A k \in 0 .. 7 : ProductSum[k] = Column(k)
  BY ProductWords, Zenon
<1>2. \A i \in 0 .. 4 : Low(a[i]) \in Nat
  <2>1. \A i \in 0 .. 4 : a[i] \in Nat
    BY DEF Factors
  <2>2. \A n \in 0 .. Base - 1 : n \in Nat
    BY Weights
  <2> QED BY <2>1, <2>2, LowHigh, Zenon
<1>3. \A j \in 0 .. 3 : r[j] \in Nat
  BY DEF Factors
<1>4. Low(a[4]) = a[4]
  <2>1. a[4] \in Nat /\ a[4] < Base
    <3>1. Base \in Nat /\ Base >= 64
      BY Weights, Zenon
    <3>2. a[4] \in 0 .. 5
      BY Zenon DEF Factors
    <3> QED BY <3>1, <3>2
  <2> QED BY <2>1, LowHigh, Zenon
<1>5. \A i \in 0 .. 7 : i \in Nat /\ Weight(i) \in Nat
  <2>1. \A i \in 0 .. 7 : i \in Nat
    OBVIOUS
  <2> QED BY <2>1, Weights, Zenon
<1> DEFINE A(i) == Low(a[i]) * Weight(i)
           B(j) == r[j] * Weight(j)
           M(i, j) == Term(i, j) * Weight(i + j)
<1>6. ASSUME NEW i \in 0 .. 4, NEW j \in 0 .. 3
      PROVE  A(i) * B(j) = M(i, j) /\ A(i) \in Nat /\ B(j) \in Nat /\ M(i, j) \in Nat /\ Term(i, j) \in Nat
  <2> DEFINE x == Low(a[i])
             y == r[j]
             u == Weight(i)
             v == Weight(j)
  <2>1. i \in Nat /\ j \in Nat /\ i \in 0 .. 7 /\ j \in 0 .. 7
    OBVIOUS
  <2>2. x \in Nat /\ y \in Nat /\ u \in Nat /\ v \in Nat
    BY <1>2, <1>3, <1>5, <2>1, Zenon
  <2>3. Weight(i + j) = u * v
    BY <2>1, WeightSum, Zenon
  <2> HIDE DEF x, y, u, v
  <2>4. (x * u) * (y * v) = (x * y) * (u * v) /\ x * u \in Nat /\ y * v \in Nat /\ x * y \in Nat /\ u * v \in Nat
    BY <2>2, Z3
  <2>5. (x * y) * (u * v) \in Nat
    BY <2>4, Times
  <2> QED BY <2>3, <2>4, <2>5, Zenon DEF x, y, u, v, Term
<1> DEFINE A0 == A(0)
           A1 == A(1)
           A2 == A(2)
           A3 == A(3)
           A4 == A(4)
           B0 == B(0)
           B1 == B(1)
           B2 == B(2)
           B3 == B(3)
           M00 == M(0, 0)
           M01 == M(0, 1)
           M02 == M(0, 2)
           M03 == M(0, 3)
           M10 == M(1, 0)
           M11 == M(1, 1)
           M12 == M(1, 2)
           M13 == M(1, 3)
           M20 == M(2, 0)
           M21 == M(2, 1)
           M22 == M(2, 2)
           M23 == M(2, 3)
           M30 == M(3, 0)
           M31 == M(3, 1)
           M32 == M(3, 2)
           M33 == M(3, 3)
           M40 == M(4, 0)
           M41 == M(4, 1)
           M42 == M(4, 2)
           M43 == M(4, 3)
<1>7. /\ A0 * B0 = M00 /\ A0 * B1 = M01 /\ A0 * B2 = M02 /\ A0 * B3 = M03
      /\ A1 * B0 = M10 /\ A1 * B1 = M11 /\ A1 * B2 = M12 /\ A1 * B3 = M13
      /\ A2 * B0 = M20 /\ A2 * B1 = M21 /\ A2 * B2 = M22 /\ A2 * B3 = M23
      /\ A3 * B0 = M30 /\ A3 * B1 = M31 /\ A3 * B2 = M32 /\ A3 * B3 = M33
      /\ A4 * B0 = M40 /\ A4 * B1 = M41 /\ A4 * B2 = M42 /\ A4 * B3 = M43
      /\ M00 \in Nat /\ M01 \in Nat /\ M02 \in Nat /\ M03 \in Nat
      /\ M10 \in Nat /\ M11 \in Nat /\ M12 \in Nat /\ M13 \in Nat
      /\ M20 \in Nat /\ M21 \in Nat /\ M22 \in Nat /\ M23 \in Nat
      /\ M30 \in Nat /\ M31 \in Nat /\ M32 \in Nat /\ M33 \in Nat
      /\ M40 \in Nat /\ M41 \in Nat /\ M42 \in Nat /\ M43 \in Nat
      /\ A0 \in Nat /\ A1 \in Nat /\ A2 \in Nat /\ A3 \in Nat /\ A4 \in Nat /\ B0 \in Nat /\ B1 \in Nat /\ B2 \in Nat /\ B3 \in Nat
  <2>1. 0 \in 0 .. 4 /\ 1 \in 0 .. 4 /\ 2 \in 0 .. 4 /\ 3 \in 0 .. 4 /\ 4 \in 0 .. 4 /\ 0 \in 0 .. 3 /\ 1 \in 0 .. 3 /\ 2 \in 0 .. 3 /\ 3 \in 0 .. 3
    OBVIOUS
  <2> HIDE DEF A, B, M
  <2> QED BY <1>6, <2>1, Zenon
<1> DEFINE X(k) == ProductSum[k] * Weight(k)
<1>8. /\ X(0) = M00
      /\ X(1) = M01 + M10
      /\ X(2) = M02 + M11 + M20
      /\ X(3) = M03 + M12 + M21 + M30
      /\ X(4) = M13 + M22 + M31 + M40
      /\ X(5) = M23 + M32 + M41
      /\ X(6) = M33 + M42
      /\ X(7) = M43
  <2>1. 0 \in 0 .. 4 /\ 1 \in 0 .. 4 /\ 2 \in 0 .. 4 /\ 3 \in 0 .. 4 /\ 4 \in 0 .. 4 /\ 0 \in 0 .. 3 /\ 1 \in 0 .. 3 /\ 2 \in 0 .. 3 /\ 3 \in 0 .. 3
    OBVIOUS
  <2>2. 0 \in 0 .. 7 /\ 1 \in 0 .. 7 /\ 2 \in 0 .. 7 /\ 3 \in 0 .. 7 /\ 4 \in 0 .. 7 /\ 5 \in 0 .. 7 /\ 6 \in 0 .. 7 /\ 7 \in 0 .. 7
    OBVIOUS
  <2>3. \A i \in 0 .. 4 : \A j \in 0 .. 3 : Term(i, j) \in Nat
    BY <1>6, Zenon
  <2>4. X(0) = M00
    <3>1. ProductSum[0] = Term(0, 0)
      BY <1>1, <2>2, Zenon DEF Columns
    <3>2. 0 + 0 = 0
      OBVIOUS
    <3>3. M00 = Term(0, 0) * Weight(0)
      BY <3>2, Zenon
    <3> QED BY <3>1, <3>3, Zenon
  <2>5. X(1) = M01 + M10
    <3>1. ProductSum[1] = Term(0, 1) + Term(1, 0)
      BY <1>1, <2>2, Zenon DEF Columns
    <3>2. 0 + 1 = 1 /\ 1 + 0 = 1
      OBVIOUS
    <3>3. M01 = Term(0, 1) * Weight(1) /\ M10 = Term(1, 0) * Weight(1)
      BY <3>2, Zenon
    <3> DEFINE p == Term(0, 1)
               q == Term(1, 0)
               w == Weight(1)
    <3>4. p \in Nat /\ q \in Nat /\ w \in Nat
      BY <1>5, <2>1, <2>2, <2>3, Zenon
    <3> HIDE DEF p, q, w
    <3>5. (p + q) * w = p * w + q * w
      BY <3>4, Z3
    <3> QED BY <3>1, <3>3, <3>5, Zenon DEF p, q, w
  <2>6. X(2) = M02 + M11 + M20
    <3>1. ProductSum[2] = Term(0, 2) + Term(1, 1) + Term(2, 0)
      BY <1>1, <2>2, Zenon DEF Columns
    <3>2. 0 + 2 = 2 /\ 1 + 1 = 2 /\ 2 + 0 = 2
      OBVIOUS
    <3>3. M02 = Term(0, 2) * Weight(2) /\ M11 = Term(1, 1) * Weight(2) /\ M20 = Term(2, 0) * Weight(2)
      BY <3>2, Zenon
    <3> DEFINE p == Term(0, 2)
               q == Term(1, 1)
               z == Term(2, 0)
               w == Weight(2)
    <3>4. p \in Nat /\ q \in Nat /\ z \in Nat /\ w \in Nat
      BY <1>5, <2>1, <2>2, <2>3, Zenon
    <3> HIDE DEF p, q, z, w
    <3>5. (p + q + z) * w = p * w + q * w + z * w
      BY <3>4, Z3
    <3> QED BY <3>1, <3>3, <3>5, Zenon DEF p, q, z, w
  <2>7. X(3) = M03 + M12 + M21 + M30
    <3>1. ProductSum[3] = Term(0, 3) + Term(1, 2) + Term(2, 1) + Term(3, 0)
      BY <1>1, <2>2, Zenon DEF Columns
    <3>2. 0 + 3 = 3 /\ 1 + 2 = 3 /\ 2 + 1 = 3 /\ 3 + 0 = 3
      OBVIOUS
    <3>3. M03 = Term(0, 3) * Weight(3) /\ M12 = Term(1, 2) * Weight(3) /\ M21 = Term(2, 1) * Weight(3) /\ M30 = Term(3, 0) * Weight(3)
      BY <3>2, Zenon
    <3> DEFINE p == Term(0, 3)
               q == Term(1, 2)
               z == Term(2, 1)
               y == Term(3, 0)
               w == Weight(3)
    <3>4. p \in Nat /\ q \in Nat /\ z \in Nat /\ y \in Nat /\ w \in Nat
      BY <1>5, <2>1, <2>2, <2>3, Zenon
    <3> HIDE DEF p, q, z, y, w
    <3>5. (p + q + z + y) * w = p * w + q * w + z * w + y * w
      BY <3>4, Z3
    <3> QED BY <3>1, <3>3, <3>5, Zenon DEF p, q, z, y, w
  <2>8. X(4) = M13 + M22 + M31 + M40
    <3>1. ProductSum[4] = Term(1, 3) + Term(2, 2) + Term(3, 1) + Term(4, 0)
      BY <1>1, <2>2, Zenon DEF Columns
    <3>2. 1 + 3 = 4 /\ 2 + 2 = 4 /\ 3 + 1 = 4 /\ 4 + 0 = 4
      OBVIOUS
    <3>3. M13 = Term(1, 3) * Weight(4) /\ M22 = Term(2, 2) * Weight(4) /\ M31 = Term(3, 1) * Weight(4) /\ M40 = Term(4, 0) * Weight(4)
      BY <3>2, Zenon
    <3> DEFINE p == Term(1, 3)
               q == Term(2, 2)
               z == Term(3, 1)
               y == Term(4, 0)
               w == Weight(4)
    <3>4. p \in Nat /\ q \in Nat /\ z \in Nat /\ y \in Nat /\ w \in Nat
      BY <1>5, <2>1, <2>2, <2>3, Zenon
    <3> HIDE DEF p, q, z, y, w
    <3>5. (p + q + z + y) * w = p * w + q * w + z * w + y * w
      BY <3>4, Z3
    <3> QED BY <3>1, <3>3, <3>5, Zenon DEF p, q, z, y, w
  <2>9. X(5) = M23 + M32 + M41
    <3>1. ProductSum[5] = Term(2, 3) + Term(3, 2) + Term(4, 1)
      BY <1>1, <2>2, Zenon DEF Columns
    <3>2. 2 + 3 = 5 /\ 3 + 2 = 5 /\ 4 + 1 = 5
      OBVIOUS
    <3>3. M23 = Term(2, 3) * Weight(5) /\ M32 = Term(3, 2) * Weight(5) /\ M41 = Term(4, 1) * Weight(5)
      BY <3>2, Zenon
    <3> DEFINE p == Term(2, 3)
               q == Term(3, 2)
               z == Term(4, 1)
               w == Weight(5)
    <3>4. p \in Nat /\ q \in Nat /\ z \in Nat /\ w \in Nat
      BY <1>5, <2>1, <2>2, <2>3, Zenon
    <3> HIDE DEF p, q, z, w
    <3>5. (p + q + z) * w = p * w + q * w + z * w
      BY <3>4, Z3
    <3> QED BY <3>1, <3>3, <3>5, Zenon DEF p, q, z, w
  <2>10. X(6) = M33 + M42
    <3>1. ProductSum[6] = Term(3, 3) + Term(4, 2)
      BY <1>1, <2>2, Zenon DEF Columns
    <3>2. 3 + 3 = 6 /\ 4 + 2 = 6
      OBVIOUS
    <3>3. M33 = Term(3, 3) * Weight(6) /\ M42 = Term(4, 2) * Weight(6)
      BY <3>2, Zenon
    <3> DEFINE p == Term(3, 3)
               q == Term(4, 2)
               w == Weight(6)
    <3>4. p \in Nat /\ q \in Nat /\ w \in Nat
      BY <1>5, <2>1, <2>2, <2>3, Zenon
    <3> HIDE DEF p, q, w
    <3>5. (p + q) * w = p * w + q * w
      BY <3>4, Z3
    <3> QED BY <3>1, <3>3, <3>5, Zenon DEF p, q, w
  <2>11. X(7) = M43
    <3>1. ProductSum[7] = Term(4, 3)
      BY <1>1, <2>2, Zenon DEF Columns
    <3>2. 4 + 3 = 7
      OBVIOUS
    <3>3. M43 = Term(4, 3) * Weight(7)
      BY <3>2, Zenon
    <3> QED BY <3>1, <3>3, Zenon
  <2> QED BY <2>4, <2>5, <2>6, <2>7, <2>8, <2>9, <2>10, <2>11, Zenon
<1>9. Number(ProductSum, 8) = X(0) + X(1) + X(2) + X(3) + X(4) + X(5) + X(6) + X(7)
  <2>1. \A i \in 0 .. 7 : ProductSum[i] \in Nat
    BY <1>1, Zenon
  <2> QED BY <2>1, NumberWords, Zenon DEF EightWords
<1>10. Wide(a) = A0 + A1 + A2 + A3 + A4
  <2>1. \A i \in 0 .. 3 : i \in 0 .. 4 /\ i \in 0 .. 7
    OBVIOUS
  <2>2. \A i \in 0 .. 3 : Lows(a)[i] = Low(a[i]) /\ Lows(a)[i] \in Nat
    BY <1>2, <2>1, Zenon DEF Lows
  <2>3. FourWords(Lows(a))
    BY <2>2, NumberFour, Zenon
  <2>4. 0 \in 0 .. 3 /\ 1 \in 0 .. 3 /\ 2 \in 0 .. 3 /\ 3 \in 0 .. 3
    OBVIOUS
  <2> QED BY <1>4, <2>2, <2>3, <2>4, Zenon DEF FourWords, Wide
<1>11. Number(r, 4) = B0 + B1 + B2 + B3
  BY <1>3, NumberFour, Zenon DEF FourWords
<1> HIDE DEF X, A, B, M, A0, A1, A2, A3, A4, B0, B1, B2, B3, M00, M01, M02, M03, M10, M11, M12, M13, M20, M21, M22, M23, M30, M31, M32, M33, M40, M41, M42, M43
<1> DEFINE b == B0 + B1 + B2 + B3
<1>12. b \in Nat
  BY <1>7
<1>13. (A0 + A1 + A2 + A3 + A4) * b = A0 * b + A1 * b + A2 * b + A3 * b + A4 * b
  <2> HIDE DEF b
  <2> QED BY <1>7, <1>12, Z3
<1>14. A0 * b = M00 + M01 + M02 + M03
  <2>1. A0 * (B0 + B1 + B2 + B3) = A0 * B0 + A0 * B1 + A0 * B2 + A0 * B3
    BY <1>7, Z3
  <2> QED BY <1>7, <2>1, Zenon
<1>15. A1 * b = M10 + M11 + M12 + M13
  <2>1. A1 * (B0 + B1 + B2 + B3) = A1 * B0 + A1 * B1 + A1 * B2 + A1 * B3
    BY <1>7, Z3
  <2> QED BY <1>7, <2>1, Zenon
<1>16. A2 * b = M20 + M21 + M22 + M23
  <2>1. A2 * (B0 + B1 + B2 + B3) = A2 * B0 + A2 * B1 + A2 * B2 + A2 * B3
    BY <1>7, Z3
  <2> QED BY <1>7, <2>1, Zenon
<1>17. A3 * b = M30 + M31 + M32 + M33
  <2>1. A3 * (B0 + B1 + B2 + B3) = A3 * B0 + A3 * B1 + A3 * B2 + A3 * B3
    BY <1>7, Z3
  <2> QED BY <1>7, <2>1, Zenon
<1>18. A4 * b = M40 + M41 + M42 + M43
  <2>1. A4 * (B0 + B1 + B2 + B3) = A4 * B0 + A4 * B1 + A4 * B2 + A4 * B3
    BY <1>7, Z3
  <2> QED BY <1>7, <2>1, Zenon
<1> HIDE DEF b
<1>19. Wide(a) * Number(r, 4) = A0 * b + A1 * b + A2 * b + A3 * b + A4 * b
  BY <1>10, <1>11, <1>13, Zenon DEF b
<1>20. Number(ProductSum, 8) = A0 * b + A1 * b + A2 * b + A3 * b + A4 * b
  BY <1>7, <1>8, <1>9, <1>14, <1>15, <1>16, <1>17, <1>18
<1> QED BY <1>19, <1>20, Zenon

\* Multiply leaves eight words that are the product.
LEMMA MultiplyRight ==
  ASSUME Factors
  PROVE  LET c == Carried(ProductSum, 7)
         IN  c \in [0 .. 7 -> Nat] /\ Number(Lows(c), 8) = Wide(a) * Number(r, 4)
<1> DEFINE x == ProductSum
           c == Carried(x, 7)
<1>1. x \in [0 .. 7 -> Nat] /\ \A k \in 0 .. 7 : x[k] <= Base * Base - Base
  BY ProductWords, Zenon
<1>2. PICK e \in Nat \ {0} : Base = 8 * e /\ x[7] <= 5 * (e - 1) /\ x[6] + Base <= (e + 1) * Base
  BY ProductWords, Zenon
<1>3. Number(x, 8) = Wide(a) * Number(r, 4)
  BY ProductValue, Zenon
<1> HIDE DEF x
<1>4. x[0] < Base * Base /\ (\A i \in 1 .. 7 : x[i] <= Base * Base - Base) /\ 7 \in 0 .. 7
  <2>1. 0 \in 0 .. 7 /\ 7 \in 0 .. 7 /\ \A i \in 1 .. 7 : i \in 0 .. 7
    OBVIOUS
  <2>2. Base \in Nat \ {0} /\ Base * Base \in Nat
    BY Weights, Z3
  <2>3. x[0] <= Base * Base - Base /\ x[0] \in Nat
    BY <1>1, <2>1, Zenon
  <2>4. x[0] < Base * Base
    <3> DEFINE sq == Base * Base
    <3>1. sq \in Nat /\ x[0] <= sq - Base
      BY <2>2, <2>3
    <3> HIDE DEF sq
    <3>2. x[0] < sq
      BY <2>2, <2>3, <3>1
    <3> QED BY <3>2 DEF sq
  <2> QED BY <1>1, <2>1, <2>4, Zenon
<1>5. Chain(c, x, 7)
  BY <1>1, <1>4, CarriedChain, Zenon
<1> HIDE DEF c
<1>6. /\ \A i \in 0 .. 7 : High(c[i]) \in 0 .. Base - 1
      /\ \A i \in 1 .. 7 : c[i] = x[i] + High(c[i - 1])
  <2>1. NoneLost(c, x, 7)
    BY <1>1, <1>4, <1>5, ChainRoom, Zenon
  <2> QED BY <2>1, Zenon DEF NoneLost
<1>7. \A i \in 0 .. 7 : Summed(c, x, i)
  BY <1>1, <1>4, <1>5, ChainSum, Zenon
<1>8. /\ c \in [0 .. 7 -> Nat]
      /\ c[7] = x[7] + High(c[6]) /\ c[6] = x[6] + High(c[5])
      /\ High(c[5]) \in 0 .. Base - 1
      /\ c[7] \in Nat /\ c[6] \in Nat /\ x[6] \in Nat /\ x[7] \in Nat
  <2>1. 5 \in 0 .. 7 /\ 6 \in 0 .. 7 /\ 7 \in 0 .. 7 /\ 6 \in 1 .. 7 /\ 7 \in 1 .. 7 /\ 7 - 1 = 6 /\ 6 - 1 = 5
    OBVIOUS
  <2>2. c \in [0 .. 7 -> Nat]
    BY <1>5, Zenon DEF Chain
  <2> QED BY <1>1, <1>6, <2>1, <2>2, Zenon
<1>9. c[7] < Base
  <2> DEFINE h == High(c[6])
             l == Low(c[6])
             y == c[6]
             u == High(c[5])
             z == x[6]
  <2>1. h \in Nat /\ y = h * Base + l /\ l \in 0 .. Base - 1 /\ y \in Nat
    BY <1>8, LowHigh, Zenon
  <2>2. y = z + u /\ u \in 0 .. Base - 1 /\ z \in Nat /\ z + Base <= (e + 1) * Base
    BY <1>2, <1>8, Zenon
  <2>3. Base \in Nat /\ Base >= 64
    BY Weights, Zenon
  <2> HIDE DEF h, l, y, u, z
  <2>4. h * Base < (e + 1) * Base
    <3> DEFINE hb == h * Base
               eb == (e + 1) * Base
    <3>1. hb \in Nat /\ eb \in Nat /\ y = hb + l /\ z + Base <= eb
      BY <2>1, <2>2, <2>3, Times
    <3> HIDE DEF hb, eb
    <3>2. hb < eb
      BY <2>1, <2>2, <2>3, <3>1
    <3> QED BY <3>2 DEF hb, eb
  <2>5. h <= e
    <3>1. SUFFICES ASSUME h >= e + 1 PROVE FALSE
      BY <2>1
    <3>2. h * Base >= (e + 1) * Base
      BY <2>1, <2>3, <3>1, Z3
    <3>3. h * Base \in Nat /\ (e + 1) * Base \in Nat
      BY <2>1, <2>3, Times
    <3> DEFINE hb == h * Base
               eb == (e + 1) * Base
    <3>4. hb >= eb /\ hb < eb /\ hb \in Nat /\ eb \in Nat
      BY <2>4, <3>2, <3>3, Zenon
    <3> HIDE DEF hb, eb
    <3> QED BY <3>4
  <2>6. c[7] = x[7] + h
    BY <1>8, Zenon DEF h
  <2> QED BY <1>2, <1>8, <2>1, <2>5, <2>6
<1>10. Low(c[7]) = c[7] /\ High(c[7]) = 0
  BY <1>8, <1>9, LowHigh, Zenon
<1>11. Number(Lows(c), 8) = Number(x, 8)
  <2>1. 7 \in 0 .. 7 /\ 7 + 1 = 8
    OBVIOUS
  <2>2. Number(Lows(c), 8) + High(c[7]) * Weight(8) = Number(x, 8) /\ Number(Lows(c), 8) \in Nat
    BY <1>7, <2>1, Zenon DEF Summed
  <2> DEFINE w == Weight(8)
             y == Number(Lows(c), 8)
  <2>3. w \in Nat
    <3>1. 8 \in Nat
      OBVIOUS
    <3> QED BY <3>1, Weights, Zenon
  <2>4. y + 0 * w = Number(x, 8) /\ y \in Nat
    BY <1>10, <2>2, Zenon
  <2> HIDE DEF w, y
  <2>5. y = Number(x, 8)
    BY <2>3, <2>4
  <2> QED BY <2>5 DEF y
<1> QED BY <1>3, <1>8, <1>11, Zenon DEF c, x

-----------------------------------------------------------------------------
(* The last subtraction and the sum with s, to 128 bits.                   *)

Plus == Carried([a EXCEPT ![0] = Cut(@ + 5)], 4)
TagSum == [i \in 0 .. 7 |-> IF i < 4 THEN Cut(Selected[i] + s[i]) ELSE Selected[i]]

\* What the accumulator is between blocks: five words of 130 bits.
Reduced == a \in [0 .. 7 -> Nat] /\ (\A i \in 0 .. 3 : a[i] \in Word) /\ a[4] \in 0 .. 3

\* Such an accumulator is below 2 ^ 130.
LEMMA ReducedNumber ==
  ASSUME Reduced
  PROVE  /\ Number(a, 5) = Number(a, 4) + a[4] * Weight(4)
         /\ Number(a, 4) \in 0 .. Weight(4) - 1 /\ Number(a, 5) \in Nat /\ Number(a, 5) < 4 * Weight(4)
         /\ Number(Lows(a), 4) = Number(a, 4) /\ Wide(a) = Number(a, 5)
         /\ \A i \in 0 .. 3 : Low(a[i]) = a[i] /\ a[i] <= Base - 1 /\ a[i] \in Nat
<1> DEFINE v == Weight(4)
           n == Number(a, 4)
           z == a[4]
<1>1. v \in Nat /\ v >= 64 /\ Base \in Nat /\ Word = 0 .. Base - 1
  BY Modulus, Weights, Zenon
<1>2. \A i \in 0 .. 7 : a[i] \in Nat
  BY DEF Reduced
<1>3. \A i \in 0 .. 3 : Low(a[i]) = a[i] /\ a[i] <= Base - 1 /\ a[i] \in Nat
  <2>1. \A k \in Word : k \in Nat /\ k < Base /\ k <= Base - 1
    BY <1>1
  <2>2. \A i \in 0 .. 3 : a[i] \in Word
    BY Zenon DEF Reduced
  <2> QED BY <2>1, <2>2, LowHigh, Zenon
<1>4. Number(a, 5) = n + z * v
  BY <1>2, NumberWords, Zenon
<1>5. n \in 0 .. v - 1
  <2>1. 4 \in Nat /\ \A i \in 0 .. 4 - 1 : i \in 0 .. 3
    OBVIOUS
  <2>2. \A i \in 0 .. 4 - 1 : a[i] \in Word
    BY <2>1, Zenon DEF Reduced
  <2> QED BY <2>1, <2>2, NumberBound, Zenon
<1>6. z \in 0 .. 3
  BY Zenon DEF Reduced
<1>7. n + z * v \in Nat /\ n + z * v < 4 * v
  <2> HIDE DEF n, v, z
  <2>1. z * v \in Nat /\ z * v <= 3 * v
    BY <1>1, <1>6, Z3
  <2> QED BY <1>1, <1>5, <2>1
<1>8. Agree(a, Lows(a), 4)
  <2>1. 4 \in Nat /\ \A i \in 0 .. 4 - 1 : i \in 0 .. 3 /\ i \in 0 .. 7
    OBVIOUS
  <2>2. \A i \in 0 .. 4 - 1 : a[i] \in Nat /\ Lows(a)[i] = a[i]
    BY <1>2, <1>3, <2>1, Zenon DEF Lows
  <2> QED BY <2>1, <2>2, NumberSame, Zenon
<1>9. Number(Lows(a), 4) = n /\ Wide(a) = Number(a, 5)
  BY <1>4, <1>8, Zenon DEF Agree, Wide
<1> QED BY <1>3, <1>4, <1>5, <1>7, <1>9, Zenon

-----------------------------------------------------------------------------
(* The masked subtraction of P, and the sum with s.                        *)

\* More in the lowest word is as much more.
LEMMA AddToFirst ==
  ASSUME NEW x, NEW y, NEW n \in Nat, \A i \in 0 .. 3 : x[i] \in Nat,
         y[0] = x[0] + n, \A i \in 1 .. 3 : y[i] = x[i]
  PROVE  Number(y, 4) = Number(x, 4) + n
<1>1. 0 \in 0 .. 3 /\ 1 \in 0 .. 3 /\ 2 \in 0 .. 3 /\ 3 \in 0 .. 3 /\ 1 \in 1 .. 3 /\ 2 \in 1 .. 3 /\ 3 \in 1 .. 3
  OBVIOUS
<1>2. \A i \in 0 .. 3 : y[i] \in Nat
  <2>1. \A i \in 0 .. 3 : i = 0 \/ i \in 1 .. 3
    OBVIOUS
  <2>2. y[0] \in Nat
    BY <1>1
  <2> QED BY <2>1, <2>2, Zenon
<1>3. FourWords(x) /\ FourWords(y) /\ \A i \in 0 .. 3 : x[i] * Weight(i) \in Nat
  BY <1>2, NumberFour, Zenon
<1> DEFINE y0 == x[0]
           y1 == x[1] * Weight(1)
           y2 == x[2] * Weight(2)
           y3 == x[3] * Weight(3)
<1>4. y0 \in Nat /\ y1 \in Nat /\ y2 \in Nat /\ y3 \in Nat
  BY <1>1, <1>3, Zenon
<1>5. Number(y, 4) = (y0 + n) * 1 + y1 + y2 + y3 /\ Number(x, 4) = y0 * 1 + y1 + y2 + y3
  BY <1>1, <1>3, Weights, Zenon DEF FourWords
<1> HIDE DEF y0, y1, y2, y3
<1> QED BY <1>4, <1>5

\* Whether P can be subtracted is seen from the carry that 5 more makes.
LEMMA SelectedValue ==
  ASSUME Reduced
  PROVE  /\ Selected \in [0 .. 7 -> Nat] /\ (\A i \in 0 .. 3 : Selected[i] \in Word) /\ Selected[4] <= 4
         /\ \E j \in Nat : Number(a, 5) % P = Number(Selected, 4) + j * Weight(4)
<1> DEFINE v == Weight(4)
           n == Number(a, 4)
           z == a[4]
           x == [a EXCEPT ![0] = Cut(@ + 5)]
           c == Plus
           k == High(c[3])
           past == (c[4] \div 4) % 2 = 1
           N == Number(a, 5)
<1>1. v \in Nat /\ v >= 64 /\ P = 4 * v - 5 /\ P \in Nat \ {0} /\ Base \in Nat /\ Base >= 64 /\ Word = 0 .. Base - 1
      /\ Base * Base \in Nat /\ Base * Base >= 64 * Base
  <2>1. Base \in Nat /\ Base >= 64 /\ Word = 0 .. Base - 1
    BY Weights, Zenon
  <2>2. Base * Base \in Nat /\ Base * Base >= 64 * Base
    BY <2>1, Z3
  <2> QED BY <2>1, <2>2, Modulus
<1>2. /\ N = n + z * v /\ n \in 0 .. v - 1 /\ N \in Nat /\ z \in 0 .. 3
      /\ \A i \in 0 .. 3 : Low(a[i]) = a[i] /\ a[i] <= Base - 1 /\ a[i] \in Nat /\ a[i] \in Word
      /\ \A i \in 0 .. 7 : a[i] \in Nat
  <2>1. \A i \in 0 .. 7 : a[i] \in Nat
    BY DEF Reduced
  <2> QED BY <2>1, ReducedNumber, Zenon DEF Reduced
<1>3. /\ x \in [0 .. 7 -> Nat] /\ x[0] = a[0] + 5 /\ (\A i \in 1 .. 3 : x[i] = a[i]) /\ x[4] = z
  <2>1. a[0] \in Nat /\ a[0] <= Base - 1
    <3>1. 0 \in 0 .. 3
      OBVIOUS
    <3> QED BY <1>2, <3>1, Zenon
  <2> DEFINE y == a[0] + 5
  <2>2. y \in Nat /\ y < Base * Base
    <3> DEFINE sq == Base * Base
    <3>1. sq \in Nat /\ sq >= 64 * Base
      BY <1>1
    <3> HIDE DEF sq
    <3>2. y \in Nat /\ y < sq
      BY <1>1, <2>1, <3>1
    <3> QED BY <3>2 DEF sq
  <2> HIDE DEF y
  <2>3. Cut(y) = y
    BY <2>2, LowHigh, Zenon
  <2>4. x = [a EXCEPT ![0] = y]
    BY <2>3, Zenon DEF y
  <2>5. a \in [0 .. 7 -> Nat]
    BY Zenon DEF Reduced
  <2> HIDE DEF x
  <2>6. x \in [0 .. 7 -> Nat] /\ x[0] = y /\ x[4] = z /\ \A i \in 1 .. 3 : x[i] = a[i]
    BY <2>2, <2>4, <2>5
  <2> QED BY <2>6, Zenon DEF y
<1>4. c = Carried(x, 4)
  BY Zenon DEF Plus
<1> HIDE DEF x, c, n
<1>5. /\ x[0] <= Base * Base - Base /\ x[1] <= Base * Base - Base /\ x[2] <= Base * Base - Base
      /\ x[3] <= Base * Base - Base /\ x[4] <= Base
  <2> DEFINE sq == Base * Base
  <2>1. sq \in Nat /\ sq >= 64 * Base
    BY <1>1
  <2> HIDE DEF sq
  <2>2. 0 \in 0 .. 3 /\ 1 \in 0 .. 3 /\ 2 \in 0 .. 3 /\ 3 \in 0 .. 3 /\ 1 \in 1 .. 3 /\ 2 \in 1 .. 3 /\ 3 \in 1 .. 3
    OBVIOUS
  <2>3. \A y \in Nat : y <= Base - 1 => y <= sq - Base /\ y + 5 <= sq - Base
    BY <1>1, <2>1
  <2>4. x[0] <= sq - Base /\ x[1] <= sq - Base /\ x[2] <= sq - Base /\ x[3] <= sq - Base
    BY <1>2, <1>3, <2>2, <2>3, Zenon
  <2>5. x[4] <= Base
    <3>1. \A y \in 0 .. 3 : y <= Base
      BY <1>1
    <3> QED BY <1>2, <1>3, <3>1, Zenon
  <2> QED BY <2>4, <2>5, Zenon DEF sq
<1>6. /\ c \in [0 .. 7 -> Nat] /\ c[4] = x[4] + k /\ k \in 0 .. Base - 1
      /\ Number(Lows(c), 4) + k * v = Number(x, 4)
  BY <1>3, <1>4, <1>5, CarriedFive, Zenon
<1>7. Number(x, 4) = n + 5
  <2>1. \A i \in 0 .. 3 : a[i] \in Nat
    BY <1>2, Zenon
  <2>2. 5 \in Nat
    OBVIOUS
  <2> QED BY <1>3, <2>1, <2>2, AddToFirst DEF n
<1> DEFINE m == Number(Lows(c), 4)
<1>8. m \in 0 .. v - 1
  <2>1. 4 \in Nat /\ \A i \in 0 .. 4 - 1 : i \in 0 .. 7
    OBVIOUS
  <2>2. \A i \in 0 .. 7 : c[i] \in Nat
    BY <1>6, Zenon
  <2>3. \A i \in 0 .. 4 - 1 : Lows(c)[i] \in Word
    BY <1>1, <2>1, <2>2, LowHigh, Zenon DEF Lows
  <2> QED BY <2>1, <2>3, NumberBound, Zenon
<1>9. k \in Nat /\ m + k * v = n + 5 /\ n \in Nat /\ n <= v - 1 /\ m \in Nat /\ m <= v - 1 /\ c[4] = z + k
  <2>1. m + k * v = n + 5 /\ c[4] = z + k
    BY <1>3, <1>6, <1>7, Zenon
  <2>2. k \in Nat
    BY <1>1, <1>6
  <2>3. n \in 0 .. v - 1
    BY <1>2, Zenon
  <2> HIDE DEF k, m, v
  <2> QED BY <1>1, <1>8, <2>1, <2>2, <2>3
<1> HIDE DEF v, k, m
<1>10. k \in {0, 1}
  <2>1. SUFFICES ASSUME k >= 2 PROVE FALSE
    BY <1>9
  <2>2. k * v >= 2 * v /\ k * v \in Nat
    BY <1>1, <1>9, <2>1, Z3
  <2> QED BY <1>1, <1>9, <2>2
<1>11. past <=> z = 3 /\ k = 1
  <2>1. c[4] \in 0 .. 4
    BY <1>2, <1>9, <1>10
  <2> QED BY <1>2, <1>9, <1>10, <2>1
<1> DEFINE pick(i) == CASE i < 4 /\ past -> Low(c[i]) [] i < 4 /\ ~past -> Low(a[i]) [] i >= 4 -> c[i]
<1>12. Selected = [i \in 0 .. 7 |-> pick(i)]
  BY Zenon DEF Selected, Plus, c
<1>13. \A i \in 0 .. 7 : Low(c[i]) \in Word /\ Low(a[i]) \in Word
  <2>1. \A i \in 0 .. 7 : c[i] \in Nat
    BY <1>6, Zenon
  <2> QED BY <1>1, <1>2, <2>1, LowHigh, Zenon
<1>14. \A i \in 0 .. 3 : i \in 0 .. 7 /\ i < 4 /\ 4 \in 0 .. 7 /\ 4 >= 4 /\ ~(4 < 4)
  OBVIOUS
<1> HIDE DEF past
<1>15. /\ \A i \in 0 .. 3 : pick(i) = IF past THEN Low(c[i]) ELSE Low(a[i])
       /\ pick(4) = c[4]
       /\ \A i \in 0 .. 7 : pick(i) \in Nat
  <2>1. \A i \in 0 .. 3 : pick(i) = IF past THEN Low(c[i]) ELSE Low(a[i])
    BY Z3
  <2>2. pick(4) = c[4]
    BY Z3
  <2>3. \A i \in 0 .. 7 : i \in 0 .. 3 \/ (i >= 4 /\ ~(i < 4))
    OBVIOUS
  <2>4. \A i \in 0 .. 7 : i >= 4 /\ ~(i < 4) => pick(i) = c[i]
    BY Z3
  <2>5. \A i \in 0 .. 7 : c[i] \in Nat
    BY <1>6, Zenon
  <2>6. \A i \in Word : i \in Nat
    BY <1>1
  <2> HIDE DEF pick
  <2>7. \A i \in 0 .. 7 : pick(i) \in Nat
    BY <1>13, <1>14, <2>1, <2>3, <2>4, <2>5, <2>6, Zenon
  <2> QED BY <2>1, <2>2, <2>7, Zenon
<1> HIDE DEF pick
<1>16. /\ Selected \in [0 .. 7 -> Nat]
       /\ \A i \in 0 .. 3 : Selected[i] = IF past THEN Low(c[i]) ELSE Low(a[i])
       /\ \A i \in 0 .. 3 : Selected[i] \in Word
       /\ Selected[4] = c[4]
  <2>1. \A i \in 0 .. 7 : Selected[i] = pick(i)
    BY <1>12, Zenon
  <2>2. Selected \in [0 .. 7 -> Nat]
    BY <1>12, <1>15, Zenon
  <2>3. Selected[4] = c[4]
    <3>1. 4 \in 0 .. 7
      OBVIOUS
    <3> QED BY <1>15, <2>1, <3>1, Zenon
  <2>4. \A i \in 0 .. 3 : Selected[i] = IF past THEN Low(c[i]) ELSE Low(a[i])
    BY <1>14, <1>15, <2>1, Zenon
  <2>5. \A i \in 0 .. 3 : Selected[i] \in Word
    BY <1>13, <1>14, <2>4, Zenon
  <2> QED BY <2>2, <2>3, <2>4, <2>5, Zenon
<1>17. Selected[4] <= 4
  BY <1>2, <1>9, <1>10, <1>16
<1>18. \A i \in 0 .. 4 - 1 : i \in 0 .. 3 /\ 4 \in Nat /\ i \in 0 .. 7
  OBVIOUS
<1>18a. 4 \in Nat
  OBVIOUS
<1>18b. \A i \in Word : i \in Nat
  BY <1>1
<1>19. CASE past
  <2>1. Agree(Selected, Lows(c), 4)
    <3>1. \A i \in 0 .. 4 - 1 : Selected[i] \in Nat /\ Lows(c)[i] = Selected[i]
      BY <1>16, <1>18, <1>18b, <1>19, Zenon DEF Lows
    <3> QED BY <1>18a, <3>1, NumberSame, Zenon
  <2>2. Number(Selected, 4) = m
    BY <2>1, Zenon DEF Agree, m
  <2>3. z = 3 /\ k = 1
    BY <1>11, <1>19, Zenon
  <2>4. m = n + 5 - v /\ N = n + 3 * v
    <3>1. N = n + 3 * v
      BY <1>2, <2>3, Zenon DEF v
    <3>2. 1 * v = v /\ m + 1 * v = n + 5
      BY <1>1, <1>9, <2>3
    <3> QED BY <1>1, <1>9, <3>1, <3>2
  <2>5. N = 1 * P + m /\ m \in 0 .. P - 1
    BY <1>1, <1>9, <2>4
  <2>6. N % P = m
    <3>1. (1 * P + m) % P = m /\ 1 \in Nat
      BY <1>1, <2>5, Division
    <3> QED BY <2>5, <3>1, Zenon
  <2>7. N % P = Number(Selected, 4) + 0 * v /\ 0 \in Nat
    BY <1>1, <1>9, <2>2, <2>6
  <2> QED BY <1>16, <1>17, <2>7, Zenon DEF v
<1>20. CASE ~past
  <2>1. Agree(a, Selected, 4)
    <3>1. \A i \in 0 .. 4 - 1 : a[i] \in Nat /\ Selected[i] = a[i]
      BY <1>2, <1>16, <1>18, <1>20, Zenon
    <3> QED BY <1>18a, <3>1, NumberSame, Zenon
  <2>2. Number(Selected, 4) = n
    BY <2>1, Zenon DEF Agree, n
  <2>3. ~(z = 3 /\ k = 1)
    BY <1>11, <1>20, Zenon
  <2>4. N < P
    <3>1. CASE z = 3
      <4>1. k = 0
        BY <1>10, <2>3, <3>1
      <4>2. m + 0 * v = n + 5 /\ 0 * v = 0
        BY <1>1, <1>9, <4>1
      <4>3. N = n + 3 * v
        BY <1>2, <3>1, Zenon DEF v
      <4> QED BY <1>1, <1>9, <4>2, <4>3
    <3>2. CASE z # 3
      <4>1. z * v <= 2 * v /\ z * v \in Nat
        <5>1. z \in Nat /\ z <= 2
          BY <1>2, <3>2
        <5> QED BY <1>1, <5>1, Z3
      <4>2. N = n + z * v
        BY <1>2, Zenon DEF v
      <4> QED BY <1>1, <1>9, <4>1, <4>2
    <3> QED BY <3>1, <3>2
  <2>5. N % P = N
    <3>1. N \in 0 .. P - 1 /\ 0 * P + N = N
      <4>1. N \in Nat /\ N < P /\ P \in Nat
        BY <1>1, <1>2, <2>4, Zenon
      <4>2. \A y \in Nat, u \in Nat : y < u => y \in 0 .. u - 1 /\ 0 * u + y = y
        OBVIOUS
      <4> QED BY <4>1, <4>2, Zenon
    <3>2. (0 * P + N) % P = N
      BY <1>1, <3>1, Division
    <3> QED BY <3>1, <3>2, Zenon
  <2>6. N % P = Number(Selected, 4) + z * v /\ z \in Nat
    <3>1. z \in Nat
      BY <1>2
    <3> QED BY <1>2, <2>2, <2>5, <3>1, Zenon DEF v
  <2> QED BY <1>16, <1>17, <2>6, Zenon DEF v
<1> QED BY <1>19, <1>20, Zenon

\* Word by word sums.
Adds(x, y, z) == Number(z, 4) = Number(x, 4) + Number(y, 4)

LEMMA NumberPlus ==
  ASSUME NEW x, NEW y, NEW z, \A i \in 0 .. 3 : x[i] \in Nat /\ y[i] \in Nat /\ z[i] = x[i] + y[i]
  PROVE  Adds(x, y, z)
<1>1. \A i \in 0 .. 3 : i \in Nat /\ x[i] \in Nat /\ y[i] \in Nat /\ z[i] \in Nat
  OBVIOUS
<1>2. FourWords(x) /\ FourWords(y) /\ FourWords(z)
  BY <1>1, NumberFour, Zenon
<1>3. \A i \in 0 .. 3 : /\ z[i] * Weight(i) = x[i] * Weight(i) + y[i] * Weight(i)
                        /\ x[i] * Weight(i) \in Nat /\ y[i] * Weight(i) \in Nat
  <2> SUFFICES ASSUME NEW i \in 0 .. 3
               PROVE  /\ z[i] * Weight(i) = x[i] * Weight(i) + y[i] * Weight(i)
                      /\ x[i] * Weight(i) \in Nat /\ y[i] * Weight(i) \in Nat
    OBVIOUS
  <2> DEFINE l == x[i]
             k == y[i]
             q == z[i]
             v == Weight(i)
  <2>1. l \in Nat /\ k \in Nat /\ q = l + k
    OBVIOUS
  <2>2. v \in Nat
    BY <1>1, Weights, Zenon
  <2> HIDE DEF l, k, q, v
  <2>3. q * v = l * v + k * v /\ l * v \in Nat /\ k * v \in Nat
    BY <2>1, <2>2, Z3
  <2> QED BY <2>3, Zenon DEF l, k, q, v
<1>4. 0 \in 0 .. 3 /\ 1 \in 0 .. 3 /\ 2 \in 0 .. 3 /\ 3 \in 0 .. 3
  OBVIOUS
<1> DEFINE t(i) == x[i] * Weight(i)
           u(i) == y[i] * Weight(i)
           w(i) == z[i] * Weight(i)
<1>5. \A i \in 0 .. 3 : w(i) = t(i) + u(i) /\ t(i) \in Nat /\ u(i) \in Nat
  BY <1>3, Zenon
<1>6. /\ Number(x, 4) = t(0) + t(1) + t(2) + t(3) /\ Number(y, 4) = u(0) + u(1) + u(2) + u(3)
      /\ Number(z, 4) = w(0) + w(1) + w(2) + w(3)
  BY <1>2, Zenon DEF FourWords
<1> HIDE DEF t, u, w
<1>7. Number(z, 4) = Number(x, 4) + Number(y, 4)
  BY <1>4, <1>5, <1>6
<1> QED BY <1>7, Zenon DEF Adds

\* The sum with s, to 128 bits.
LEMMA TagValue ==
  ASSUME Reduced, s \in [0 .. 3 -> Word]
  PROVE  LET c == Carried(TagSum, 4)
         IN  c \in [0 .. 7 -> Nat] /\ Number(Lows(c), 4) = ((Number(a, 5) % P) + Number(s, 4)) % 2^(4 * WordBits)
<1> DEFINE x == TagSum
           c == Carried(x, 4)
           v == Weight(4)
           k == High(c[3])
           m == Number(Lows(c), 4)
           N == Number(a, 5) % P
<1>1. v \in Nat \ {0} /\ 2^(4 * WordBits) = v /\ Base \in Nat /\ Base >= 64 /\ Word = 0 .. Base - 1
  <2>1. v \in Nat /\ v >= 64 /\ 2^(4 * WordBits) = v
    BY Modulus, Zenon
  <2>2. Base \in Nat /\ Base >= 64 /\ Word = 0 .. Base - 1
    BY Weights, Zenon
  <2> HIDE DEF v
  <2> QED BY <2>1, <2>2
<1>2. /\ Selected \in [0 .. 7 -> Nat] /\ (\A i \in 0 .. 3 : Selected[i] \in Word) /\ Selected[4] <= 4
      /\ \E j \in Nat : N = Number(Selected, 4) + j * v
  BY SelectedValue, Zenon
<1>3. PICK j \in Nat : N = Number(Selected, 4) + j * v
  BY <1>2, Zenon
<1> DEFINE sq == Base * Base
<1>4. sq \in Nat /\ sq >= 64 * Base
  BY <1>1, Z3
<1> HIDE DEF sq
<1>5. \A y, z \in Word : y + z \in Nat /\ y + z < sq /\ y + z <= sq - Base /\ y \in Nat /\ z \in Nat
  BY <1>1, <1>4
<1>6. \A i \in 0 .. 3 : Selected[i] \in Word /\ s[i] \in Word /\ Cut(Selected[i] + s[i]) = Selected[i] + s[i]
  <2>1. \A i \in 0 .. 3 : Selected[i] \in Word /\ s[i] \in Word
    BY <1>2, Zenon
  <2>2. \A n \in Nat : n < sq => Cut(n) = n
    BY LowHigh, Zenon DEF sq
  <2> QED BY <1>5, <2>1, <2>2, Zenon
<1>7. /\ x \in [0 .. 7 -> Nat] /\ x[4] = Selected[4]
      /\ \A i \in 0 .. 3 : x[i] = Selected[i] + s[i] /\ x[i] <= sq - Base /\ x[i] < sq
  <2> DEFINE at(i) == IF i < 4 THEN Cut(Selected[i] + s[i]) ELSE Selected[i]
  <2>1. x = [i \in 0 .. 7 |-> at(i)]
    BY Zenon DEF TagSum
  <2>2. \A i \in 0 .. 3 : i \in 0 .. 7 /\ i < 4 /\ 4 \in 0 .. 7 /\ ~(4 < 4)
    OBVIOUS
  <2>3. \A i \in 0 .. 3 : at(i) = Cut(Selected[i] + s[i])
    BY <2>2, Zenon
  <2>4. at(4) = Selected[4]
    BY <2>2, Z3
  <2>5. \A i \in 0 .. 7 : i \in 0 .. 3 \/ ~(i < 4)
    OBVIOUS
  <2>6. \A i \in 0 .. 7 : ~(i < 4) => at(i) = Selected[i]
    BY Zenon
  <2>7. \A i \in 0 .. 7 : Selected[i] \in Nat
    BY <1>2, Zenon
  <2>7a. \A i \in 0 .. 3 : at(i) = Selected[i] + s[i] /\ at(i) \in Nat
    BY <1>5, <1>6, <2>3, Zenon
  <2> HIDE DEF at
  <2>8. \A i \in 0 .. 7 : at(i) \in Nat
    BY <2>5, <2>6, <2>7, <2>7a, Zenon
  <2>9. \A i \in 0 .. 3 : x[i] = at(i) /\ 4 \in 0 .. 7
    BY <2>1, <2>2, Zenon
  <2>10. x \in [0 .. 7 -> Nat] /\ x[4] = Selected[4]
    <3>1. 4 \in 0 .. 7
      OBVIOUS
    <3> QED BY <2>1, <2>4, <2>8, <3>1, Zenon
  <2>11. \A i \in 0 .. 3 : at(i) <= sq - Base /\ at(i) < sq
    <3> SUFFICES ASSUME NEW i \in 0 .. 3
                 PROVE  at(i) <= sq - Base /\ at(i) < sq
      BY Zenon
    <3>1. Selected[i] + s[i] <= sq - Base /\ Selected[i] + s[i] < sq
      BY <1>5, <1>6, Zenon
    <3>2. at(i) = Selected[i] + s[i]
      BY <2>7a, Zenon
    <3> QED BY <3>1, <3>2, Zenon
  <2> HIDE DEF x
  <2>12. \A i \in 0 .. 3 : x[i] = Selected[i] + s[i] /\ x[i] <= sq - Base /\ x[i] < sq
    <3> SUFFICES ASSUME NEW i \in 0 .. 3
                 PROVE  x[i] = Selected[i] + s[i] /\ x[i] <= sq - Base /\ x[i] < sq
      BY Zenon
    <3>1. x[i] = at(i) /\ at(i) = Selected[i] + s[i] /\ at(i) <= sq - Base /\ at(i) < sq
      BY <2>7a, <2>9, <2>11, Zenon
    <3> QED BY <3>1, Zenon
  <2> QED BY <2>10, <2>12, Zenon
<1> HIDE DEF x
<1>8. /\ x[0] <= Base * Base - Base /\ x[1] <= Base * Base - Base /\ x[2] <= Base * Base - Base
      /\ x[3] <= Base * Base - Base /\ x[4] <= Base
  <2>1. 0 \in 0 .. 3 /\ 1 \in 0 .. 3 /\ 2 \in 0 .. 3 /\ 3 \in 0 .. 3
    OBVIOUS
  <2>2. x[4] <= Base
    <3>1. 4 \in 0 .. 7
      OBVIOUS
    <3>2. x[4] \in Nat /\ x[4] <= 4
      BY <1>2, <1>7, <3>1, Zenon
    <3>3. \A y \in Nat : y <= 4 => y <= Base
      BY <1>1
    <3> QED BY <3>2, <3>3, Zenon
  <2> QED BY <1>7, <2>1, <2>2, Zenon DEF sq
<1>9. /\ c \in [0 .. 7 -> Nat] /\ k \in 0 .. Base - 1 /\ m + k * v = Number(x, 4)
  BY <1>7, <1>8, CarriedFive, Zenon
<1>10. m \in 0 .. v - 1
  <2>1. 4 \in Nat /\ \A i \in 0 .. 4 - 1 : i \in 0 .. 7
    OBVIOUS
  <2>2. \A i \in 0 .. 7 : c[i] \in Nat
    BY <1>9, Zenon
  <2>3. \A i \in 0 .. 4 - 1 : Lows(c)[i] \in Word
    BY <1>1, <2>1, <2>2, LowHigh, Zenon DEF Lows
  <2> QED BY <2>1, <2>3, NumberBound, Zenon
<1>11. Adds(Selected, s, x)
  <2>1. \A i \in 0 .. 3 : Selected[i] \in Nat /\ s[i] \in Nat /\ x[i] = Selected[i] + s[i]
    BY <1>5, <1>6, <1>7, Zenon
  <2> QED BY <2>1, NumberPlus, Zenon
<1>12. Number(Selected, 4) \in Nat /\ Number(s, 4) \in Nat
  <2>1. \A i \in 0 .. 3 : Selected[i] \in Nat /\ s[i] \in Nat
    BY <1>5, <1>6, Zenon
  <2> QED BY <2>1, NumberFour, Zenon
<1> DEFINE e == Number(Selected, 4)
           g == Number(s, 4)
<1>13. m + k * v = e + g /\ N = e + j * v /\ e \in Nat /\ g \in Nat /\ k \in Nat /\ j \in Nat /\ m \in Nat
  <2>1. \A y \in 0 .. Base - 1 : y \in Nat
    BY <1>1
  <2>2. \A y \in 0 .. v - 1 : y \in Nat
    BY <1>1
  <2> QED BY <1>3, <1>9, <1>10, <1>11, <1>12, <2>1, <2>2, Zenon DEF Adds
<1> HIDE DEF e, g, m, k, N, v
<1>14. N + g = (j + k) * v + m
  <2>1. j * v \in Nat /\ k * v \in Nat /\ (j + k) * v = j * v + k * v
    BY <1>1, <1>13, Z3
  <2> DEFINE y == j * v
             z == k * v
             w == (j + k) * v
  <2>2. y \in Nat /\ z \in Nat /\ w = y + z /\ m + z = e + g /\ N = e + y
    BY <1>13, <2>1, Zenon
  <2> HIDE DEF y, z, w
  <2>3. N + g = w + m
    BY <1>13, <2>2
  <2> QED BY <2>3, Zenon DEF w
<1>15. (N + g) % v = m
  <2>1. j + k \in Nat
    BY <1>13
  <2>2. ((j + k) * v + m) % v = m
    BY <1>1, <1>10, <2>1, Division
  <2> QED BY <1>14, <2>2, Zenon
<1>16. m = (N + g) % 2^(4 * WordBits)
  BY <1>1, <1>15, Zenon
<1> QED BY <1>9, <1>16, Zenon DEF m, N, g, x

-----------------------------------------------------------------------------
(* Bytes and words: LOAD32LE, STORE32LE, the padded block.                 *)

\* Bytes, four of them to a word in the source, and words are the same number.
WordsOf(d, w, n) == LittleEndian(ByteBits, d, 0, n * Bytes) = Number(w, n)

LEMMA LittleWords ==
  ASSUME NEW d, NEW w, NEW n \in Nat, \A i \in 0 .. n * Bytes - 1 : d[i] \in Byte,
         \A i \in 0 .. n - 1 : w[i] = LoadWord(d, i * Bytes)
  PROVE  WordsOf(d, w, n) /\ \A i \in 0 .. n - 1 : w[i] \in Word
<1>1. ByteBits \in Nat /\ Bytes \in Nat /\ Bytes > 0 /\ WordBits = ByteBits * Bytes /\ WordBits \in Nat /\ 0 \in Nat
  BY Sizes
<1>2. 2^ByteBits \in Nat
  BY <1>1, PowerType
<1>3. Byte = 0 .. 2^ByteBits - 1 /\ Word = 0 .. 2^WordBits - 1
  BY Zenon DEF Byte, Word
<1>4. \A y \in Byte : y \in Nat
  BY <1>2, <1>3
<1>5. ASSUME NEW m \in Nat, m < n
      PROVE  m * Bytes \in Nat /\ \A i \in 0 .. Bytes - 1 : 0 + (m * Bytes + i) \in 0 .. n * Bytes - 1
  <2>1. (m + 1) * Bytes <= n * Bytes /\ (m + 1) * Bytes = m * Bytes + Bytes /\ m * Bytes \in Nat /\ n * Bytes \in Nat
    BY <1>1, <1>5, Z3
  <2> DEFINE x == m * Bytes
             y == n * Bytes
  <2>2. x \in Nat /\ y \in Nat /\ x + Bytes <= y
    BY <2>1
  <2> HIDE DEF x, y
  <2>3. \A i \in 0 .. Bytes - 1 : 0 + (x + i) \in 0 .. y - 1
    BY <1>1, <2>2
  <2> QED BY <2>1, <2>3, Zenon DEF x, y
<1>6. ASSUME NEW m \in Nat, m < n
      PROVE  LoadWord(d, m * Bytes) \in Word
  <2>1. \A i \in 0 .. Bytes - 1 : d[m * Bytes + i] \in 0 .. 2^ByteBits - 1
    <3> DEFINE x == m * Bytes
               y == n * Bytes
    <3>1. x \in Nat /\ \A i \in 0 .. Bytes - 1 : 0 + (x + i) \in 0 .. y - 1
      BY <1>5, <1>6, Zenon
    <3> HIDE DEF x
    <3>2. \A i \in 0 .. Bytes - 1 : x + i \in 0 .. y - 1
      <4> HIDE DEF y
      <4>1. \A i \in 0 .. Bytes - 1 : 0 + (x + i) = x + i
        BY <1>1, <3>1
      <4> QED BY <3>1, <4>1, Zenon
    <3> QED BY <1>3, <3>2, Zenon DEF x, y
  <2>2. LittleEndian(ByteBits, d, m * Bytes, Bytes) \in 0 .. 2^(ByteBits * Bytes) - 1
    BY <1>1, <1>5, <1>6, <2>1, LittleBound, Zenon
  <2> QED BY <1>1, <1>3, <2>2, Zenon DEF LoadWord
<1>7. \A i \in 0 .. n - 1 : w[i] \in Word
  <2>1. \A i \in 0 .. n - 1 : i \in Nat /\ i < n
    OBVIOUS
  <2> QED BY <1>6, <2>1, Zenon
<1> DEFINE T == {m \in Nat : m <= n => WordsOf(d, w, m)}
<1>8. 0 \in T
  <2>1. 0 * Bytes = 0
    BY <1>1
  <2>2. LittleEndian(ByteBits, d, 0, 0) = 0 /\ LittleEndian(WordBits, w, 0, 0) = 0
    BY <1>1, LittleZero
  <2> QED BY <2>1, <2>2, Zenon DEF WordsOf, Number
<1>9. ASSUME NEW m \in Nat, m \in T, m + 1 <= n
      PROVE  WordsOf(d, w, m + 1)
  <2>1. m < n /\ m <= n /\ m \in 0 .. n - 1 /\ m + 1 \in Nat
    BY <1>9
  <2> DEFINE x == m * Bytes
             v == Weight(m)
             h == LittleEndian(ByteBits, d, x, Bytes)
             l == LittleEndian(ByteBits, d, 0, x)
  <2>2. x \in Nat /\ (m + 1) * Bytes = x + Bytes /\ 2^(ByteBits * x) = v
    <3>1. m * Bytes \in Nat /\ (m + 1) * Bytes = m * Bytes + Bytes /\ ByteBits * (m * Bytes) = (ByteBits * Bytes) * m
      BY <1>1, Z3
    <3> QED BY <1>1, <3>1, Zenon DEF Weight
  <2>3. DigitsFrom(d, 0, x + Bytes)
    <3>1. (m + 1) * Bytes <= n * Bytes /\ n * Bytes \in Nat
      BY <1>1, <1>9, Z3
    <3> DEFINE y == n * Bytes
    <3>2. x + Bytes <= y /\ y \in Nat
      BY <2>2, <3>1, Zenon
    <3>3. \A i \in 0 .. y - 1 : d[i] \in Byte
      BY Zenon
    <3> HIDE DEF x, y
    <3> DEFINE k == x + Bytes
    <3>4. \A i \in 0 .. k - 1 : 0 + i = i /\ i \in 0 .. y - 1
      BY <1>1, <2>2, <3>2
    <3> HIDE DEF k
    <3>5. DigitsFrom(d, 0, k)
      BY <1>4, <3>3, <3>4, Zenon DEF DigitsFrom
    <3> QED BY <3>5, Zenon DEF k
  <2>4. SplitsAt(ByteBits, d, 0, x, Bytes)
    BY <1>1, <2>2, <2>3, LittleSplit, Zenon
  <2>5. LittleEndian(ByteBits, d, 0, x + Bytes) = l + v * h
    <3>1. 0 + x = x
      BY <2>2
    <3> QED BY <2>2, <2>4, <3>1, Zenon DEF SplitsAt
  <2>6. w[m] = h /\ h \in Word
    BY <1>6, <2>1, Zenon DEF LoadWord
  <2>7. \A i \in 0 .. m : w[i] \in Nat
    <3>1. \A i \in 0 .. m : i \in 0 .. n - 1
      BY <2>1
    <3>2. \A y \in Word : y \in Nat
      BY Weights
    <3> QED BY <1>7, <3>1, <3>2, Zenon
  <2>8. NextWord(w, m)
    BY <2>7, NumberNext, Zenon
  <2>9. l = Number(w, m)
    BY <1>9, <2>1, Zenon DEF WordsOf
  <2>10. v * h = h * v
    <3>1. v \in Nat /\ h \in Nat
      <4>1. \A y \in Word : y \in Nat
        BY Weights
      <4> QED BY <2>6, <4>1, Weights, Zenon
    <3> HIDE DEF v, h
    <3> QED BY <3>1, Z3
  <2>11. Number(w, m + 1) = l + h * v
    BY <2>6, <2>8, <2>9, Zenon DEF NextWord
  <2>12. LittleEndian(ByteBits, d, 0, (m + 1) * Bytes) = l + h * v
    BY <2>2, <2>5, <2>10, Zenon
  <2> QED BY <2>11, <2>12, Zenon DEF WordsOf
<1>10. \A m \in Nat : m \in T => m + 1 \in T
  <2>1. \A m \in Nat : m + 1 \in Nat
    OBVIOUS
  <2> QED BY <1>9, <2>1, Zenon
<1>11. Nat \subseteq T
  <2> HIDE DEF T
  <2> QED BY <1>8, <1>10, Induction, Zenon
<1>12. n <= n
  OBVIOUS
<1> QED BY <1>7, <1>11, <1>12, Zenon

\* The digits of a number.
DigitsOf(bits, d, from, n, m) == LittleEndian(bits, d, from, m) = n % 2^(bits * m)

LEMMA LittleStored ==
  ASSUME NEW bits \in Nat, NEW d, NEW from \in Nat, NEW n \in Nat, NEW m \in Nat,
         \A i \in 0 .. m - 1 : d[from + i] = (n \div 2^(bits * i)) % 2^bits
  PROVE  DigitsOf(bits, d, from, n, m)
<1> DEFINE pw(i) == 2^(bits * i)
           b == 2^bits
           L(i) == LittleEndian(bits, d, from, i)
           T == {i \in Nat : i <= m => L(i) = n % pw(i)}
<1>1. \A i \in Nat : bits * i \in Nat /\ bits * (i + 1) = bits * i + bits /\ bits * 0 = 0
  BY Z3
<1>2. b \in Nat \ {0} /\ \A i \in Nat : pw(i) \in Nat \ {0} /\ pw(i + 1) = pw(i) * b
  <2>1. b \in Nat \ {0} /\ \A i \in Nat : pw(i) \in Nat \ {0}
    BY <1>1, PowerType, Zenon
  <2>2. ASSUME NEW i \in Nat
        PROVE  pw(i + 1) = pw(i) * b
    <3>1. bits * i \in Nat /\ bits * (i + 1) = bits * i + bits
      BY <1>1, Zenon
    <3>2. 2^(bits * i + bits) = 2^(bits * i) * 2^bits
      BY <3>1, PowerSum
    <3> QED BY <3>1, <3>2, Zenon
  <2> QED BY <2>1, <2>2, Zenon
<1>3. DigitsFrom(d, from, m)
  <2>1. \A i \in 0 .. m - 1 : i \in Nat
    OBVIOUS
  <2> SUFFICES ASSUME NEW i \in 0 .. m - 1
               PROVE  d[from + i] \in Nat
    BY Zenon DEF DigitsFrom
  <2> DEFINE v == pw(i)
             y == n \div v
  <2>2. v \in Nat \ {0}
    BY <1>2, <2>1, Zenon
  <2>3. d[from + i] = y % b
    BY Zenon
  <2> HIDE DEF v, b
  <2>4. y \in Nat
    BY <2>2, Divided
  <2> HIDE DEF y
  <2>5. y % b \in Nat
    <3>1. y % b \in 0 .. b - 1
      BY <1>2, <2>4, Divided
    <3> QED BY <1>2, <3>1
  <2> QED BY <2>3, <2>5, Zenon
<1>4. 0 \in T
  <2>1. L(0) = 0
    BY LittleZero
  <2>2. pw(0) = 1
    <3>1. bits * 0 = 0 /\ 2^0 = 1
      BY <1>1
    <3> QED BY <3>1, Zenon
  <2>3. n % 1 = 0
    OBVIOUS
  <2> QED BY <2>1, <2>2, <2>3, Zenon
<1>5. ASSUME NEW i \in Nat, i \in T, i + 1 <= m
      PROVE  L(i + 1) = n % pw(i + 1)
  <2> DEFINE v == pw(i)
             y == n \div v
             t == n % v
             u == y % b
             e == y \div b
  <2>1. v \in Nat \ {0} /\ pw(i + 1) = v * b /\ i \in 0 .. m - 1 /\ i <= m
    <3>1. i \in 0 .. m - 1 /\ i <= m
      BY <1>5
    <3> QED BY <1>2, <3>1, Zenon
  <2>2. L(i) = t /\ d[from + i] = u
    BY <1>5, <2>1, Zenon
  <2>3. DigitsFrom(d, from, i + 1)
    <3> DEFINE k == i + 1
    <3>1. \A j \in 0 .. k - 1 : j \in 0 .. m - 1
      BY <1>5
    <3> HIDE DEF k
    <3>2. DigitsFrom(d, from, k)
      BY <1>3, <3>1, Zenon DEF DigitsFrom
    <3> QED BY <3>2, Zenon DEF k
  <2>4. L(i + 1) = t + u * v
    <3>1. NextDigit(bits, d, from, i)
      BY <2>3, LittleMore, Zenon
    <3> QED BY <2>2, <3>1, Zenon DEF NextDigit
  <2> HIDE DEF v, b
  <2>5. y \in Nat /\ t \in 0 .. v - 1 /\ n = y * v + t
    BY <2>1, Divided
  <2> HIDE DEF y, t
  <2>6. e \in Nat /\ u \in 0 .. b - 1 /\ y = e * b + u
    BY <1>2, <2>5, Divided
  <2> HIDE DEF e, u
  <2>7. t \in Nat /\ u \in Nat /\ v \in Nat /\ b \in Nat /\ u <= b - 1
    BY <1>2, <2>1, <2>5, <2>6
  <2>8. /\ y * v = e * (v * b) + u * v /\ e * (v * b) \in Nat /\ u * v \in Nat /\ v * b \in Nat
        /\ u * v <= (b - 1) * v /\ (b - 1) * v = v * b - v
    <3>1. (e * b + u) * v = e * (v * b) + u * v /\ e * (v * b) \in Nat /\ u * v \in Nat /\ v * b \in Nat
      BY <2>6, <2>7, Z3
    <3>2. u * v <= (b - 1) * v /\ (b - 1) * v = v * b - v
      BY <2>7, Z3
    <3> QED BY <2>6, <3>1, <3>2, Zenon
  <2> DEFINE w == v * b
             g == e * w
             k == u * v
  <2>9. y * v = g + k /\ g \in Nat /\ k \in Nat /\ w \in Nat /\ k <= w - v
    <3>1. y * v = g + k /\ g \in Nat /\ k \in Nat /\ w \in Nat
      BY <2>8, Zenon
    <3>2. k <= (b - 1) * v /\ (b - 1) * v = w - v
      BY <2>8, Zenon
    <3> QED BY <3>1, <3>2
  <2> DEFINE z == y * v
             rest == t + k
  <2>10. n = z + t /\ z = g + k
    BY <2>5, <2>9, Zenon
  <2> HIDE DEF g, k, w, z
  <2>11. n = g + rest /\ rest \in 0 .. w - 1 /\ w \in Nat \ {0}
    BY <2>1, <2>5, <2>7, <2>9, <2>10
  <2> HIDE DEF rest
  <2>12. n % w = rest
    <3>1. (e * w + rest) % w = rest
      BY <2>6, <2>11, Division
    <3> QED BY <2>11, <3>1, Zenon DEF g
  <2> QED BY <2>1, <2>4, <2>12, Zenon DEF w, rest, k
<1>6. \A i \in Nat : i \in T => i + 1 \in T
  <2>1. \A i \in Nat : i + 1 \in Nat
    OBVIOUS
  <2> QED BY <1>5, <2>1, Zenon
<1>7. Nat \subseteq T
  <2> HIDE DEF T
  <2> QED BY <1>4, <1>6, Induction, Zenon
<1>8. m <= m
  OBVIOUS
<1> QED BY <1>7, <1>8, Zenon DEF DigitsOf

\* The block that is in the buffer.
Holds(block) ==
  /\ buffer \in [0 .. Block -> Byte] /\ size \in 0 .. Block
  /\ block \in Seq(Byte) /\ Len(block) = size /\ \A i \in 0 .. size - 1 : buffer[i] = block[i + 1]

\* Its bytes, the one after them and the zeros up to the end.
LEMMA PaddedNumber ==
  ASSUME NEW block, Holds(block)
  PROVE  /\ Padded \in [0 .. Block -> Byte] /\ Padded[Block] \in {0, 1}
         /\ LittleEndian(ByteBits, Padded, 0, Block) + Padded[Block] * Weight(4) = BlockNumber(block)
         /\ BlockNumber(block) \in Nat
<1> DEFINE p == Padded
           n == size
           l == Block - size
           at(i) == CASE i < n -> buffer[i] [] i = n -> 1 [] i > n -> 0
<1>1. ByteBits \in Nat \ {0} /\ ByteBits \in Nat /\ Block \in Nat /\ n \in 0 .. Block /\ n \in Nat /\ l \in Nat /\ n + 1 \in Nat /\ 0 \in Nat /\ 1 \in Nat
      /\ 0 + (n + 1) = n + 1 /\ 0 + n = n /\ 0 + Block = Block /\ n <= Block
  BY Sizes DEF Holds
<1>2. 2^ByteBits \in Nat /\ 2^ByteBits >= 2
  <2>1. ByteBits - 1 \in Nat /\ (ByteBits - 1) + 1 = ByteBits
    BY <1>1
  <2> DEFINE k == ByteBits - 1
  <2>2. 2^(k + 1) = 2 * 2^k /\ 2^k \in Nat \ {0}
    BY <2>1, PowerNext, PowerOfTwo
  <2> HIDE DEF k
  <2>3. 2^(k + 1) \in Nat /\ 2^(k + 1) >= 2
    BY <2>2
  <2> QED BY <2>1, <2>3, Zenon DEF k
<1>3. Byte = 0 .. 2^ByteBits - 1 /\ 0 \in Byte /\ 1 \in Byte /\ \A y \in Byte : y \in Nat
  BY <1>2 DEF Byte
<1>4. p = [i \in 0 .. Block |-> at(i)]
  BY Zenon DEF Padded
<1>5. \A i \in 0 .. Block : /\ i < n => at(i) = buffer[i]
                            /\ i = n => at(i) = 1
                            /\ i > n => at(i) = 0
                            /\ (i < n \/ i = n \/ i > n)
  BY <1>1
<1>6. \A i \in 0 .. Block : buffer[i] \in Byte
  BY Zenon DEF Holds
<1>7. \A i \in 0 .. Block : at(i) \in Byte /\ p[i] = at(i)
  <2> HIDE DEF at
  <2>1. \A i \in 0 .. Block : at(i) \in Byte
    BY <1>3, <1>5, <1>6, Zenon
  <2> QED BY <1>4, <2>1, Zenon
<1> HIDE DEF at, p
<1>8. p \in [0 .. Block -> Byte] /\ \A i \in 0 .. Block : p[i] \in Nat
  BY <1>3, <1>4, <1>7, Zenon
<1>9. Block \in 0 .. Block /\ n \in 0 .. Block
  BY <1>1
<1>10. p[Block] \in {0, 1} /\ p[n] = 1
  <2>1. Block = n \/ Block > n
    BY <1>1
  <2> QED BY <1>5, <1>7, <1>9, <2>1, Zenon
<1> DEFINE L(m) == LittleEndian(ByteBits, p, 0, m)
           v == 2^(ByteBits * n)
<1>11. DigitsFrom(p, 0, Block + 1) /\ DigitsFrom(p, 0, Block) /\ DigitsFrom(p, 0, n) /\ DigitsFrom(p, 0, n + 1)
       /\ DigitsFrom(p, 0, (n + 1) + l)
  <2>1. ASSUME NEW k \in Nat, k <= Block + 1
        PROVE  DigitsFrom(p, 0, k)
    <3>1. \A i \in 0 .. k - 1 : 0 + i = i /\ i \in 0 .. Block
      BY <1>1, <2>1
    <3> QED BY <1>8, <3>1, Zenon DEF DigitsFrom
  <2>2. Block + 1 \in Nat /\ Block + 1 <= Block + 1 /\ Block <= Block + 1 /\ n <= Block + 1 /\ n + 1 <= Block + 1
        /\ (n + 1) + l = Block + 1
    BY <1>1
  <2> QED BY <1>1, <2>1, <2>2, Zenon
<1>12. L(Block + 1) = L(Block) + p[Block] * 2^(ByteBits * Block)
  <2>1. NextDigit(ByteBits, p, 0, Block)
    BY <1>1, <1>11, LittleMore, Zenon
  <2> QED BY <1>1, <2>1, Zenon DEF NextDigit
<1>13. L(n + 1) = L(n) + v
  <2>1. NextDigit(ByteBits, p, 0, n)
    BY <1>1, <1>11, LittleMore, Zenon
  <2>2. L(n + 1) = L(n) + 1 * v
    BY <1>1, <1>10, <2>1, Zenon DEF NextDigit
  <2>3. v \in Nat
    <3>1. ByteBits * n \in Nat
      BY <1>1, Times
    <3> QED BY <3>1, PowerType
  <2> HIDE DEF v
  <2>4. 1 * v = v
    BY <2>3
  <2> QED BY <2>2, <2>4, Zenon
<1>14. L(Block + 1) = L(n + 1)
  <2>1. SplitsAt(ByteBits, p, 0, n + 1, l)
    BY <1>1, <1>11, LittleSplit, Zenon
  <2>2. \A m \in 0 .. l - 1 : p[(n + 1) + m] = 0
    <3>1. \A m \in 0 .. l - 1 : (n + 1) + m \in 0 .. Block /\ (n + 1) + m > n
      BY <1>1
    <3> QED BY <1>5, <1>7, <3>1, Zenon
  <2>3. LittleEndian(ByteBits, p, n + 1, l) = 0
    <3> DEFINE e == n + 1
    <3>1. ByteBits \in Nat /\ e \in Nat /\ l \in Nat
      BY <1>1
    <3> HIDE DEF e, l, p
    <3>2. LittleEndian(ByteBits, p, e, l) = 0
      BY <2>2, <3>1, LittleZeros DEF e
    <3> QED BY <3>2, Zenon DEF e
  <2> DEFINE w == 2^(ByteBits * (n + 1))
  <2>4. w \in Nat
    <3>1. ByteBits * (n + 1) \in Nat
      BY <1>1, Times
    <3> QED BY <3>1, PowerType
  <2>5. L(n + 1) \in Nat
    BY <1>1, <1>11, LittleType, Zenon
  <2>6. L((n + 1) + l) = L(n + 1) + w * 0
    BY <1>1, <2>1, <2>3, Zenon DEF SplitsAt
  <2> DEFINE e == L(n + 1)
  <2>7. e \in Nat /\ L((n + 1) + l) = e + w * 0
    BY <2>5, <2>6, Zenon
  <2> HIDE DEF e, w
  <2>8. L((n + 1) + l) = e
    <3>1. e + w * 0 = e
      BY <2>4, <2>7
    <3> QED BY <2>7, <3>1, Zenon
  <2>9. (n + 1) + l = Block + 1
    BY <1>1
  <2> QED BY <2>8, <2>9, Zenon DEF e
<1>15. 2^(ByteBits * Block) = Weight(4)
  <2>1. ByteBits * Block = WordBits * 4
    <3>1. Block = 4 * Bytes /\ WordBits = ByteBits * Bytes /\ Bytes \in Nat
      BY Sizes
    <3>2. ByteBits * (4 * Bytes) = (ByteBits * Bytes) * 4
      BY <1>1, <3>1, Z3
    <3> QED BY <3>1, <3>2, Zenon
  <2> QED BY <2>1, Zenon DEF Weight
<1>16. L(n) = LittleEndian(ByteBits, block, 1, n) /\ L(n) \in Nat
  <2>1. SameDigits(p, 0, block, 1, n)
    <3>1. \A i \in 0 .. n - 1 : 0 + i = i /\ 1 + i = i + 1 /\ i \in 0 .. Block /\ i < n
      BY <1>1
    <3>2. \A i \in 0 .. n - 1 : buffer[i] = block[i + 1]
      BY Zenon DEF Holds
    <3> QED BY <1>5, <1>7, <3>1, <3>2, Zenon DEF SameDigits
  <2>2. SameNumber(ByteBits, p, 0, block, 1, n)
    BY <1>1, <1>11, <2>1, LittleSame, Zenon
  <2> QED BY <1>1, <1>11, <2>2, LittleType, Zenon DEF SameNumber
<1>17. BlockNumber(block) = L(n) + v
  <2>1. Len(block) = n
    BY Zenon DEF Holds
  <2> QED BY <1>16, <2>1, Zenon DEF BlockNumber
<1>18. L(n) + v \in Nat
  <2>1. ByteBits * n \in Nat
    BY <1>1, Times
  <2>2. v \in Nat
    BY <2>1, PowerType
  <2> DEFINE e == L(n)
  <2>3. e \in Nat
    BY <1>16, Zenon
  <2> HIDE DEF e, v
  <2>4. e + v \in Nat
    BY <2>2, <2>3
  <2> QED BY <2>4, Zenon DEF e
<1>19. L(Block) + p[Block] * Weight(4) = BlockNumber(block) /\ BlockNumber(block) \in Nat
  BY <1>12, <1>13, <1>14, <1>15, <1>17, <1>18, Zenon
<1> QED BY <1>8, <1>10, <1>19, Zenon DEF p

PadWord(i) == IF i < 4 THEN LoadWord(Padded, i * Bytes) ELSE Padded[Block]
AddSum == [i \in 0 .. 7 |-> IF i <= 4 THEN Cut(a[i] + PadWord(i)) ELSE a[i]]

\* The accumulator and the block, summed.
LEMMA AddRight ==
  ASSUME Reduced, NEW block, Holds(block)
  PROVE  LET c == Carried(AddSum, 4)
         IN  /\ c \in [0 .. 7 -> Nat] /\ c[4] \in 0 .. 5 /\ Wide(c) = Number(a, 5) + BlockNumber(block)
             /\ Roomy(AddSum)
<1> DEFINE x == AddSum
           c == Carried(x, 4)
           v == Weight(4)
           k == High(c[3])
           one == Padded[Block]
           w == [i \in 0 .. 3 |-> PadWord(i)]
           sq == Base * Base
<1>1. v \in Nat \ {0} /\ Base \in Nat /\ Base >= 64 /\ Word = 0 .. Base - 1
  <2>1. v \in Nat /\ v >= 64
    BY Modulus, Zenon
  <2>2. Base \in Nat /\ Base >= 64 /\ Word = 0 .. Base - 1
    BY Weights, Zenon
  <2> HIDE DEF v
  <2> QED BY <2>1, <2>2
<1>2. Padded \in [0 .. Block -> Byte] /\ one \in {0, 1} /\ LittleEndian(ByteBits, Padded, 0, Block) + one * v = BlockNumber(block)
  BY PaddedNumber, Zenon
<1>3. sq \in Nat /\ sq >= 64 * Base
  BY <1>1, Z3
<1> HIDE DEF sq
<1>4. \A y, z \in Word : y + z \in Nat /\ y + z < sq /\ y + z <= sq - Base /\ y \in Nat /\ z \in Nat
  BY <1>1, <1>3
<1>5. WordsOf(Padded, w, 4) /\ \A i \in 0 .. 4 - 1 : w[i] \in Word
  <2>1. \A i \in 0 .. 4 - 1 : i \in 0 .. 3 /\ i < 4 /\ 4 \in Nat
    OBVIOUS
  <2>2. \A i \in 0 .. 4 - 1 : w[i] = LoadWord(Padded, i * Bytes)
    BY <2>1, Zenon DEF PadWord
  <2>3. \A i \in 0 .. 4 * Bytes - 1 : Padded[i] \in Byte
    <3>1. \A i \in 0 .. 4 * Bytes - 1 : i \in 0 .. Block
      BY Sizes
    <3> QED BY <1>2, <3>1, Zenon
  <2>4. 4 \in Nat
    OBVIOUS
  <2> HIDE DEF w
  <2> QED BY <2>2, <2>3, <2>4, LittleWords, Zenon
<1>6. \A i \in 0 .. 3 : w[i] = PadWord(i) /\ w[i] \in Word /\ a[i] \in Word
  <2>1. \A i \in 0 .. 3 : i \in 0 .. 4 - 1
    OBVIOUS
  <2> HIDE DEF w
  <2>2. \A i \in 0 .. 3 : w[i] \in Word /\ a[i] \in Word
    BY <1>5, <2>1, Zenon DEF Reduced
  <2>3. \A i \in 0 .. 3 : w[i] = PadWord(i)
    BY Zenon DEF w
  <2> QED BY <2>2, <2>3, Zenon
<1> HIDE DEF w, one
<1>7. a \in [0 .. 7 -> Nat] /\ a[4] \in 0 .. 3
  BY Zenon DEF Reduced
<1>8. a[4] + one \in Nat /\ a[4] + one < sq /\ a[4] + one <= 4
  <2>1. \A y \in 0 .. 3 : \A z \in {0, 1} : y + z \in Nat /\ y + z < sq /\ y + z <= 4
    BY <1>1, <1>3
  <2>2. one \in {0, 1}
    BY <1>2, Zenon DEF one
  <2> QED BY <1>7, <2>1, <2>2, Zenon
<1>9. \A n \in Nat : n < sq => Cut(n) = n
  BY LowHigh, Zenon DEF sq
<1> DEFINE at(i) == IF i <= 4 THEN Cut(a[i] + PadWord(i)) ELSE a[i]
<1>10. x = [i \in 0 .. 7 |-> at(i)]
  BY Zenon DEF AddSum
<1>11. \A i \in 0 .. 3 : i \in 0 .. 7 /\ i <= 4 /\ i < 4 /\ 4 \in 0 .. 7 /\ 4 <= 4 /\ ~(4 < 4)
  OBVIOUS
<1>12. \A i \in 0 .. 3 : at(i) = a[i] + w[i] /\ at(i) \in Nat /\ at(i) < sq /\ at(i) <= sq - Base
  <2> SUFFICES ASSUME NEW i \in 0 .. 3
               PROVE  at(i) = a[i] + w[i] /\ at(i) \in Nat /\ at(i) < sq /\ at(i) <= sq - Base
    BY Zenon
  <2>1. at(i) = Cut(a[i] + w[i])
    BY <1>6, <1>11, Zenon
  <2> DEFINE y == a[i] + w[i]
  <2>2. y \in Nat /\ y < sq /\ y <= sq - Base
    BY <1>4, <1>6, Zenon
  <2>3. at(i) = Cut(y)
    BY <2>1, Zenon
  <2> HIDE DEF y, at
  <2>4. at(i) = y
    BY <1>9, <2>2, <2>3, Zenon
  <2>5. at(i) \in Nat /\ at(i) < sq /\ at(i) <= sq - Base
    BY <2>2, <2>4, Zenon
  <2> QED BY <2>4, <2>5, Zenon DEF y
<1>13. at(4) = a[4] + one
  <2>1. PadWord(4) = one
    <3>1. ~(4 < 4)
      OBVIOUS
    <3> QED BY <3>1, Zenon DEF PadWord, one
  <2>2. at(4) = Cut(a[4] + one)
    BY <1>11, <2>1, Z3
  <2> HIDE DEF at
  <2> QED BY <1>8, <1>9, <2>2, Zenon
<1>14. \A i \in 0 .. 7 : ~(i <= 4) => at(i) = a[i]
  BY Zenon
<1>15. \A i \in 0 .. 7 : i \in 0 .. 3 \/ i = 4 \/ ~(i <= 4)
  OBVIOUS
<1> HIDE DEF at
<1>16. \A i \in 0 .. 7 : at(i) \in Nat
  <2>1. at(4) \in Nat
    BY <1>8, <1>13, Zenon
  <2>2. \A i \in 0 .. 3 : at(i) \in Nat
    BY <1>12, Zenon
  <2>3. \A i \in 0 .. 7 : ~(i <= 4) => at(i) \in Nat
    BY <1>7, <1>14, Zenon
  <2> QED BY <1>15, <2>1, <2>2, <2>3, Zenon
<1>17. 4 \in 0 .. 7
  OBVIOUS
<1>18. /\ x \in [0 .. 7 -> Nat] /\ x[4] = a[4] + one
       /\ \A i \in 0 .. 3 : x[i] = a[i] + w[i] /\ x[i] <= sq - Base
  <2>1. x \in [0 .. 7 -> Nat] /\ x[4] = a[4] + one
    BY <1>10, <1>13, <1>16, <1>17, Zenon
  <2>2. \A i \in 0 .. 3 : x[i] = at(i)
    BY <1>10, <1>11, Zenon
  <2> HIDE DEF x
  <2>3. \A i \in 0 .. 3 : x[i] = a[i] + w[i] /\ x[i] <= sq - Base
    <3> SUFFICES ASSUME NEW i \in 0 .. 3
                 PROVE  x[i] = a[i] + w[i] /\ x[i] <= sq - Base
      BY Zenon
    <3>1. x[i] = at(i) /\ at(i) = a[i] + w[i] /\ at(i) <= sq - Base
      BY <1>12, <2>2, Zenon
    <3> QED BY <3>1, Zenon
  <2> QED BY <2>1, <2>3, Zenon
<1> HIDE DEF x
<1>19. /\ x[0] <= Base * Base - Base /\ x[1] <= Base * Base - Base /\ x[2] <= Base * Base - Base
       /\ x[3] <= Base * Base - Base /\ x[4] <= Base
  <2>1. 0 \in 0 .. 3 /\ 1 \in 0 .. 3 /\ 2 \in 0 .. 3 /\ 3 \in 0 .. 3
    OBVIOUS
  <2>2. x[4] <= Base
    <3> DEFINE y == a[4] + one
    <3>1. y \in Nat /\ y <= 4 /\ x[4] = y
      BY <1>8, <1>18, Zenon
    <3> HIDE DEF y
    <3>2. y <= Base
      BY <1>1, <3>1
    <3> QED BY <3>1, <3>2, Zenon
  <2> QED BY <1>18, <2>1, <2>2, Zenon DEF sq
<1>20. /\ c \in [0 .. 7 -> Nat] /\ k \in 0 .. Base - 1 /\ Number(Lows(c), 4) + k * v = Number(x, 4)
       /\ Wide(c) = Number(x, 5) /\ c[4] = x[4] + k
  BY <1>18, <1>19, CarriedFive, Zenon
<1>21. Number(x, 4) = Number(a, 4) + Number(w, 4)
  <2>1. \A i \in 0 .. 3 : a[i] \in Nat /\ w[i] \in Nat /\ x[i] = a[i] + w[i]
    BY <1>4, <1>6, <1>18, Zenon
  <2> QED BY <2>1, NumberPlus, Zenon DEF Adds
<1>22. Number(x, 5) = Number(x, 4) + x[4] * v
  <2>1. \A i \in 0 .. 4 : i \in 0 .. 7 /\ 4 \in Nat /\ 4 + 1 = 5
    OBVIOUS
  <2>2. 4 \in Nat /\ 4 + 1 = 5
    OBVIOUS
  <2>3. \A i \in 0 .. 4 : x[i] \in Nat
    BY <1>18, <2>1, Zenon
  <2>4. NextWord(x, 4)
    BY <2>2, <2>3, NumberNext, Zenon
  <2> QED BY <2>2, <2>4, Zenon DEF NextWord
<1>23. LittleEndian(ByteBits, Padded, 0, Block) = Number(w, 4)
  <2>1. 4 * Bytes = Block
    BY Sizes
  <2> QED BY <1>5, <2>1, Zenon DEF WordsOf
<1>24. Number(w, 4) \in 0 .. v - 1
  <2>1. 4 \in Nat
    OBVIOUS
  <2> QED BY <1>5, <2>1, NumberBound, Zenon
<1>25. Number(Lows(c), 4) \in 0 .. v - 1
  <2>1. 4 \in Nat /\ \A i \in 0 .. 4 - 1 : i \in 0 .. 7
    OBVIOUS
  <2>2. \A i \in 0 .. 7 : c[i] \in Nat
    BY <1>20, Zenon
  <2>3. \A i \in 0 .. 4 - 1 : Lows(c)[i] \in Word
    BY <1>1, <2>1, <2>2, LowHigh, Zenon DEF Lows
  <2> QED BY <2>1, <2>3, NumberBound, Zenon
<1>26. Number(a, 5) = Number(a, 4) + a[4] * v /\ Number(a, 4) \in 0 .. v - 1
  BY ReducedNumber, Zenon
<1> DEFINE m == Number(Lows(c), 4)
           n == Number(a, 4)
           e == Number(w, 4)
           z == a[4]
           B == BlockNumber(block)
           N == Number(a, 5)
           W == Wide(c)
           M == Number(x, 4)
<1>27. /\ m + k * v = M /\ M = n + e /\ W = M + x[4] * v /\ x[4] = z + one /\ c[4] = x[4] + k
       /\ N = n + z * v /\ B = e + one * v /\ m \in 0 .. v - 1 /\ n \in 0 .. v - 1 /\ e \in 0 .. v - 1
       /\ z \in 0 .. 3 /\ one \in {0, 1} /\ k \in 0 .. Base - 1
  <2>1. m + k * v = M /\ W = M + x[4] * v /\ c[4] = x[4] + k /\ k \in 0 .. Base - 1
    BY <1>20, <1>22, Zenon
  <2>2. M = n + e /\ x[4] = z + one /\ z \in 0 .. 3 /\ one \in {0, 1}
    BY <1>2, <1>7, <1>18, <1>21, Zenon
  <2>3. B = e + one * v
    BY <1>2, <1>23, Zenon
  <2>4. N = n + z * v /\ m \in 0 .. v - 1 /\ n \in 0 .. v - 1 /\ e \in 0 .. v - 1
    BY <1>24, <1>25, <1>26, Zenon
  <2> QED BY <2>1, <2>2, <2>3, <2>4, Zenon
<1> HIDE DEF m, n, e, z, B, N, W, k, v, M, c
<1>28. k \in {0, 1}
  <2>1. SUFFICES ASSUME k >= 2 PROVE FALSE
    BY <1>1, <1>27
  <2>2. k * v >= 2 * v /\ k * v \in Nat
    BY <1>1, <1>27, <2>1, Z3
  <2> QED BY <1>1, <1>27, <2>2
<1>29. c[4] \in 0 .. 5
  BY <1>27, <1>28
<1>30. W = N + B
  <2>1. (z + one) * v = z * v + one * v /\ z * v \in Nat /\ one * v \in Nat
    <3>1. z \in Nat /\ one \in Nat /\ v \in Nat
      BY <1>1, <1>27
    <3> QED BY <3>1, Z3
  <2> DEFINE y == z * v
             t == one * v
             u == (z + one) * v
  <2>2. W = M + u /\ u = y + t /\ N = n + y /\ B = e + t /\ y \in Nat /\ t \in Nat /\ M = n + e
    BY <1>27, <2>1, Zenon
  <2>3. n \in Nat /\ e \in Nat
    BY <1>1, <1>27
  <2> HIDE DEF y, t, u
  <2> QED BY <2>2, <2>3
<1>31. Roomy(x)
  BY <1>18, <1>19, Zenon DEF Roomy
<1> QED BY <1>20, <1>29, <1>30, <1>31, Zenon DEF W, N, B, c, x

-----------------------------------------------------------------------------
(* The polynomial, block by block, and of a message that gets longer.      *)

Multiplied(x, y) == TimesModP(x, y) = (x * y) % P

\* Equal remainders, multiplied and added to, are equal still.
LEMMA CongruentAffine ==
  ASSUME NEW n \in Nat \ {0}, NEW x \in Nat, NEW y \in Nat, NEW z \in Nat
  PROVE  Congruent((x % n) * y + z, x * y + z, n)
<1> DEFINE g == (x % n) * y
           h == x * y
<1>1. g \in Nat /\ h \in Nat
  <2>1. x % n \in Nat
    BY Divided
  <2> QED BY <2>1, Times
<1>2. g % n = h % n
  BY CongruentTimes, Zenon DEF Congruent
<1> HIDE DEF g, h
<1>3. ((g % n) + z) % n = (g + z) % n /\ ((h % n) + z) % n = (h + z) % n
  BY <1>1, CongruentSum DEF Congruent
<1>4. (g + z) % n = (h + z) % n
  BY <1>2, <1>3, Zenon
<1> QED BY <1>4, Zenon DEF Congruent, g, h

\* TimesModP is what its name says.
LEMMA TimesRight ==
  ASSUME NEW x \in Nat, NEW y \in Nat
  PROVE  Multiplied(x, y)
<1> DEFINE body(f, v) == IF v = 0 THEN 0 ELSE (8 * f[v \div 8] + x * (v % 8)) % P
           Times3(f) == f = [v \in Nat |-> IF v = 0 THEN 0 ELSE (8 * f[v \div 8] + x * (v % 8)) % P]
           f0 == [v \in Nat |-> (x * v) % P]
<1>1. P \in Nat \ {0}
  BY Modulus, Zenon
<1>2. \A v \in Nat : v # 0 => v \div 8 \in Nat /\ v \div 8 < v
  BY Z3
<1>3. \A v \in Nat : v # 0 => (8 * ((x * (v \div 8)) % P) + x * (v % 8)) % P = (x * v) % P
  <2> SUFFICES ASSUME NEW v \in Nat, v # 0
               PROVE  (8 * ((x * (v \div 8)) % P) + x * (v % 8)) % P = (x * v) % P
    BY Zenon
  <2> DEFINE q == v \div 8
             t == v % 8
             N == x * q
             z == x * t
             w == N % P
  <2>1. q \in Nat /\ t \in Nat /\ v = q * 8 + t
    BY Z3
  <2> HIDE DEF q, t
  <2>2. N \in Nat /\ z \in Nat /\ x * v = N * 8 + z
    <3>1. x * q \in Nat /\ x * t \in Nat /\ x * (q * 8 + t) = (x * q) * 8 + x * t
      BY <2>1, Z3
    <3> QED BY <2>1, <3>1, Zenon
  <2> HIDE DEF N, z
  <2>3. w \in Nat
    BY <1>1, <2>2, Divided
  <2>4. Congruent(w * 8 + z, N * 8 + z, P)
    <3>1. 8 \in Nat
      OBVIOUS
    <3> QED BY <1>1, <2>2, <3>1, CongruentAffine, Zenon
  <2> HIDE DEF w
  <2>5. 8 * w = w * 8
    BY <2>3
  <2>6. (8 * w + z) % P = (x * v) % P
    BY <2>2, <2>4, <2>5, Zenon DEF Congruent
  <2> QED BY <2>6, Zenon DEF w, N, z, q, t
<1>4. (x * 0) % P = 0
  <2>1. x * 0 = 0
    OBVIOUS
  <2>2. 0 % P = 0
    BY <1>1
  <2> QED BY <2>1, <2>2, Zenon
<1>5. \A v \in Nat : f0[v] = (x * v) % P
  BY Zenon
<1>6. \A v \in Nat : f0[v] = body(f0, v)
  <2> SUFFICES ASSUME NEW v \in Nat PROVE f0[v] = body(f0, v)
    BY Zenon
  <2>1. CASE v = 0
    BY <1>4, <1>5, <2>1, Zenon
  <2>2. CASE v # 0
    <3> DEFINE q == v \div 8
    <3>1. f0[q] = (x * q) % P
      BY <1>2, <1>5, <2>2, Zenon
    <3> HIDE DEF f0
    <3>2. body(f0, v) = (8 * ((x * q) % P) + x * (v % 8)) % P
      BY <2>2, <3>1, Zenon
    <3> QED BY <1>3, <1>5, <2>2, <3>2, Zenon
  <2> QED BY <2>1, <2>2, Zenon
<1>7. Times3(f0)
  <2>1. f0 = [v \in Nat |-> f0[v]]
    BY Zenon
  <2> HIDE DEF f0
  <2> QED BY <1>6, <2>1, Zenon
<1>8. TimesModP(x, y) = (CHOOSE f : Times3(f))[y]
  BY Zenon DEF TimesModP
<1> DEFINE h == CHOOSE f : Times3(f)
<1>9. Times3(h)
  <2> HIDE DEF Times3, f0
  <2> QED BY <1>7, Zenon
<1> HIDE DEF h, f0
<1>10. \A v \in Nat : h[v] = body(h, v)
  BY <1>9, Zenon
<1> HIDE DEF Times3
<1>11. \A v \in Nat : h[v] = f0[v]
  <2> DEFINE T == {v \in Nat : h[v] # f0[v]}
  <2> SUFFICES ASSUME T # {} PROVE FALSE
    BY Zenon
  <2>1. T \subseteq Nat
    BY Zenon
  <2>2. PICK m \in T : \A n \in T : ~(n < m)
    <3> HIDE DEF T
    <3> QED BY <2>1, Least, Zenon
  <2>3. m \in Nat /\ h[m] # f0[m]
    BY <2>2, Zenon
  <2>4. CASE m = 0
    BY <1>6, <1>10, <2>3, <2>4, Zenon
  <2>5. CASE m # 0
    <3> DEFINE q == m \div 8
    <3>1. q \in Nat /\ q < m
      BY <1>2, <2>3, <2>5, Zenon
    <3>2. h[q] = f0[q]
      BY <2>2, <3>1, Zenon
    <3> HIDE DEF T
    <3>3. h[m] = (8 * h[q] + x * (m % 8)) % P /\ f0[m] = (8 * f0[q] + x * (m % 8)) % P
      BY <1>6, <1>10, <2>3, <2>5, Zenon
    <3> QED BY <2>3, <3>2, <3>3, Zenon
  <2> QED BY <2>4, <2>5, Zenon
<1>12. TimesModP(x, y) = (x * y) % P
  BY <1>5, <1>8, <1>11, Zenon DEF h
<1> QED BY <1>12, Zenon DEF Multiplied

LEMMA ByteNumbers == \A y \in Byte : y \in Nat
<1>1. 2^ByteBits \in Nat
  BY Sizes, PowerType
<1> QED BY <1>1 DEF Byte

\* The number of a block is one.
LEMMA BlockType ==
  ASSUME NEW block \in Seq(Byte)
  PROVE  BlockNumber(block) \in Nat
<1> DEFINE l == Len(block)
           v == 2^(ByteBits * l)
           e == LittleEndian(ByteBits, block, 1, l)
<1>1. l \in Nat /\ ByteBits \in Nat /\ 1 \in Nat
  BY Sizes
<1>2. v \in Nat
  <2> HIDE DEF l
  <2>1. ByteBits * l \in Nat
    BY <1>1, Times
  <2> QED BY <2>1, PowerType
<1>3. e \in Nat
  <2>1. \A m \in 0 .. l - 1 : block[1 + m] \in Byte
    OBVIOUS
  <2> HIDE DEF l
  <2>2. DigitsFrom(block, 1, l)
    BY <2>1, ByteNumbers, Zenon DEF DigitsFrom
  <2> QED BY <1>1, <2>2, LittleType, Zenon
<1> HIDE DEF e, v
<1>4. e + v \in Nat
  BY <1>2, <1>3
<1> QED BY <1>4, Zenon DEF BlockNumber, e, v, l

LEMMA PieceType ==
  ASSUME NEW bytes \in Seq(Byte), NEW k \in Nat \ {0}
  PROVE  Piece(bytes, k) \in Seq(Byte) /\ BlockNumber(Piece(bytes, k)) \in Nat
<1> DEFINE x == (k - 1) * Block
           z == k * Block
           w == IF z < Len(bytes) THEN z ELSE Len(bytes)
<1>1. x \in Nat /\ z \in Nat
  <2>1. k - 1 \in Nat /\ k \in Nat /\ Block \in Nat
    BY Sizes
  <2> QED BY <2>1, Times
<1> HIDE DEF x, z
<1>2. x + 1 \in Int /\ w \in Int /\ \A i \in x + 1 .. w : bytes[i] \in Byte
  BY <1>1
<1> HIDE DEF w
<1>3. SubSeq(bytes, x + 1, w) \in Seq(Byte)
  BY <1>2, SubSeqProperties
<1>4. Piece(bytes, k) \in Seq(Byte)
  BY <1>3, Zenon DEF Piece, x, z, w
<1> QED BY <1>4, BlockType, Zenon

PieceNumber(bytes, k) == BlockNumber(Piece(bytes, k))

\* What a block does to the polynomial of those before it.
Absorbed(value, number, multiplier) == (((value + number) % P) * multiplier) % P

\* Partial as any function that takes a block at a time.
TakesBlocks(f, bytes, multiplier, n) ==
  /\ f \in [0 .. n -> 0 .. P - 1]
  /\ \A k \in 0 .. n : f[k] = IF k = 0 THEN 0 ELSE Absorbed(f[k - 1], PieceNumber(bytes, k), multiplier)

\* Its values are numbers below P.
LEMMA AbsorbedType ==
  ASSUME NEW x \in Nat, NEW y \in Nat, NEW z \in Nat
  PROVE  TimesModP((x + y) % P, z) = Absorbed(x, y, z) /\ Absorbed(x, y, z) \in 0 .. P - 1
<1> DEFINE e == x + y
           w == e % P
           g == w * z
           k == g % P
<1>1. P \in Nat \ {0}
  BY Modulus, Zenon
<1>2. e \in Nat
  OBVIOUS
<1> HIDE DEF e
<1>3. w \in Nat
  BY <1>1, <1>2, Divided
<1> HIDE DEF w
<1>4. TimesModP(w, z) = k
  BY <1>3, TimesRight, Zenon DEF Multiplied
<1>5. g \in Nat
  BY <1>3, Times
<1> HIDE DEF g
<1>6. k \in 0 .. P - 1
  BY <1>1, <1>5, Divided
<1>7. Absorbed(x, y, z) = k
  BY Zenon DEF Absorbed, e, w, g
<1> QED BY <1>4, <1>6, <1>7, Zenon DEF e, w

\* The function Partial takes its value from.
LEMMA PartialExists ==
  ASSUME NEW bytes \in Seq(Byte), NEW multiplier \in Nat, NEW n \in Nat
  PROVE  \E f : TakesBlocks(f, bytes, multiplier, n) /\ Partial(bytes, multiplier, n) = f[n]
<1> DEFINE D == 0 .. n
           R == 0 .. P - 1
           B(k) == PieceNumber(bytes, k)
           Next1(v, k) == Absorbed(v, B(k), multiplier)
           step == [p \in R \X D |-> IF p[2] = 0 THEN 0 ELSE Next1(p[1], p[2])]
           Is(f) == f = [k \in 0 .. n |->
                           IF k = 0 THEN 0 ELSE TimesModP((f[k - 1] + BlockNumber(Piece(bytes, k))) % P, multiplier)]
<1>1. P \in Nat \ {0} /\ 0 \in R /\ \A v \in R : v \in Nat
  BY Modulus
<1>2. \A k \in D : k # 0 => k - 1 \in D /\ k \in Nat \ {0}
  OBVIOUS
<1>3. \A v \in R : \A k \in D : k # 0 => /\ Next1(v, k) \in R
                                         /\ TimesModP((v + BlockNumber(Piece(bytes, k))) % P, multiplier) = Next1(v, k)
  <2> HIDE DEF D, R
  <2> SUFFICES ASSUME NEW v \in R, NEW k \in D, k # 0
               PROVE  /\ Next1(v, k) \in R
                      /\ TimesModP((v + BlockNumber(Piece(bytes, k))) % P, multiplier) = Next1(v, k)
    BY Zenon
  <2>1. v \in Nat /\ k \in Nat \ {0}
    BY <1>1, <1>2, Zenon
  <2>2. B(k) \in Nat
    BY <2>1, PieceType, Zenon DEF PieceNumber
  <2> DEFINE y == B(k)
  <2>3. TimesModP((v + y) % P, multiplier) = Absorbed(v, y, multiplier) /\ Absorbed(v, y, multiplier) \in 0 .. P - 1
    <3> HIDE DEF y
    <3> QED BY <2>1, <2>2, AbsorbedType DEF y
  <2> QED BY <2>3, Zenon DEF PieceNumber, R
<1> HIDE DEF Next1
<1>4. step \in [R \X D -> R]
  <2>1. \A p \in R \X D : p[1] \in R /\ p[2] \in D
    <3> HIDE DEF D, R
    <3> QED OBVIOUS
  <2> HIDE DEF D, R
  <2> QED BY <1>1, <1>3, <2>1, Zenon
<1>5. \A v \in R : \A k \in D : step[<<v, k>>] = IF k = 0 THEN 0 ELSE Next1(v, k)
  <2>1. \A v \in R : \A k \in D : <<v, k>> \in R \X D /\ <<v, k>>[1] = v /\ <<v, k>>[2] = k
    <3> HIDE DEF D, R
    <3> QED OBVIOUS
  <2> HIDE DEF D, R
  <2> QED BY <2>1, Zenon
<1> HIDE DEF step
<1>6. PICK f \in [D -> R] : Follows(f, D, 0, step)
  <2>1. D \subseteq Nat /\ 0 \in D /\ (\A m \in Nat : m + 1 \in D => m \in D)
    OBVIOUS
  <2> HIDE DEF D, R
  <2> QED BY <1>1, <1>4, <2>1, Recursion, Zenon
<1>7. \A k \in D : f[k] = IF k = 0 THEN 0 ELSE Next1(f[k - 1], k)
  <2> SUFFICES ASSUME NEW k \in D PROVE f[k] = IF k = 0 THEN 0 ELSE Next1(f[k - 1], k)
    BY Zenon
  <2> HIDE DEF D, R
  <2>2. f[k] = IF k = 0 THEN 0 ELSE step[f[k - 1], k]
    BY <1>6, Zenon DEF Follows
  <2>3. k # 0 => f[k - 1] \in R
    BY <1>2, <1>6, Zenon
  <2> QED BY <1>5, <2>2, <2>3, Zenon
<1>8. \A k \in D : k # 0 => TimesModP((f[k - 1] + BlockNumber(Piece(bytes, k))) % P, multiplier) = Next1(f[k - 1], k)
  <2> HIDE DEF D, R
  <2>1. \A k \in D : k # 0 => f[k - 1] \in R
    BY <1>2, <1>6, Zenon
  <2> QED BY <1>3, <2>1, Zenon
<1>9. Is(f)
  <2>1. f = [k \in 0 .. n |-> f[k]]
    BY <1>6, Zenon
  <2>2. \A k \in 0 .. n : f[k] = IF k = 0 THEN 0 ELSE TimesModP((f[k - 1] + BlockNumber(Piece(bytes, k))) % P, multiplier)
    BY <1>7, <1>8, Zenon
  <2> QED BY <2>1, <2>2, Zenon
<1>10. Partial(bytes, multiplier, n) = (CHOOSE g : Is(g))[n]
  BY Zenon DEF Partial
<1> DEFINE h == CHOOSE g : Is(g)
<1>11. Is(h)
  <2> HIDE DEF Is
  <2> QED BY <1>9, Zenon
<1> HIDE DEF h
<1>12. h = f
  <2> DEFINE Same == {m \in Nat : m <= n => h[m] = f[m]}
             value(g, k) == IF k = 0 THEN 0 ELSE TimesModP((g[k - 1] + BlockNumber(Piece(bytes, k))) % P, multiplier)
  <2>1. h = [k \in 0 .. n |-> value(h, k)] /\ f = [k \in 0 .. n |-> value(f, k)]
    BY <1>9, <1>11, Zenon
  <2>2. \A k \in 0 .. n : h[k] = value(h, k) /\ f[k] = value(f, k)
    <3> HIDE DEF value
    <3> QED BY <2>1, Zenon
  <2> HIDE DEF Is
  <2>3. 0 \in Same
    <3>1. 0 \in 0 .. n /\ 0 \in Nat
      OBVIOUS
    <3> QED BY <2>2, <3>1, Zenon
  <2>4. ASSUME NEW m \in Nat, m \in Same PROVE m + 1 \in Same
    <3> SUFFICES ASSUME m + 1 <= n PROVE h[m + 1] = f[m + 1]
      <4>1. m + 1 \in Nat
        OBVIOUS
      <4> QED BY <4>1, Zenon
    <3> DEFINE e == m + 1
    <3>1. e \in 0 .. n /\ e # 0 /\ e - 1 = m /\ m <= n
      OBVIOUS
    <3> HIDE DEF e
    <3>2. h[m] = f[m]
      BY <2>4, <3>1, Zenon
    <3>3. value(h, e) = value(f, e)
      BY <3>1, <3>2, Zenon
    <3> HIDE DEF value
    <3> QED BY <2>2, <3>1, <3>3, Zenon DEF e
  <2>5. Nat \subseteq Same
    <3> HIDE DEF Same
    <3> QED BY <2>3, <2>4, Induction, Zenon
  <2>6. \A k \in 0 .. n : h[k] = f[k]
    <3>1. \A m \in 0 .. n : m \in Nat /\ m <= n
      OBVIOUS
    <3> QED BY <2>5, <3>1, Zenon
  <2>7. h = [k \in 0 .. n |-> h[k]] /\ f = [k \in 0 .. n |-> f[k]]
    <3> HIDE DEF value
    <3> QED BY <2>1, <2>2, Zenon
  <2> QED BY <2>6, <2>7, Zenon
<1>13. TakesBlocks(f, bytes, multiplier, n)
  BY <1>6, <1>7, Zenon DEF TakesBlocks, Next1
<1>14. Partial(bytes, multiplier, n) = f[n]
  BY <1>10, <1>12, Zenon DEF h
<1> QED BY <1>13, <1>14, Zenon

NextBlock(bytes, multiplier, n) ==
  Partial(bytes, multiplier, n + 1) = Absorbed(Partial(bytes, multiplier, n), PieceNumber(bytes, n + 1), multiplier)

\* Partial, one block more.
LEMMA PartialNext ==
  ASSUME NEW bytes \in Seq(Byte), NEW multiplier \in Nat, NEW n \in Nat
  PROVE  /\ Partial(bytes, multiplier, 0) = 0 /\ Partial(bytes, multiplier, n) \in 0 .. P - 1
         /\ NextBlock(bytes, multiplier, n)
<1> DEFINE L(m) == Partial(bytes, multiplier, m)
           R == 0 .. P - 1
           Fits(f, m) == f \in [0 .. m -> R] /\ L(m) = f[m]
                         /\ \A i \in 0 .. m : f[i] = IF i = 0 THEN 0 ELSE Absorbed(f[i - 1], PieceNumber(bytes, i), multiplier)
<1>1. ASSUME NEW m \in Nat PROVE \E f : Fits(f, m)
  <2>1. PICK f : TakesBlocks(f, bytes, multiplier, m) /\ Partial(bytes, multiplier, m) = f[m]
    BY PartialExists, Zenon
  <2>2. Fits(f, m)
    BY <2>1, Zenon DEF TakesBlocks
  <2> HIDE DEF Fits
  <2> QED BY <2>2, Zenon
<1> HIDE DEF R
<1>2. PICK f : Fits(f, n + 1)
  <2>1. n + 1 \in Nat
    OBVIOUS
  <2> HIDE DEF Fits
  <2> QED BY <1>1, <2>1, Zenon
<1>3. PICK g : Fits(g, n)
  <2> HIDE DEF Fits
  <2> QED BY <1>1, Zenon
<1>4. PICK z : Fits(z, 0)
  <2>1. 0 \in Nat
    OBVIOUS
  <2> HIDE DEF Fits
  <2> QED BY <1>1, <2>1, Zenon
<1>5. L(0) = 0
  <2>1. 0 \in 0 .. 0
    OBVIOUS
  <2> HIDE DEF L
  <2> QED BY <1>4, <2>1, Zenon
<1>6. L(n) \in R
  <2>1. n \in 0 .. n
    OBVIOUS
  <2> HIDE DEF L
  <2> QED BY <1>3, <2>1, Zenon
<1>7. f[n] = g[n]
  <2> DEFINE Same == {m \in Nat : m <= n => f[m] = g[m]}
  <2>1. 0 \in Same
    <3>1. 0 \in 0 .. n /\ 0 \in 0 .. n + 1 /\ 0 \in Nat
      OBVIOUS
    <3> HIDE DEF L
    <3> QED BY <1>2, <1>3, <3>1, Zenon
  <2>2. ASSUME NEW m \in Nat, m \in Same PROVE m + 1 \in Same
    <3> SUFFICES ASSUME m + 1 <= n PROVE f[m + 1] = g[m + 1]
      <4>1. m + 1 \in Nat
        OBVIOUS
      <4> QED BY <4>1, Zenon
    <3> DEFINE e == m + 1
    <3>1. e \in 0 .. n /\ e \in 0 .. n + 1 /\ e # 0 /\ e - 1 = m /\ m <= n
      OBVIOUS
    <3> HIDE DEF e, L
    <3>2. /\ f[e] = Absorbed(f[e - 1], PieceNumber(bytes, e), multiplier)
          /\ g[e] = Absorbed(g[e - 1], PieceNumber(bytes, e), multiplier)
      BY <1>2, <1>3, <3>1, Zenon
    <3>3. f[m] = g[m]
      BY <2>2, <3>1, Zenon
    <3> QED BY <3>1, <3>2, <3>3, Zenon DEF e
  <2>3. Nat \subseteq Same
    <3> HIDE DEF Same
    <3> QED BY <2>1, <2>2, Induction, Zenon
  <2>4. n <= n
    OBVIOUS
  <2> QED BY <2>3, <2>4, Zenon
<1>8. NextBlock(bytes, multiplier, n)
  <2> DEFINE e == n + 1
  <2>1. e \in 0 .. n + 1 /\ e # 0 /\ e - 1 = n
    OBVIOUS
  <2> HIDE DEF e
  <2> HIDE DEF L
  <2>2. f[e] = Absorbed(f[e - 1], PieceNumber(bytes, e), multiplier)
    BY <1>2, <2>1, Zenon
  <2>3. L(e) = f[e] /\ L(n) = g[n]
    BY <1>2, <1>3, Zenon DEF e
  <2>4. L(e) = Absorbed(L(n), PieceNumber(bytes, e), multiplier)
    BY <1>7, <2>1, <2>2, <2>3, Zenon
  <2> QED BY <2>4, Zenon DEF NextBlock, e, L
<1> QED BY <1>5, <1>6, <1>8, Zenon DEF R

\* Messages that have the same first blocks.
SamePieces(bytes, others, n) == \A k \in Nat \ {0} : k <= n => Piece(bytes, k) = Piece(others, k)
SamePartial(bytes, others, multiplier, n) == Partial(bytes, multiplier, n) = Partial(others, multiplier, n)

LEMMA PartialSame ==
  ASSUME NEW bytes \in Seq(Byte), NEW others \in Seq(Byte), NEW multiplier \in Nat, NEW n \in Nat,
         SamePieces(bytes, others, n)
  PROVE  SamePartial(bytes, others, multiplier, n)
<1> DEFINE T == {m \in Nat : m <= n => SamePartial(bytes, others, multiplier, m)}
<1>1. 0 \in T
  <2>1. 0 \in Nat
    OBVIOUS
  <2>2. Partial(bytes, multiplier, 0) = 0 /\ Partial(others, multiplier, 0) = 0
    BY <2>1, PartialNext, Zenon
  <2> QED BY <2>1, <2>2, Zenon DEF SamePartial
<1>2. ASSUME NEW m \in Nat, m \in T PROVE m + 1 \in T
  <2> SUFFICES ASSUME m + 1 <= n PROVE SamePartial(bytes, others, multiplier, m + 1)
    <3>1. m + 1 \in Nat
      OBVIOUS
    <3> QED BY <3>1, Zenon
  <2>1. m <= n /\ m + 1 \in Nat \ {0}
    OBVIOUS
  <2>2. SamePartial(bytes, others, multiplier, m)
    BY <1>2, <2>1, Zenon
  <2>3. NextBlock(bytes, multiplier, m) /\ NextBlock(others, multiplier, m)
    BY PartialNext, Zenon
  <2>4. PieceNumber(bytes, m + 1) = PieceNumber(others, m + 1)
    BY <2>1, Zenon DEF SamePieces, PieceNumber
  <2> QED BY <2>2, <2>3, <2>4, Zenon DEF SamePartial, NextBlock
<1>3. Nat \subseteq T
  <2> HIDE DEF T
  <2> QED BY <1>1, <1>2, Induction, Zenon
<1>4. n <= n
  OBVIOUS
<1> QED BY <1>3, <1>4, Zenon

\* Whole blocks are the same in a message and in one it is the start of.
Starts(bytes, others) == Len(bytes) <= Len(others) /\ \A i \in 1 .. Len(bytes) : others[i] = bytes[i]

LEMMA StartsSame ==
  ASSUME NEW bytes \in Seq(Byte), NEW others \in Seq(Byte), Starts(bytes, others), NEW n \in Nat, n * Block <= Len(bytes)
  PROVE  SamePieces(bytes, others, n)
<1> SUFFICES ASSUME NEW k \in Nat \ {0}, k <= n
             PROVE  Piece(bytes, k) = Piece(others, k)
  BY Zenon DEF SamePieces
<1> DEFINE x == (k - 1) * Block
           z == k * Block
           l == Len(bytes)
           t == Len(others)
           w == IF z < l THEN z ELSE l
           u == IF z < t THEN z ELSE t
           y == n * Block
<1>1. z \in Nat /\ y \in Nat /\ z <= y /\ x \in Nat
  <2>1. Block \in Nat /\ k \in Nat /\ k - 1 \in Nat
    BY Sizes
  <2>2. k * Block \in Nat /\ n * Block \in Nat /\ k * Block <= n * Block
    BY <2>1, Z3
  <2>3. (k - 1) * Block \in Nat
    BY <2>1, Times
  <2> QED BY <2>2, <2>3, Zenon
<1>2. l \in Nat /\ t \in Nat /\ l <= t /\ y <= l
  BY LenProperties DEF Starts
<1> HIDE DEF x, z, y
<1>3. z <= l /\ w = z /\ u = z
  BY <1>1, <1>2
<1>4. \A i \in x + 1 .. z : bytes[i] \in Byte /\ others[i] \in Byte /\ others[i] = bytes[i]
  <2>1. \A i \in x + 1 .. z : i \in 1 .. l /\ i \in 1 .. t
    BY <1>1, <1>2, <1>3
  <2>2. \A i \in 1 .. l : bytes[i] \in Byte /\ others[i] = bytes[i]
    BY ElementOfSeq, Zenon DEF Starts
  <2>3. \A i \in 1 .. t : others[i] \in Byte
    BY ElementOfSeq, Zenon
  <2> HIDE DEF l, t
  <2> QED BY <2>1, <2>2, <2>3, Zenon
<1> HIDE DEF w, u
<1>5. SubSeq(bytes, x + 1, z) = SubSeq(others, x + 1, z)
  BY <1>1, <1>4
<1>6. Piece(bytes, k) = SubSeq(bytes, x + 1, w) /\ Piece(others, k) = SubSeq(others, x + 1, u)
  BY Zenon DEF Piece, x, z, w, u
<1> QED BY <1>3, <1>5, <1>6, Zenon

\* How many blocks a message has.
LEMMA PolynomialBlocks ==
  ASSUME NEW bytes, NEW multiplier, NEW n \in Nat, NEW rest \in 0 .. Block - 1, Len(bytes) = n * Block + rest
  PROVE  Polynomial(bytes, multiplier) = Partial(bytes, multiplier, IF rest = 0 THEN n ELSE n + 1)
<1> DEFINE y == n * Block
           l == Len(bytes)
           k == (l + Block - 1) \div Block
<1>1. Block \in Nat \ {0}
  BY Sizes
<1>2. y \in Nat /\ l = y + rest
  BY <1>1, Times
<1> HIDE DEF l
<1>3. k = IF rest = 0 THEN n ELSE n + 1
  <2>1. CASE rest = 0
    <3> DEFINE t == Block - 1
    <3>1. t \in 0 .. Block - 1
      BY <1>1
    <3>2. l + Block - 1 = y + t
      <4> HIDE DEF y
      <4> QED BY <1>1, <1>2, <2>1
    <3> HIDE DEF t
    <3>3. (n * Block + t) \div Block = n
      BY <1>1, <3>1, Division
    <3> QED BY <2>1, <3>2, <3>3, Zenon
  <2>2. CASE rest # 0
    <3> DEFINE t == rest - 1
               z == (n + 1) * Block
    <3>1. t \in 0 .. Block - 1 /\ n + 1 \in Nat
      BY <1>1, <2>2
    <3>2. z = y + Block
      BY <1>1, Z3
    <3>3. l + Block - 1 = z + t
      <4> HIDE DEF y, z
      <4> QED BY <1>1, <1>2, <2>2, <3>2
    <3> HIDE DEF t
    <3>4. ((n + 1) * Block + t) \div Block = n + 1
      BY <1>1, <3>1, Division
    <3> QED BY <2>2, <3>3, <3>4, Zenon
  <2> QED BY <2>1, <2>2, Zenon
<1> QED BY <1>3, Zenon DEF Polynomial, l

\* What is left of a word of r.
LEMMA ClampedBound ==
  ASSUME NEW i, NEW word \in Word
  PROVE  Clamped(i, word) \in Nat /\ Clamped(i, word) < 2^(WordBits - TopClear)
<1> DEFINE t == 2^(WordBits - TopClear)
           c == 2^LowClear
           top == word % t
           low == top % c
<1>1. t \in Nat \ {0} /\ c \in Nat \ {0} /\ word \in Nat
  <2>1. t \in Nat \ {0}
    BY Parts, Zenon
  <2>2. c \in Nat \ {0}
    BY Sizes, PowerType
  <2>3. word \in Nat
    BY Weights
  <2> QED BY <2>1, <2>2, <2>3, Zenon
<1> HIDE DEF t, c
<1>2. top \in 0 .. t - 1
  BY <1>1, Divided
<1> HIDE DEF top
<1>3. top \in Nat /\ top < t
  BY <1>1, <1>2
<1>4. low \in Nat /\ low <= top
  <2>1. top \div c \in Nat /\ low \in 0 .. c - 1 /\ top = (top \div c) * c + low
    BY <1>1, <1>3, Divided
  <2> DEFINE q == top \div c
             e == q * c
  <2>2. e \in Nat
    BY <1>1, <2>1, Times
  <2>3. top = e + low
    BY <2>1, Zenon
  <2>4. low \in Nat
    BY <1>1, <2>1
  <2> HIDE DEF e, low
  <2> QED BY <1>3, <2>2, <2>3, <2>4
<1> HIDE DEF low
<1>5. top - low \in Nat /\ top - low < t
  BY <1>1, <1>3, <1>4
<1>6. Clamped(i, word) = IF i = 0 THEN top ELSE top - low
  BY Zenon DEF Clamped, top, low, t, c
<1> QED BY <1>3, <1>5, <1>6, Zenon DEF t

\* The digits that are put out, and the bytes read from them.
ShownDigits == [j \in 1 .. 2 * Block |-> (tag[(j - 1) \div 2] \div (IF j % 2 = 1 THEN 2^DigitBits ELSE 1)) % 2^DigitBits]
ShownBytes(digits) == [k \in 0 .. Block - 1 |-> digits[2 * k + 1] * 2^DigitBits + digits[2 * k + 2]]

\* The digits put out for a byte are that byte.
LEMMA DigitsRight ==
  ASSUME tag \in [0 .. Block - 1 -> Byte]
  PROVE  ShownBytes(ShownDigits) = tag
<1> DEFINE d == 2^DigitBits
           b == 2^ByteBits
<1>1. d \in Nat \ {0} /\ b \in Nat /\ b <= d * d /\ Block \in Nat /\ Byte = 0 .. b - 1
  <2>1. DigitBits \in Nat /\ ByteBits \in Nat /\ Block \in Nat /\ 2 * DigitBits >= ByteBits
    BY Sizes, PolyAssumption
  <2>2. d \in Nat \ {0} /\ b \in Nat
    BY <2>1, PowerType
  <2> DEFINE e == 2 * DigitBits - ByteBits
             w == 2^e
  <2>3. e \in Nat /\ ByteBits + e = DigitBits + DigitBits
    BY <2>1
  <2>4. 2^(ByteBits + e) = b * w /\ w \in Nat \ {0}
    <3> HIDE DEF e
    <3> QED BY <2>1, <2>3, PowerSum, PowerType
  <2>5. 2^(DigitBits + DigitBits) = d * d
    BY <2>1, PowerSum
  <2>6. d * d = b * w
    BY <2>3, <2>4, <2>5, Zenon
  <2> HIDE DEF d, b, w
  <2>7. b <= b * w
    BY <2>2, <2>4, Z3
  <2>8. b <= d * d
    BY <2>6, <2>7, Zenon
  <2> QED BY <2>1, <2>2, <2>8, Zenon DEF Byte, b
<1> HIDE DEF d, b
<1>2. ASSUME NEW k \in 0 .. Block - 1
      PROVE  ShownDigits[2 * k + 1] * d + ShownDigits[2 * k + 2] = tag[k]
  <2> DEFINE u == tag[k]
             at(j) == (tag[(j - 1) \div 2] \div (IF j % 2 = 1 THEN d ELSE 1)) % d
             m == 2 * k + 1
             n == 2 * k + 2
  <2>1. u \in Nat /\ u < b
    <3>1. u \in Byte
      BY Zenon
    <3> HIDE DEF u
    <3> QED BY <1>1, <3>1
  <2>2. /\ m \in 1 .. 2 * Block /\ (m - 1) \div 2 = k /\ m % 2 = 1
        /\ n \in 1 .. 2 * Block /\ (n - 1) \div 2 = k /\ n % 2 = 0
    BY <1>1
  <2> HIDE DEF m, n
  <2>3. ShownDigits = [j \in 1 .. 2 * Block |-> at(j)]
    BY Zenon DEF ShownDigits, d
  <2>4. ShownDigits[m] = at(m) /\ ShownDigits[n] = at(n)
    BY <2>2, <2>3, Zenon
  <2>5. at(m) = (u \div d) % d
    BY <2>2, Zenon
  <2>6. at(n) = (u \div 1) % d
    <3>1. 0 # 1
      OBVIOUS
    <3> QED BY <2>2, <3>1, Zenon
  <2> HIDE DEF at, u
  <2> DEFINE q == u \div d
             t == u % d
  <2>7. q \in Nat /\ t \in 0 .. d - 1 /\ u = q * d + t
    BY <1>1, <2>1, Divided
  <2>8. u \div 1 = u
    BY <2>1
  <2> HIDE DEF q, t
  <2>9. q \in 0 .. d - 1
    <3>1. SUFFICES ASSUME q >= d PROVE FALSE
      BY <1>1, <2>7
    <3>2. q * d >= d * d /\ q * d \in Nat /\ d * d \in Nat
      BY <1>1, <2>7, <3>1, Z3
    <3> DEFINE g == q * d
               e == d * d
    <3>3. g >= e /\ g \in Nat /\ e \in Nat /\ b <= e /\ u = g + t
      BY <1>1, <2>7, <3>2, Zenon
    <3> HIDE DEF g, e
    <3> QED BY <1>1, <2>1, <2>7, <3>3
  <2>10. q % d = q
    <3>1. (0 * d + q) % d = q /\ 0 * d + q = q
      <4>1. 0 \in Nat
        OBVIOUS
      <4>2. (0 * d + q) % d = q
        BY <1>1, <2>9, <4>1, Division
      <4>3. 0 * d + q = q
        BY <1>1, <2>7
      <4> QED BY <4>2, <4>3, Zenon
    <3> QED BY <3>1, Zenon
  <2>11. ShownDigits[m] = q /\ ShownDigits[n] = t
    BY <2>4, <2>5, <2>6, <2>8, <2>10, Zenon DEF q, t
  <2> QED BY <2>7, <2>11, Zenon DEF m, n, u
<1>3. tag = [k \in 0 .. Block - 1 |-> tag[k]]
  BY Zenon
<1>4. ShownBytes(ShownDigits) = [k \in 0 .. Block - 1 |-> ShownDigits[2 * k + 1] * d + ShownDigits[2 * k + 2]]
  BY Zenon DEF ShownBytes, d
<1> QED BY <1>2, <1>3, <1>4, Zenon

-----------------------------------------------------------------------------
(* The invariant.                                                          *)

InBlockPlaces == {"add", "multiply", "first pass", "second pass"}
Places == {"key", "blocks", "update", "tag", "show", "wait", "done"} \cup InBlockPlaces
Working == InBlockPlaces \cup {"blocks", "update", "tag"}

TakenLen == Len(message) - Len(data)
Complete == (TakenLen - size) \div Block     \* blocks that are in the accumulator
Multiplier == Number([i \in 0 .. 3 |-> Clamped(i, key[i + 1])], 4)

TypeInv ==
  /\ pc \in Places
  /\ r \in [0 .. 3 -> Nat] /\ s \in [0 .. 3 -> Word] /\ a \in [0 .. 7 -> Nat]
  /\ buffer \in [0 .. Block -> Byte] /\ size \in 0 .. Block
  /\ data \in Seq(Byte) /\ message \in Seq(Byte)

\* What the key gave is there until it is cleared.
KeyInv ==
  /\ pc # "key" => key \in [1 .. 8 -> Word]
  /\ pc \in Working => r = [i \in 0 .. 3 |-> Clamped(i, key[i + 1])] /\ s = [i \in 0 .. 3 |-> key[i + 5]]

\* The message is in the accumulator, then in the buffer, then in what is left of the chunk.
CutInv ==
  /\ Len(data) <= Len(message) /\ size <= TakenLen /\ (TakenLen - size) % Block = 0
  /\ \A i \in 1 .. Len(data) : data[i] = message[TakenLen + i]
  /\ \A i \in 0 .. size - 1 : buffer[i] = message[TakenLen - size + i + 1]

PlaceInv ==
  /\ pc \in {"key", "blocks", "update", "tag"} => size < Block
  /\ pc \in InBlockPlaces => size > 0 /\ (size < Block => data = << >>)
  /\ pc \in {"key", "blocks", "tag", "show", "wait", "done"} => data = << >>
  /\ pc = "key" => size = 0 /\ message = << >>

AccInv ==
  /\ pc \in {"blocks", "update", "add"} => Reduced /\ Number(a, 5) % P = Partial(message, Multiplier, Complete)
  /\ pc = "multiply" => /\ a[4] \in 0 .. 5
                        /\ Wide(a) % P = (Partial(message, Multiplier, Complete) + PieceNumber(message, Complete + 1)) % P
  /\ pc = "first pass" => Number(Lows(a), 8) % P = Partial(message, Multiplier, Complete + 1)
  /\ pc = "second pass" => a[4] \in 0 .. 6 /\ Wide(a) % P = Partial(message, Multiplier, Complete + 1)
  /\ pc = "tag" => Reduced /\ Number(a, 5) % P = Polynomial(message, Multiplier)

Sum == (Polynomial(message, Multiplier) + Number([i \in 0 .. 3 |-> key[i + 5]], 4)) % 2^(4 * WordBits)

OutInv ==
  /\ pc = "show" => tag \in [0 .. Block - 1 -> Byte] /\ LittleEndian(ByteBits, tag, 0, Block) = Sum
  /\ pc \in {"wait", "done"} => LittleEndian(ByteBits, ShownBytes(shown), 0, Block) = Sum

Inv == TypeInv /\ KeyInv /\ CutInv /\ PlaceInv /\ AccInv /\ OutInv

-----------------------------------------------------------------------------

\* The lengths the invariant speaks of.
LEMMA Lengths ==
  ASSUME TypeInv, CutInv
  PROVE  /\ Len(message) \in Nat /\ Len(data) \in Nat /\ TakenLen \in Nat /\ TakenLen <= Len(message)
         /\ size \in Nat /\ size <= Block /\ Block \in Nat /\ Block # 0
         /\ Complete \in Nat /\ TakenLen = Complete * Block + size /\ Complete * Block \in Nat
<1>1. Len(message) \in Nat /\ Len(data) \in Nat /\ size \in Nat /\ size <= Block /\ Block \in Nat \ {0}
  <2>1. Block \in Nat \ {0}
    BY Sizes, Zenon
  <2>2. size \in 0 .. Block /\ data \in Seq(Byte) /\ message \in Seq(Byte)
    BY Zenon DEF TypeInv
  <2> QED BY <2>1, <2>2
<1>2. TakenLen \in Nat /\ TakenLen <= Len(message) /\ size <= TakenLen /\ (TakenLen - size) % Block = 0
  BY <1>1 DEF CutInv, TakenLen
<1> DEFINE e == TakenLen - size
           q == e \div Block
           y == q * Block
<1>3. e \in Nat /\ TakenLen = e + size
  BY <1>1, <1>2
<1> HIDE DEF e
<1>4. q \in Nat /\ e = q * Block + (e % Block) /\ e % Block = 0
  <2>1. e % Block = 0
    BY <1>2, Zenon DEF e
  <2> QED BY <1>1, <1>3, <2>1, Divided
<1> HIDE DEF q
<1>5. y \in Nat
  BY <1>1, <1>4, Times
<1>6. e = y + 0
  BY <1>4, Zenon
<1> HIDE DEF y
<1>7. TakenLen = y + size
  BY <1>3, <1>5, <1>6
<1>8. Complete = q
  BY Zenon DEF Complete, q, e
<1> QED BY <1>1, <1>2, <1>4, <1>5, <1>7, <1>8, Zenon DEF y

LEMMA MultiplierType ==
  ASSUME key \in [1 .. 8 -> Word]
  PROVE  Multiplier \in Nat /\ \A i \in 0 .. 3 : key[i + 1] \in Word /\ key[i + 5] \in Word /\ Clamped(i, key[i + 1]) \in Nat
<1> DEFINE x == [i \in 0 .. 3 |-> Clamped(i, key[i + 1])]
<1>1. \A i \in 0 .. 3 : i + 1 \in 1 .. 8 /\ i + 5 \in 1 .. 8
  OBVIOUS
<1>2. \A i \in 0 .. 3 : key[i + 1] \in Word /\ key[i + 5] \in Word
  BY <1>1, Zenon
<1>3. \A i \in 0 .. 3 : Clamped(i, key[i + 1]) \in Nat
  BY <1>2, ClampedBound, Zenon
<1>4. \A i \in 0 .. 3 : x[i] \in Nat
  BY <1>3, Zenon
<1>5. Number(x, 4) \in Nat
  <2> HIDE DEF x
  <2> QED BY <1>4, NumberFour, Zenon
<1> QED BY <1>2, <1>3, <1>5, Zenon DEF Multiplier

\* What a step leaves as it is.
LEMMA Kept ==
  /\ UNCHANGED <<message, data>> => TakenLen' = TakenLen
  /\ UNCHANGED <<message, data, size>> => Complete' = Complete
  /\ UNCHANGED key => Multiplier' = Multiplier
  /\ UNCHANGED <<message, key>> => Sum' = Sum
  /\ UNCHANGED a => (Reduced' <=> Reduced)
<1>1. UNCHANGED <<message, data>> => TakenLen' = TakenLen
  BY DEF TakenLen
<1>2. UNCHANGED <<message, data, size>> => Complete' = Complete
  BY <1>1, Zenon DEF Complete
<1>3. UNCHANGED key => Multiplier' = Multiplier
  BY Zenon DEF Multiplier
<1>4. UNCHANGED <<message, key>> => Sum' = Sum
  BY <1>3, Zenon DEF Sum
<1>5. UNCHANGED a => (Reduced' <=> Reduced)
  BY Zenon DEF Reduced
<1> QED BY <1>1, <1>2, <1>3, <1>4, <1>5, Zenon

LEMMA KeyKept ==
  ASSUME KeyInv, UNCHANGED <<key, r, s>>, pc # "key", pc' \in Working => pc \in Working
  PROVE  KeyInv'
BY Zenon DEF KeyInv

LEMMA CutKept ==
  ASSUME CutInv, UNCHANGED <<message, data, size, buffer>>
  PROVE  CutInv'
<1>1. TakenLen' = TakenLen /\ message' = message /\ data' = data /\ size' = size /\ buffer' = buffer
  BY Kept
<1> QED BY <1>1, Zenon DEF CutInv

-----------------------------------------------------------------------------
(* Each step keeps the invariant.                                          *)

\* The accumulator that Poly1305Init leaves stands for no block.
LEMMA ZeroAccumulator ==
  ASSUME a = [i \in 0 .. 7 |-> 0]
  PROVE  Reduced /\ Number(a, 5) % P = 0
<1>1. 0 \in Word /\ 0 \in Nat
  BY Weights
<1>2. 4 \in 0 .. 7 /\ (\A i \in 0 .. 3 : i \in 0 .. 7) /\ 0 \in 0 .. 3 /\ \A m \in 0 .. 5 - 1 : 0 + m \in 0 .. 7
  OBVIOUS
<1>3. Reduced
  BY <1>1, <1>2, Zenon DEF Reduced
<1>4. \A m \in 0 .. 5 - 1 : a[0 + m] = 0
  BY <1>2, Zenon
<1>5. LittleEndian(WordBits, a, 0, 5) = 0
  <2>1. WordBits \in Nat /\ 0 \in Nat /\ 5 \in Nat
    BY Sizes
  <2> QED BY <1>4, <2>1, LittleZeros, Zenon
<1>6. 0 % P = 0
  <2>1. P \in Nat \ {0}
    BY Modulus, Zenon
  <2> HIDE DEF P
  <2> QED BY <2>1
<1> QED BY <1>3, <1>5, <1>6, Zenon DEF Number

LEMMA InitInv == Init => Inv
<1> SUFFICES ASSUME Init PROVE Inv
  OBVIOUS
<1>1. 0 \in Word /\ 0 \in Nat /\ 0 \in 0 .. Block /\ Block \in Nat /\ Block > 0
  BY Weights, Sizes
<1>2. TypeInv
  <2>1. PICK byte \in Junk : buffer = [i \in 0 .. Block |-> byte]
    BY Zenon DEF Init
  <2>2. byte \in Byte
    BY PolyAssumption, Zenon
  <2>3. buffer \in [0 .. Block -> Byte]
    BY <2>1, <2>2, Zenon
  <2>4. data \in Seq(Byte) /\ message \in Seq(Byte)
    BY DEF Init
  <2> QED BY <1>1, <2>3, <2>4, Zenon DEF Init, TypeInv, Places
<1>3. KeyInv
  BY DEF Init, KeyInv, Working, InBlockPlaces
<1>4. CutInv
  <2>1. Len(data) = 0 /\ Len(message) = 0 /\ size = 0
    BY DEF Init
  <2>2. TakenLen = 0
    BY <2>1 DEF TakenLen
  <2>3. \A i \in 1 .. 0 : FALSE
    OBVIOUS
  <2>4. \A i \in 0 .. 0 - 1 : FALSE
    OBVIOUS
  <2>5. (0 - 0) % Block = 0 /\ 0 <= 0
    BY <1>1
  <2> QED BY <2>1, <2>2, <2>3, <2>4, <2>5, Zenon DEF CutInv
<1>5. PlaceInv
  BY <1>1 DEF Init, PlaceInv, InBlockPlaces
<1>6. AccInv /\ OutInv
  BY DEF Init, AccInv, OutInv
<1> QED BY <1>2, <1>3, <1>4, <1>5, <1>6, Zenon DEF Inv

\* poly1305Init: the key is clamped and the accumulator cleared.
LEMMA KeyStep ==
  ASSUME Inv, NEW k \in Keys, Poly1305Init(k)
  PROVE  Inv'
<1> USE DEF Inv
<1>1. /\ pc = "key" /\ pc' = "blocks" /\ key' = k /\ size' = 0 /\ a' = [i \in 0 .. 7 |-> 0]
      /\ r' = [i \in 0 .. 3 |-> Clamped(i, k[i + 1])] /\ s' = [i \in 0 .. 3 |-> k[i + 5]]
      /\ buffer' = buffer /\ data' = data /\ message' = message
  BY Zenon DEF Poly1305Init, outVars
<1>2. message = << >> /\ data = << >> /\ size = 0
  BY <1>1, Zenon DEF PlaceInv
<1>3. 0 \in Word /\ 0 \in Nat /\ 0 \in 0 .. Block /\ Block \in Nat /\ Block > 0
  BY Weights, Sizes
<1>4. key' \in [1 .. 8 -> Word]
  BY <1>1, PolyAssumption, Zenon
<1>5. Multiplier' \in Nat /\ \A i \in 0 .. 3 : key[i + 1]' \in Word /\ key[i + 5]' \in Word /\ Clamped(i, key[i + 1])' \in Nat
  <2>1. ASSUME key' \in [1 .. 8 -> Word]
        PROVE  Multiplier' \in Nat /\ \A i \in 0 .. 3 : key[i + 1]' \in Word /\ key[i + 5]' \in Word /\ Clamped(i, key[i + 1])' \in Nat
    <3>1. \A i \in 0 .. 3 : i + 1 \in 1 .. 8 /\ i + 5 \in 1 .. 8
      OBVIOUS
    <3>2. \A i \in 0 .. 3 : key'[i + 1] \in Word /\ key'[i + 5] \in Word
      BY <2>1, <3>1, Zenon
    <3> DEFINE x == [i \in 0 .. 3 |-> Clamped(i, key'[i + 1])]
    <3>3. \A i \in 0 .. 3 : Clamped(i, key'[i + 1]) \in Nat
      BY <3>2, ClampedBound, Zenon
    <3>4. \A i \in 0 .. 3 : x[i] \in Nat
      BY <3>3, Zenon
    <3>5. Number(x, 4) \in Nat
      <4> HIDE DEF x
      <4> QED BY <3>4, NumberFour, Zenon
    <3> QED BY <3>2, <3>3, <3>5, Zenon DEF Multiplier
  <2> QED BY <1>4, <2>1, Zenon
<1>6. TypeInv'
  <2>1. r' \in [0 .. 3 -> Nat] /\ s' \in [0 .. 3 -> Word] /\ a' \in [0 .. 7 -> Nat]
    BY <1>1, <1>3, <1>5, Zenon
  <2> QED BY <1>1, <1>3, <2>1, Zenon DEF TypeInv, Places
<1>7. KeyInv'
  BY <1>1, <1>4, Zenon DEF KeyInv
<1>8. CutInv'
  BY <1>1, <1>2, CutKept, Zenon
<1>9. PlaceInv'
  BY <1>1, <1>2, <1>3 DEF PlaceInv, InBlockPlaces
<1>10. AccInv'
  <2>1. Complete' = 0
    <3>1. Len(message') = 0 /\ Len(data') = 0 /\ size' = 0
      BY <1>1, <1>2
    <3>2. TakenLen' = 0
      BY <3>1 DEF TakenLen
    <3>3. (0 - 0) \div Block = 0
      BY <1>3
    <3> QED BY <3>1, <3>2, <3>3, Zenon DEF Complete
  <2>2. Partial(message, Multiplier', 0) = 0
    <3>1. message \in Seq(Byte)
      BY Zenon DEF TypeInv
    <3> QED BY <1>3, <1>5, <3>1, PartialNext, Zenon
  <2>3. (Reduced /\ Number(a, 5) % P = 0)'
    <3>1. (a = [i \in 0 .. 7 |-> 0])'
      BY <1>1, Zenon
    <3> QED BY <3>1, ZeroAccumulator, PTL
  <2>4. Partial(message, Multiplier, Complete)' = 0
    BY <1>1, <2>1, <2>2, Zenon
  <2>5. (Number(a, 5) % P)' = Partial(message, Multiplier, Complete)'
    BY <2>3, <2>4, Zenon
  <2> QED BY <1>1, <2>3, <2>5 DEF AccInv
<1>11. OutInv'
  BY <1>1 DEF OutInv
<1> QED BY <1>6, <1>7, <1>8, <1>9, <1>10, <1>11, Zenon

\* A message that has become longer has the same complete blocks.
LEMMA LongerSame ==
  ASSUME NEW bytes \in Seq(Byte), NEW others \in Seq(Byte), Starts(bytes, others), NEW multiplier \in Nat,
         NEW n \in Nat, n * Block <= Len(bytes)
  PROVE  SamePartial(bytes, others, multiplier, n)
BY StartsSame, PartialSame, Zenon

\* poly1305Update: the message gets a chunk.
LEMMA UpdateStep ==
  ASSUME Inv, NEW chunk \in Chunks, Poly1305Update(chunk)
  PROVE  Inv'
<1> USE DEF Inv
<1>1. /\ pc = "blocks" /\ pc' = "update" /\ data' = chunk /\ message' = message \o chunk /\ key' = key
      /\ r' = r /\ s' = s /\ a' = a /\ buffer' = buffer /\ size' = size
  BY Zenon DEF Poly1305Update, context, outVars
<1>2. data = << >> /\ size < Block
  BY <1>1, Zenon DEF PlaceInv
<1>3. chunk \in Seq(Byte) /\ message \in Seq(Byte)
  BY PolyAssumption, Zenon DEF TypeInv
<1>4. /\ message' \in Seq(Byte) /\ Len(message') = Len(message) + Len(chunk)
      /\ \A i \in 1 .. Len(message) : message'[i] = message[i]
      /\ \A i \in 1 .. Len(chunk) : message'[Len(message) + i] = chunk[i]
  BY <1>1, <1>3
<1>5. Len(message) \in Nat /\ Len(chunk) \in Nat /\ Len(data) = 0
  BY <1>2, <1>3
<1>6. TakenLen = Len(message) /\ TakenLen' = TakenLen /\ Complete' = Complete
  <2>1. TakenLen = Len(message)
    BY <1>5 DEF TakenLen
  <2>2. TakenLen' = TakenLen
    BY <1>1, <1>4, <1>5, <2>1 DEF TakenLen
  <2> QED BY <1>1, <2>1, <2>2, Zenon DEF Complete
<1>7. /\ Complete \in Nat /\ Complete * Block \in Nat /\ TakenLen = Complete * Block + size /\ size \in Nat /\ size <= TakenLen
      /\ (TakenLen - size) % Block = 0
  BY Lengths, Zenon DEF CutInv
<1>8. TypeInv'
  BY <1>1, <1>3, <1>4, Zenon DEF TypeInv, Places
<1>9. KeyInv'
  BY <1>1, Zenon DEF KeyInv, Working
<1>10. CutInv'
  <2>1. Len(data') <= Len(message')
    BY <1>1, <1>4, <1>5
  <2>2. \A i \in 0 .. size - 1 : TakenLen - size + i + 1 \in 1 .. Len(message)
    <3>1. size \in Nat /\ size <= TakenLen
      BY <1>7, Zenon
    <3> QED BY <1>5, <1>6, <3>1
  <2>3. \A i \in 0 .. size - 1 : buffer[i] = message'[TakenLen - size + i + 1]
    BY <1>4, <2>2, Zenon DEF CutInv
  <2>4. \A i \in 1 .. Len(chunk) : chunk[i] = message'[TakenLen + i]
    BY <1>4, <1>6, Zenon
  <2> QED BY <1>1, <1>6, <1>7, <2>1, <2>3, <2>4, Zenon DEF CutInv
<1>11. PlaceInv'
  BY <1>1, <1>2 DEF PlaceInv, InBlockPlaces
<1>12. AccInv'
  <2>1. Multiplier \in Nat /\ Multiplier' = Multiplier
    <3>1. key \in [1 .. 8 -> Word]
      BY <1>1 DEF KeyInv
    <3> QED BY <1>1, <3>1, MultiplierType, Kept, Zenon
  <2>2. Starts(message, message')
    <3>1. Len(message) <= Len(message')
      BY <1>4, <1>5
    <3> QED BY <1>4, <3>1, Zenon DEF Starts
  <2>3. Complete * Block <= Len(message)
    <3> DEFINE y == Complete * Block
    <3>1. y \in Nat /\ TakenLen = y + size
      BY <1>7, Zenon
    <3> HIDE DEF y
    <3>2. y <= Len(message)
      BY <1>6, <1>7, <3>1
    <3> QED BY <3>2, Zenon DEF y
  <2>4. SamePartial(message, message', Multiplier, Complete)
    BY <1>3, <1>4, <1>7, <2>1, <2>2, <2>3, LongerSame, Zenon
  <2>5. Reduced /\ Number(a, 5) % P = Partial(message, Multiplier, Complete)
    BY <1>1, Zenon DEF AccInv
  <2>6. Reduced' /\ (Number(a, 5) % P)' = Number(a, 5) % P
    BY <1>1, <2>5, Kept, Zenon
  <2>7. (Number(a, 5) % P)' = Partial(message, Multiplier, Complete)'
    BY <1>6, <2>1, <2>4, <2>5, <2>6, Zenon DEF SamePartial
  <2> QED BY <1>1, <2>6, <2>7 DEF AccInv
<1>13. OutInv'
  BY <1>1 DEF OutInv
<1> QED BY <1>8, <1>9, <1>10, <1>11, <1>12, <1>13, Zenon

\* A round moves bytes of the chunk into the buffer.
LEMMA RoundStep ==
  ASSUME Inv, UpdateRound
  PROVE  Inv'
<1> USE DEF Inv
<1> DEFINE n == IF Len(data) < Block - size THEN Len(data) ELSE Block - size
           l == Len(data)
           at(i) == IF i \in size .. size + n - 1 THEN data[i - size + 1] ELSE buffer[i]
<1>1. /\ pc = "update" /\ data # << >> /\ pc' = (IF size + n = Block THEN "add" ELSE "update")
      /\ buffer' = [i \in 0 .. Block |-> at(i)] /\ size' = size + n /\ data' = SubSeq(data, n + 1, Len(data))
      /\ r' = r /\ s' = s /\ a' = a /\ key' = key /\ message' = message
  BY Zenon DEF UpdateRound, outVars
<1>2. /\ size < Block /\ data \in Seq(Byte) /\ message \in Seq(Byte) /\ size \in Nat /\ Block \in Nat /\ l \in Nat /\ l > 0
      /\ Len(message) \in Nat /\ TakenLen \in Nat /\ TakenLen <= Len(message) /\ size <= TakenLen
  <2>1. size < Block
    BY <1>1, Zenon DEF PlaceInv
  <2>2. data \in Seq(Byte) /\ message \in Seq(Byte)
    BY Zenon DEF TypeInv
  <2>3. l \in Nat /\ l > 0
    BY <1>1, <2>2
  <2> QED BY <2>1, <2>2, <2>3, Lengths, Zenon DEF CutInv
<1>3. n \in Nat /\ n > 0 /\ n <= l /\ size + n <= Block
  BY <1>2
<1> HIDE DEF n
<1>4. /\ data' \in Seq(Byte) /\ Len(data') = l - n
      /\ \A i \in 1 .. l - n : data'[i] = data[n + i] /\ n + i \in 1 .. l
  BY <1>1, <1>2, <1>3
<1>5. TakenLen = Len(message) - l
  BY Zenon DEF TakenLen
<1>6. TakenLen' = TakenLen + n
  <2>1. TakenLen' = Len(message') - Len(data')
    BY Zenon DEF TakenLen
  <2> HIDE DEF l
  <2> QED BY <1>1, <1>2, <1>3, <1>4, <1>5, <2>1
<1>7. TakenLen' - size' = TakenLen - size
  BY <1>1, <1>2, <1>3, <1>6
<1>8. Complete' = Complete
  BY <1>7, Zenon DEF Complete
<1> HIDE DEF l
<1>9. \A i \in 0 .. Block : at(i) \in Byte
  <2> SUFFICES ASSUME NEW i \in 0 .. Block PROVE at(i) \in Byte
    BY Zenon
  <2>1. CASE i \in size .. size + n - 1
    <3>1. i - size + 1 \in 1 .. Len(data)
      BY <1>2, <1>3, <2>1 DEF l
    <3>2. data[i - size + 1] \in Byte
      BY <1>2, <3>1, ElementOfSeq
    <3> QED BY <2>1, <3>2, Zenon
  <2>2. CASE i \notin size .. size + n - 1
    <3>1. buffer[i] \in Byte
      BY Zenon DEF TypeInv
    <3> QED BY <2>2, <3>1, Zenon
  <2> QED BY <2>1, <2>2, Zenon
<1> HIDE DEF at
<1>10. TypeInv'
  <2>1. buffer' \in [0 .. Block -> Byte]
    BY <1>1, <1>9, Zenon
  <2>2. size' \in 0 .. Block
    BY <1>1, <1>2, <1>3
  <2>3. pc' \in Places
    BY <1>1 DEF Places, InBlockPlaces
  <2> QED BY <1>1, <1>2, <1>4, <2>1, <2>2, <2>3, Zenon DEF TypeInv
<1>11. KeyInv'
  <2>1. pc # "key" /\ pc \in Working
    BY <1>1 DEF Working
  <2> QED BY <1>1, <2>1, KeyKept, Zenon
<1>12. CutInv'
  <2>1. Len(data') <= Len(message') /\ size' <= TakenLen'
    BY <1>1, <1>2, <1>3, <1>4, <1>5, <1>6
  <2>2. (TakenLen' - size') % Block = 0
    BY <1>7, Zenon DEF CutInv
  <2>3. \A i \in 1 .. Len(data') : data'[i] = message'[TakenLen' + i]
    <3> SUFFICES ASSUME NEW i \in 1 .. l - n
                 PROVE  data'[i] = message[(TakenLen + n) + i]
      BY <1>1, <1>4, <1>6, Zenon
    <3>1. data'[i] = data[n + i] /\ n + i \in 1 .. Len(data)
      BY <1>4, Zenon DEF l
    <3>2. data[n + i] = message[TakenLen + (n + i)]
      BY <3>1, Zenon DEF CutInv
    <3>3. TakenLen + (n + i) = (TakenLen + n) + i
      BY <1>2, <1>3
    <3> QED BY <3>1, <3>2, <3>3, Zenon
  <2>4. \A i \in 0 .. size' - 1 : buffer'[i] = message'[TakenLen' - size' + i + 1]
    <3> SUFFICES ASSUME NEW i \in 0 .. size + n - 1
                 PROVE  at(i) = message[TakenLen - size + i + 1]
      <4>1. \A i \in 0 .. size + n - 1 : i \in 0 .. Block
        BY <1>2, <1>3
      <4>2. \A i \in 0 .. size + n - 1 : buffer'[i] = at(i)
        BY <1>1, <4>1, Zenon
      <4>3. \A i \in 0 .. size + n - 1 : message'[TakenLen' - size' + i + 1] = message[TakenLen - size + i + 1]
        BY <1>1, <1>7, Zenon
      <4>4. \A i \in 0 .. size' - 1 : i \in 0 .. size + n - 1
        <5>1. size' = size + n
          BY <1>1, Zenon
        <5> QED BY <1>2, <1>3, <5>1
      <4> SUFFICES ASSUME NEW i \in 0 .. size' - 1
                   PROVE  buffer'[i] = message'[TakenLen' - size' + i + 1]
        BY Zenon
      <4>5. i \in 0 .. size + n - 1
        BY <4>4, Zenon
      <4>6. at(i) = message[TakenLen - size + i + 1]
        BY <4>5, Zenon
      <4>7. buffer'[i] = at(i) /\ message'[TakenLen' - size' + i + 1] = message[TakenLen - size + i + 1]
        BY <4>2, <4>3, <4>5, Zenon
      <4> QED BY <4>6, <4>7, Zenon
    <3>1. CASE i \in size .. size + n - 1
      <4>1. i - size + 1 \in 1 .. Len(data) /\ TakenLen + (i - size + 1) = TakenLen - size + i + 1
        BY <1>2, <1>3, <3>1 DEF l
      <4>2. data[i - size + 1] = message[TakenLen + (i - size + 1)]
        BY <4>1, Zenon DEF CutInv
      <4> QED BY <3>1, <4>1, <4>2, Zenon DEF at
    <3>2. CASE i \notin size .. size + n - 1
      <4>1. i \in 0 .. size - 1
        BY <1>2, <1>3, <3>2
      <4>2. buffer[i] = message[TakenLen - size + i + 1]
        BY <4>1, Zenon DEF CutInv
      <4> QED BY <3>2, <4>2, Zenon DEF at
    <3> QED BY <3>1, <3>2, Zenon
  <2> QED BY <2>1, <2>2, <2>3, <2>4, Zenon DEF CutInv
<1>13. PlaceInv'
  BY <1>1, <1>2, <1>3 DEF PlaceInv, InBlockPlaces
<1>14. AccInv'
  <2>1. Reduced /\ Number(a, 5) % P = Partial(message, Multiplier, Complete)
    BY <1>1, Zenon DEF AccInv
  <2>2. Reduced' /\ (Number(a, 5) % P)' = Partial(message, Multiplier, Complete)'
    BY <1>1, <1>8, <2>1, Kept, Zenon
  <2> QED BY <1>1, <2>2 DEF AccInv
<1>15. OutInv'
  BY <1>1 DEF OutInv
<1> QED BY <1>10, <1>11, <1>12, <1>13, <1>14, <1>15, Zenon

\* poly1305Update returns.
LEMMA DoneStep ==
  ASSUME Inv, UpdateDone
  PROVE  Inv'
<1> USE DEF Inv
<1>1. /\ pc = "update" /\ data = << >> /\ pc' = "blocks" /\ data' = data /\ key' = key /\ message' = message
      /\ r' = r /\ s' = s /\ a' = a /\ buffer' = buffer /\ size' = size
  BY Zenon DEF UpdateDone, context, outVars
<1>2. TypeInv'
  BY <1>1, Zenon DEF TypeInv, Places
<1>3. KeyInv'
  BY <1>1, Zenon DEF KeyInv, Working
<1>4. CutInv'
  BY <1>1, CutKept, Zenon
<1>5. PlaceInv'
  BY <1>1 DEF PlaceInv, InBlockPlaces
<1>6. AccInv'
  <2>1. Reduced' /\ (Number(a, 5) % P)' = Partial(message, Multiplier, Complete)'
    BY <1>1, Kept, Zenon DEF AccInv
  <2> QED BY <1>1, <2>1 DEF AccInv
<1>7. OutInv'
  BY <1>1 DEF OutInv
<1> QED BY <1>2, <1>3, <1>4, <1>5, <1>6, <1>7, Zenon

\* poly1305Final: what is in the buffer is the last block, if there is any.
LEMMA FinalStep ==
  ASSUME Inv, Poly1305Final
  PROVE  Inv'
<1> USE DEF Inv
<1>1. /\ pc = "blocks" /\ pc' = (IF size # 0 THEN "add" ELSE "tag") /\ data' = data /\ key' = key /\ message' = message
      /\ r' = r /\ s' = s /\ a' = a /\ buffer' = buffer /\ size' = size
  BY Zenon DEF Poly1305Final, context, outVars
<1>2. data = << >> /\ size < Block /\ size \in Nat /\ Block \in Nat
  <2>1. data = << >> /\ size < Block
    BY <1>1, Zenon DEF PlaceInv
  <2> QED BY <2>1, Lengths, Zenon
<1>3. TypeInv'
  BY <1>1 DEF TypeInv, Places, InBlockPlaces
<1>4. KeyInv'
  <2>1. pc # "key" /\ pc \in Working
    BY <1>1 DEF Working
  <2> QED BY <1>1, <2>1, KeyKept, Zenon
<1>5. CutInv'
  BY <1>1, CutKept, Zenon
<1>6. PlaceInv'
  BY <1>1, <1>2 DEF PlaceInv, InBlockPlaces
<1>7. AccInv'
  <2>1. Reduced /\ Number(a, 5) % P = Partial(message, Multiplier, Complete)
    BY <1>1, Zenon DEF AccInv
  <2>2. Reduced' /\ (Number(a, 5) % P)' = Partial(message, Multiplier, Complete)'
    BY <1>1, <2>1, Kept, Zenon
  <2>3. CASE size # 0
    BY <1>1, <2>2, <2>3 DEF AccInv
  <2>4. CASE size = 0
    <3>1. Complete \in Nat /\ TakenLen = Complete * Block + 0 /\ 0 \in 0 .. Block - 1
      BY <1>2, <2>4, Lengths
    <3>2. Len(message) = TakenLen
      <4>1. Len(data) = 0 /\ Len(message) \in Nat
        BY <1>2, Lengths
      <4> QED BY <4>1 DEF TakenLen
    <3>3. Polynomial(message, Multiplier) = Partial(message, Multiplier, Complete)
      <4>1. Len(message) = Complete * Block + 0
        BY <3>1, <3>2, Zenon
      <4> HIDE DEF Inv
      <4>2. Polynomial(message, Multiplier) = Partial(message, Multiplier, IF 0 = 0 THEN Complete ELSE Complete + 1)
        BY <3>1, <4>1, PolynomialBlocks, Zenon
      <4> QED BY <4>2, Zenon
    <3>4. Number(a, 5)' % P = Polynomial(message, Multiplier)'
      BY <1>1, <2>1, <3>3, Kept, Zenon
    <3> QED BY <1>1, <2>2, <2>4, <3>4 DEF AccInv
  <2> QED BY <2>3, <2>4, Zenon
<1>8. OutInv'
  BY <1>1 DEF OutInv
<1> QED BY <1>3, <1>4, <1>5, <1>6, <1>7, <1>8, Zenon

\* The block that the buffer holds is the next one of the message.
LEMMA BlockHeld ==
  ASSUME Inv, pc \in InBlockPlaces
  PROVE  Holds(Piece(message, Complete + 1))
<1> USE DEF Inv
<1> DEFINE l == Len(message)
           y == Complete * Block
           z == (Complete + 1) * Block
           w == IF z < l THEN z ELSE l
           block == Piece(message, Complete + 1)
<1>1. /\ message \in Seq(Byte) /\ buffer \in [0 .. Block -> Byte] /\ size \in 0 .. Block
      /\ size > 0 /\ (size < Block => data = << >>)
  BY Zenon DEF TypeInv, PlaceInv
<1>2. /\ l \in Nat /\ TakenLen \in Nat /\ TakenLen <= l /\ y \in Nat /\ TakenLen = y + size
      /\ size \in Nat /\ size <= Block /\ Block \in Nat /\ Complete \in Nat
  BY Lengths, Zenon
<1>3. z = y + Block /\ (Complete + 1) - 1 = Complete
  BY <1>2, Z3
<1>4. data = << >> => TakenLen = l
  <2>1. data = << >> => Len(data) = 0
    OBVIOUS
  <2> QED BY <1>2, <2>1 DEF TakenLen
<1> HIDE DEF y, z
<1>5. w = y + size
  <2>1. CASE size < Block
    <3>1. l = y + size
      BY <1>1, <1>2, <1>4, <2>1, Zenon
    <3> QED BY <1>2, <1>3, <2>1, <3>1
  <2>2. CASE size = Block
    <3>1. z = y + size /\ z <= l
      BY <1>2, <1>3, <2>2
    <3> QED BY <1>2, <3>1
  <2> QED BY <1>2, <2>1, <2>2
<1>6. block = SubSeq(message, y + 1, y + size)
  BY <1>3, <1>5, Zenon DEF Piece, y, z
<1>7. \A i \in y + 1 .. y + size : message[i] \in Byte /\ i \in 1 .. l
  BY <1>1, <1>2
<1> HIDE DEF block, l
<1>8. /\ block \in Seq(Byte) /\ Len(block) = size
      /\ \A i \in 0 .. size - 1 : block[i + 1] = message[y + i + 1]
  BY <1>1, <1>2, <1>6, <1>7
<1>9. \A i \in 0 .. size - 1 : buffer[i] = block[i + 1]
  <2>1. TakenLen - size = y
    BY <1>2
  <2>2. \A i \in 0 .. size - 1 : buffer[i] = message[TakenLen - size + i + 1]
    BY Zenon DEF CutInv
  <2> QED BY <1>8, <2>1, <2>2, Zenon
<1> QED BY <1>1, <1>8, <1>9, Zenon DEF Holds, block

\* What every step within a block leaves as it is.
LEMMA BlockFrame ==
  ASSUME Inv, pc \in InBlockPlaces, pc' \in InBlockPlaces,
         UNCHANGED <<r, s, size, data, outVars, key, message, updates>>,
         a' \in [0 .. 7 -> Nat], buffer' \in [0 .. Block -> Byte],
         \A i \in 0 .. size - 1 : buffer'[i] = buffer[i]
  PROVE  /\ TypeInv' /\ KeyInv' /\ CutInv' /\ PlaceInv' /\ OutInv'
         /\ Complete' = Complete /\ Multiplier' = Multiplier /\ message' = message
<1> USE DEF Inv
<1>1. r' = r /\ s' = s /\ size' = size /\ data' = data /\ key' = key /\ message' = message
  BY Zenon
<1>2. pc # "key" /\ pc \in Working /\ pc' \in Places
  BY Zenon DEF Working, Places, InBlockPlaces
<1>3. TypeInv'
  BY <1>1, <1>2, Zenon DEF TypeInv
<1>4. KeyInv'
  BY <1>1, <1>2, KeyKept, Zenon
<1>5. TakenLen' = TakenLen /\ Complete' = Complete /\ Multiplier' = Multiplier
  BY <1>1, Kept, Zenon
<1>6. CutInv'
  BY <1>1, <1>5, Zenon DEF CutInv
<1>7. PlaceInv'
  <2>1. pc' \notin {"key", "blocks", "update", "tag"} /\ pc' \notin {"key", "blocks", "tag", "show", "wait", "done"}
        /\ pc' # "key"
    BY DEF InBlockPlaces
  <2> QED BY <1>1, <2>1, Zenon DEF PlaceInv
<1>8. OutInv'
  BY DEF OutInv, InBlockPlaces
<1> QED BY <1>1, <1>3, <1>4, <1>5, <1>6, <1>7, <1>8, Zenon

\* AddBlock: the accumulator and the next block of the message, summed.
LEMMA AddStep ==
  ASSUME Inv, AddBlock
  PROVE  Inv'
<1> DEFINE c == Carried(AddSum, 4)
           block == Piece(message, Complete + 1)
<1>1. /\ pc = "add" /\ pc' = "multiply" /\ buffer' = Padded /\ UNCHANGED <<r, s, size, data, outVars, key, message, updates>>
      /\ a' = c
  BY Zenon DEF AddBlock, InBlock, AddSum, PadWord
<1>2. pc \in InBlockPlaces /\ pc' \in InBlockPlaces
  BY <1>1 DEF InBlockPlaces
<1>3. Holds(block)
  BY <1>2, BlockHeld, Zenon
<1>4. Reduced /\ Number(a, 5) % P = Partial(message, Multiplier, Complete)
  BY <1>1, Zenon DEF Inv, AccInv
<1>5. c \in [0 .. 7 -> Nat] /\ c[4] \in 0 .. 5 /\ Wide(c) = Number(a, 5) + BlockNumber(block)
  BY <1>3, <1>4, AddRight, Zenon
<1>6. Padded \in [0 .. Block -> Byte] /\ BlockNumber(block) \in Nat
  BY <1>3, PaddedNumber, Zenon
<1>7. \A i \in 0 .. size - 1 : Padded[i] = buffer[i]
  <2>1. size \in Nat /\ size <= Block /\ Block \in Nat
    BY Lengths, Zenon DEF Inv
  <2>2. \A i \in 0 .. size - 1 : i \in 0 .. Block /\ i < size
    BY <2>1
  <2> DEFINE at(i) == CASE i < size -> buffer[i] [] i = size -> 1 [] i > size -> 0
  <2>3. Padded = [i \in 0 .. Block |-> at(i)]
    BY Zenon DEF Padded
  <2>4. \A i \in 0 .. size - 1 : at(i) = buffer[i]
    BY <2>1, <2>2
  <2> HIDE DEF at
  <2>5. \A i \in 0 .. size - 1 : Padded[i] = at(i)
    BY <2>2, <2>3, Zenon
  <2> QED BY <2>4, <2>5, Zenon
<1>8. /\ TypeInv' /\ KeyInv' /\ CutInv' /\ PlaceInv' /\ OutInv'
      /\ Complete' = Complete /\ Multiplier' = Multiplier /\ message' = message
  <2>1. buffer' \in [0 .. Block -> Byte] /\ \A i \in 0 .. size - 1 : buffer'[i] = buffer[i]
    BY <1>1, <1>6, <1>7, Zenon
  <2>2. a' \in [0 .. 7 -> Nat]
    BY <1>1, <1>5, Zenon
  <2> QED BY <1>1, <1>2, <2>1, <2>2, BlockFrame, Zenon
<1> DEFINE n == Number(a, 5)
           m == BlockNumber(block)
<1>9. Wide(c) % P = (Partial(message, Multiplier, Complete) + PieceNumber(message, Complete + 1)) % P
  <2>1. n \in Nat /\ m \in Nat /\ P \in Nat \ {0}
    BY <1>4, <1>6, ReducedNumber, Modulus, Zenon
  <2>2. Wide(c) = n + m
    BY <1>5, Zenon
  <2> HIDE DEF n, m
  <2>3. Congruent((n % P) + m, n + m, P)
    BY <2>1, CongruentSum, Zenon
  <2>4. ((n % P) + m) % P = Wide(c) % P
    BY <2>2, <2>3, Zenon DEF Congruent
  <2>5. n % P = Partial(message, Multiplier, Complete) /\ m = PieceNumber(message, Complete + 1)
    BY <1>4, Zenon DEF n, m, PieceNumber
  <2> QED BY <2>4, <2>5, Zenon
<1>10. AccInv'
  <2>1. a'[4] \in 0 .. 5
    BY <1>1, <1>5, Zenon
  <2>2. (Wide(a) % P)' = ((Partial(message, Multiplier, Complete) + PieceNumber(message, Complete + 1)) % P)'
    BY <1>1, <1>8, <1>9, Zenon
  <2> QED BY <1>1, <2>1, <2>2 DEF AccInv
<1> QED BY <1>8, <1>10, Zenon DEF Inv

\* Multiply: with r, the next value of the polynomial, modulo P, in eight words.
LEMMA MultiplyStep ==
  ASSUME Inv, Multiply
  PROVE  Inv'
<1> DEFINE c == Carried(ProductSum, 7)
           old == Partial(message, Multiplier, Complete)
           new == PieceNumber(message, Complete + 1)
           e == old + new
           N == Wide(a)
<1>1. /\ pc = "multiply" /\ pc' = "first pass" /\ buffer' = buffer
      /\ UNCHANGED <<r, s, size, data, outVars, key, message, updates>>
      /\ a' = c
  BY Zenon DEF Multiply, InBlock, ProductSum, Column, Product
<1>2. pc \in InBlockPlaces /\ pc' \in InBlockPlaces /\ pc # "key" /\ pc \in Working
  BY <1>1 DEF InBlockPlaces, Working
<1>3. /\ a \in [0 .. 7 -> Nat] /\ a[4] \in 0 .. 5 /\ N % P = e % P
      /\ r \in [0 .. 3 -> Nat] /\ message \in Seq(Byte) /\ buffer \in [0 .. Block -> Byte]
  BY <1>1, Zenon DEF Inv, TypeInv, AccInv
<1>4. r = [i \in 0 .. 3 |-> Clamped(i, key[i + 1])] /\ key \in [1 .. 8 -> Word]
  BY <1>2, Zenon DEF Inv, KeyInv
<1>5. Factors
  <2>1. \A j \in 0 .. 3 : key[j + 1] \in Word
    BY <1>4, MultiplierType, Zenon
  <2>2. \A j \in 0 .. 3 : r[j] < 2^(WordBits - TopClear)
    BY <1>4, <2>1, ClampedBound, Zenon
  <2> QED BY <1>3, <2>2, Zenon DEF Factors
<1>6. c \in [0 .. 7 -> Nat] /\ Number(Lows(c), 8) = N * Number(r, 4)
  BY <1>5, MultiplyRight, Zenon
<1>7. Number(r, 4) = Multiplier /\ Multiplier \in Nat
  BY <1>4, MultiplierType, Zenon DEF Multiplier
<1>8. /\ TypeInv' /\ KeyInv' /\ CutInv' /\ PlaceInv' /\ OutInv'
      /\ Complete' = Complete /\ Multiplier' = Multiplier /\ message' = message
  BY <1>1, <1>2, <1>3, <1>6, BlockFrame, Zenon
<1>9. Complete \in Nat /\ Complete + 1 \in Nat \ {0}
  <2>1. Complete \in Nat
    BY Lengths, Zenon DEF Inv
  <2> QED BY <2>1
<1>10. old \in 0 .. P - 1 /\ Partial(message, Multiplier, Complete + 1) = Absorbed(old, new, Multiplier)
  BY <1>3, <1>7, <1>9, PartialNext, Zenon DEF NextBlock
<1>11. new \in Nat
  BY <1>3, <1>9, PieceType, Zenon DEF PieceNumber
<1>12. N \in Nat
  <2>1. a[4] \in Nat
    BY <1>3
  <2>2. Weight(4) \in Nat
    BY Modulus, Zenon
  <2>3. \A i \in 0 .. 3 : Lows(a)[i] \in Nat
    <3>1. \A i \in 0 .. 3 : i \in 0 .. 7
      OBVIOUS
    <3>2. \A y \in 0 .. Base - 1 : y \in Nat
      BY Weights
    <3> QED BY <1>3, <3>1, <3>2, LowHigh, Zenon DEF Lows
  <2>4. Number(Lows(a), 4) \in Nat
    BY <2>3, NumberFour, Zenon
  <2> DEFINE g == Number(Lows(a), 4)
             w == Weight(4)
             z == a[4]
  <2>5. g \in Nat /\ w \in Nat /\ z \in Nat
    BY <2>1, <2>2, <2>4, Zenon
  <2> HIDE DEF g, w, z
  <2>6. z * w \in Nat
    BY <2>5, Times
  <2> DEFINE y == z * w
  <2>7. y \in Nat
    BY <2>6
  <2> HIDE DEF y
  <2>8. g + y \in Nat
    BY <2>5, <2>7
  <2> QED BY <2>8, Zenon DEF Wide, g, w, z, y
<1>13. (N * Multiplier) % P = Absorbed(old, new, Multiplier)
  <2>1. P \in Nat \ {0}
    BY Modulus, Zenon
  <2>2. Congruent((N % P) * Multiplier, N * Multiplier, P)
    BY <1>7, <1>12, <2>1, CongruentTimes, Zenon
  <2>3. ((e % P) * Multiplier) % P = (N * Multiplier) % P
    BY <1>3, <2>2, Zenon DEF Congruent
  <2> QED BY <2>3, Zenon DEF Absorbed
<1>14. Number(Lows(c), 8) % P = Partial(message, Multiplier, Complete + 1)
  BY <1>6, <1>7, <1>10, <1>13, Zenon
<1>15. AccInv'
  <2>1. (Number(Lows(a), 8) % P)' = Partial(message, Multiplier, Complete + 1)'
    <3>1. Lows(a)' = Lows(c)
      BY <1>1, Zenon DEF Lows
    <3> QED BY <1>8, <1>14, <3>1, Zenon
  <2> QED BY <1>1, <2>1 DEF AccInv
<1> QED BY <1>8, <1>15, Zenon DEF Inv

\* FirstPass: the same modulo P in five words.
LEMMA FirstStep ==
  ASSUME Inv, FirstPass
  PROVE  Inv'
<1> DEFINE c == Carried(FirstSum, 4)
<1>1. /\ pc = "first pass" /\ pc' = "second pass" /\ buffer' = buffer
      /\ UNCHANGED <<r, s, size, data, outVars, key, message, updates>>
      /\ a' = c
  BY Zenon DEF FirstPass, InBlock, FirstSum, FirstHigh, FirstShifted
<1>2. pc \in InBlockPlaces /\ pc' \in InBlockPlaces
  BY <1>1 DEF InBlockPlaces
<1>3. /\ a \in [0 .. 7 -> Nat] /\ buffer \in [0 .. Block -> Byte]
      /\ Number(Lows(a), 8) % P = Partial(message, Multiplier, Complete + 1)
  BY <1>1, Zenon DEF Inv, TypeInv, AccInv
<1>4. c \in [0 .. 7 -> Nat] /\ c[4] \in 0 .. 6 /\ Congruent(Number(Lows(a), 8), Wide(c), P)
  BY <1>3, FirstPassRight, Zenon
<1>5. /\ TypeInv' /\ KeyInv' /\ CutInv' /\ PlaceInv' /\ OutInv'
      /\ Complete' = Complete /\ Multiplier' = Multiplier /\ message' = message
  BY <1>1, <1>2, <1>3, <1>4, BlockFrame, Zenon
<1>6. Wide(c) % P = Partial(message, Multiplier, Complete + 1)
  BY <1>3, <1>4, Zenon DEF Congruent
<1>7. AccInv'
  <2>1. a'[4] \in 0 .. 6 /\ (Wide(a) % P)' = Partial(message, Multiplier, Complete + 1)'
    BY <1>1, <1>4, <1>5, <1>6, Zenon
  <2> QED BY <1>1, <2>1 DEF AccInv
<1> QED BY <1>5, <1>7, Zenon DEF Inv

\* SecondPass: the same in 130 bits, in the loop or before the tag.
LEMMA SecondStep ==
  ASSUME Inv, SecondPass
  PROVE  Inv'
<1> USE DEF Inv
<1> DEFINE d == LeastSignificant(Carried(SecondSum, 4))
<1>1. /\ pc = "second pass" /\ pc' = Caller /\ buffer' = buffer /\ size' = (IF size = Block THEN 0 ELSE size)
      /\ r' = r /\ s' = s /\ data' = data /\ key' = key /\ message' = message
      /\ a' = d
  BY Zenon DEF SecondPass, InBlock, Return, SecondSum
<1>2. /\ a \in [0 .. 7 -> Nat] /\ a[4] \in 0 .. 6 /\ buffer \in [0 .. Block -> Byte]
      /\ Wide(a) % P = Partial(message, Multiplier, Complete + 1)
      /\ size > 0 /\ (size < Block => data = << >>)
  <2>1. pc \in InBlockPlaces
    BY <1>1 DEF InBlockPlaces
  <2> QED BY <1>1, <2>1, Zenon DEF TypeInv, AccInv, PlaceInv
<1>3. /\ d \in [0 .. 7 -> Nat] /\ d[4] \in 0 .. 3 /\ \A i \in 0 .. 3 : d[i] \in Word
      /\ Congruent(Wide(a), Number(d, 5), P)
  BY <1>2, SecondPassRight, Zenon
<1>4. /\ Complete \in Nat /\ Complete * Block \in Nat /\ TakenLen = Complete * Block + size /\ TakenLen \in Nat
      /\ size \in Nat /\ size <= Block /\ Block \in Nat /\ Block # 0
      /\ Len(message) \in Nat /\ Len(data) \in Nat
  BY Lengths, Zenon
<1>5. TakenLen' = TakenLen /\ Multiplier' = Multiplier
  BY <1>1, Kept, Zenon
<1>6. Reduced' /\ (Number(a, 5) % P)' = Partial(message, Multiplier, Complete + 1)
  <2>1. Reduced'
    BY <1>1, <1>3, Zenon DEF Reduced
  <2>2. Number(d, 5) % P = Partial(message, Multiplier, Complete + 1)
    BY <1>2, <1>3, Zenon DEF Congruent
  <2> QED BY <1>1, <2>1, <2>2, Zenon
<1>7. TypeInv'
  <2>1. size' \in 0 .. Block
    <3>1. 0 \in 0 .. Block /\ size \in 0 .. Block
      BY <1>4
    <3> QED BY <1>1, <3>1, Zenon
  <2>2. pc' \in Places
    BY <1>1 DEF Caller, Places
  <2> QED BY <1>1, <1>3, <2>1, <2>2, Zenon DEF TypeInv
<1>8. KeyInv'
  <2>1. pc # "key" /\ pc \in Working
    BY <1>1 DEF Working, InBlockPlaces
  <2> QED BY <1>1, <2>1, KeyKept, Zenon
<1>9. CASE size = Block
  <2>1. pc' = "update" /\ size' = 0
    BY <1>1, <1>9, Zenon DEF Caller
  <2> DEFINE y == Complete * Block
             z == (Complete + 1) * Block
  <2>2. z = y + Block
    BY <1>4, Z3
  <2>3. TakenLen = z + 0 /\ z \in Nat
    <3>1. y \in Nat /\ TakenLen = y + size
      BY <1>4, Zenon
    <3> HIDE DEF y, z
    <3> QED BY <1>4, <1>9, <2>2, <3>1
  <2>4. Complete + 1 \in Nat /\ 0 \in 0 .. Block - 1
    BY <1>4
  <2>5. TakenLen - 0 = TakenLen /\ TakenLen = z
    <3> HIDE DEF z
    <3> QED BY <1>4, <2>3
  <2>6. (z + 0) \div Block = Complete + 1 /\ (z + 0) % Block = 0
    BY <1>4, <2>4, Division
  <2>7. z + 0 = z
    <3> HIDE DEF z
    <3> QED BY <2>3
  <2>8. Complete' = Complete + 1 /\ (TakenLen' - size') % Block = 0
    BY <1>5, <2>1, <2>5, <2>6, <2>7, Zenon DEF Complete
  <2>9. CutInv'
    <3>1. 0 <= TakenLen
      BY <1>4
    <3>2. \A i \in 0 .. 0 - 1 : FALSE
      OBVIOUS
    <3> QED BY <1>1, <1>5, <2>1, <2>8, <3>1, <3>2, Zenon DEF CutInv
  <2>10. PlaceInv'
    <3>1. 0 < Block
      BY <1>4
    <3>2. pc' \notin InBlockPlaces /\ pc' # "key" /\ pc' \notin {"key", "blocks", "tag", "show", "wait", "done"}
      BY <2>1 DEF InBlockPlaces
    <3> QED BY <2>1, <3>1, <3>2, Zenon DEF PlaceInv
  <2>11. AccInv'
    <3>1. (Number(a, 5) % P)' = Partial(message, Multiplier, Complete)'
      BY <1>1, <1>5, <1>6, <2>8, Zenon
    <3> QED BY <1>6, <2>1, <3>1 DEF AccInv
  <2>12. OutInv'
    BY <2>1 DEF OutInv
  <2> QED BY <1>7, <1>8, <2>9, <2>10, <2>11, <2>12, Zenon
<1>10. CASE size # Block
  <2>1. pc' = "tag" /\ size' = size
    BY <1>1, <1>10, Zenon DEF Caller
  <2>2. size < Block /\ data = << >> /\ size \in 0 .. Block - 1 /\ size # 0
    BY <1>2, <1>4, <1>10
  <2>3. CutInv'
    BY <1>1, <2>1, CutKept, Zenon
  <2>4. PlaceInv'
    BY <1>1, <2>1, <2>2 DEF PlaceInv, InBlockPlaces
  <2>5. Len(message) = Complete * Block + size
    <3>1. Len(data) = 0
      BY <2>2
    <3>2. TakenLen = Len(message)
      BY <1>4, <3>1 DEF TakenLen
    <3> QED BY <1>4, <3>2, Zenon
  <2>6. Polynomial(message, Multiplier) = Partial(message, Multiplier, IF size = 0 THEN Complete ELSE Complete + 1)
    BY <1>4, <2>2, <2>5, PolynomialBlocks, Zenon
  <2>7. AccInv'
    <3>1. (Number(a, 5) % P)' = Polynomial(message, Multiplier)'
      BY <1>1, <1>5, <1>6, <2>2, <2>6, Zenon
    <3> QED BY <1>6, <2>1, <3>1 DEF AccInv
  <2>8. OutInv'
    BY <2>1 DEF OutInv
  <2> QED BY <1>7, <1>8, <2>3, <2>4, <2>7, <2>8, Zenon
<1> QED BY <1>9, <1>10, Zenon

\* The bytes of four words.
TagBytes(c) == [k \in 0 .. Block - 1 |-> Stored(Low(c[k \div Bytes]), k % Bytes)]

\* The bytes of the words are the number that the words are.
LEMMA TagBytesRight ==
  ASSUME NEW c \in [0 .. 7 -> Nat]
  PROVE  TagBytes(c) \in [0 .. Block - 1 -> Byte] /\ LittleEndian(ByteBits, TagBytes(c), 0, Block) = Number(Lows(c), 4)
<1> DEFINE t == TagBytes(c)
           b == 2^ByteBits
<1>1. /\ ByteBits \in Nat /\ Bytes \in Nat \ {0} /\ WordBits = ByteBits * Bytes /\ Block = 4 * Bytes /\ Block \in Nat
      /\ b \in Nat \ {0} /\ Byte = 0 .. b - 1
  BY Sizes, PowerType DEF Byte
<1> HIDE DEF b
<1>2. ASSUME NEW i \in 0 .. 3
      PROVE  /\ i * Bytes \in Nat
             /\ \A j \in 0 .. Bytes - 1 : /\ i * Bytes + j \in 0 .. Block - 1
                                          /\ (i * Bytes + j) \div Bytes = i /\ (i * Bytes + j) % Bytes = j
  <2>1. i \in Nat /\ i * Bytes \in Nat /\ i * Bytes <= 3 * Bytes
    BY <1>1, Z3
  <2>2. \A j \in 0 .. Bytes - 1 : (i * Bytes + j) \div Bytes = i /\ (i * Bytes + j) % Bytes = j
    BY <1>1, <2>1, Division
  <2> DEFINE x == i * Bytes
  <2>3. x \in Nat /\ x <= 3 * Bytes
    BY <2>1, Zenon
  <2> HIDE DEF x
  <2>4. \A j \in 0 .. Bytes - 1 : x + j \in 0 .. Block - 1
    BY <1>1, <2>3
  <2> QED BY <2>1, <2>2, <2>4, Zenon DEF x
<1>3. \A k \in 0 .. Block - 1 : k \div Bytes \in 0 .. 3 /\ k % Bytes \in 0 .. Bytes - 1
  <2> SUFFICES ASSUME NEW k \in 0 .. Block - 1
               PROVE  k \div Bytes \in 0 .. 3 /\ k % Bytes \in 0 .. Bytes - 1
    BY Zenon
  <2> DEFINE q == k \div Bytes
             rest == k % Bytes
  <2>1. q \in Nat /\ rest \in 0 .. Bytes - 1 /\ k = q * Bytes + rest
    <3>1. k \in Nat
      OBVIOUS
    <3> QED BY <1>1, <3>1, Divided
  <2> HIDE DEF q, rest
  <2>2. q <= 3
    <3>1. SUFFICES ASSUME q >= 4 PROVE FALSE
      BY <2>1
    <3>2. q * Bytes >= 4 * Bytes /\ q * Bytes \in Nat
      BY <1>1, <2>1, <3>1, Z3
    <3> DEFINE y == q * Bytes
    <3>3. y >= 4 * Bytes /\ y \in Nat /\ k = y + rest
      BY <2>1, <3>2, Zenon
    <3> HIDE DEF y
    <3> QED BY <1>1, <2>1, <3>3
  <2>3. q \in 0 .. 3
    BY <2>1, <2>2
  <2> QED BY <2>1, <2>3, Zenon DEF q, rest
<1>4. \A i \in 0 .. 3 : i \in 0 .. 7 /\ c[i] \in Nat /\ Low(c[i]) \in Nat /\ Low(c[i]) < Base /\ Lows(c)[i] = Low(c[i])
  <2>1. \A i \in 0 .. 3 : i \in 0 .. 7
    OBVIOUS
  <2>2. \A y \in 0 .. Base - 1 : y \in Nat /\ y < Base
    BY Weights
  <2>3. \A i \in 0 .. 3 : c[i] \in Nat
    BY <2>1, Zenon
  <2> QED BY <2>1, <2>2, <2>3, LowHigh, Zenon DEF Lows
<1>5. \A n \in Nat : \A j \in Nat : Stored(n, j) \in Byte
  <2> SUFFICES ASSUME NEW n \in Nat, NEW j \in Nat PROVE Stored(n, j) \in Byte
    BY Zenon
  <2> DEFINE v == 2^(ByteBits * j)
             y == n \div v
  <2>1. v \in Nat \ {0}
    <3>1. ByteBits * j \in Nat
      BY <1>1, Times
    <3> QED BY <3>1, PowerType
  <2> HIDE DEF v
  <2>2. y \in Nat
    BY <2>1, Divided
  <2> HIDE DEF y
  <2>3. y % b \in 0 .. b - 1
    BY <1>1, <2>2, Divided
  <2> QED BY <1>1, <2>3, Zenon DEF Stored, y, v, b
<1>6. t \in [0 .. Block - 1 -> Byte]
  <2>1. \A k \in 0 .. Bytes - 1 : k \in Nat
    OBVIOUS
  <2> DEFINE at(k) == Stored(Low(c[k \div Bytes]), k % Bytes)
  <2>2. \A k \in 0 .. Block - 1 : at(k) \in Byte
    BY <1>3, <1>4, <1>5, <2>1, Zenon
  <2>3. t = [k \in 0 .. Block - 1 |-> at(k)]
    BY Zenon DEF TagBytes
  <2> HIDE DEF at, t
  <2> QED BY <2>2, <2>3, Zenon
<1>7. \A i \in 0 .. 3 : Lows(c)[i] = LoadWord(t, i * Bytes)
  <2> SUFFICES ASSUME NEW i \in 0 .. 3 PROVE Lows(c)[i] = LoadWord(t, i * Bytes)
    BY Zenon
  <2> DEFINE x == i * Bytes
             n == Low(c[i])
  <2>1. \A j \in 0 .. Bytes - 1 : t[x + j] = Stored(n, j)
    <3> SUFFICES ASSUME NEW j \in 0 .. Bytes - 1 PROVE t[x + j] = Stored(n, j)
      BY Zenon
    <3> DEFINE k == x + j
    <3>1. k \in 0 .. Block - 1 /\ k \div Bytes = i /\ k % Bytes = j
      BY <1>2, Zenon
    <3>2. t[k] = Stored(Low(c[k \div Bytes]), k % Bytes)
      <4> HIDE DEF k
      <4> QED BY <3>1, Zenon DEF TagBytes
    <3> HIDE DEF k, t
    <3> QED BY <3>1, <3>2, Zenon DEF k
  <2>2. \A j \in 0 .. Bytes - 1 : t[x + j] = (n \div 2^(ByteBits * j)) % 2^ByteBits
    <3> HIDE DEF t, x, n
    <3> QED BY <2>1, Zenon DEF Stored
  <2>3. x \in Nat /\ n \in Nat /\ n < Base /\ Bytes \in Nat
    BY <1>1, <1>2, <1>4, Zenon
  <2>3a. Bytes \in Nat
    BY <1>1
  <2> HIDE DEF t, x, n
  <2>4. DigitsOf(ByteBits, t, x, n, Bytes)
    BY <1>1, <2>2, <2>3, <2>3a, LittleStored, Zenon
  <2>5. LittleEndian(ByteBits, t, x, Bytes) = n % Base
    BY <1>1, <2>4, Zenon DEF DigitsOf, Base
  <2>6. n % Base = n
    <3>1. Low(n) = n
      BY <2>3, LowHigh, Zenon
    <3> QED BY <3>1, Zenon DEF Low, Base
  <2>7. LoadWord(t, x) = n
    BY <2>5, <2>6, Zenon DEF LoadWord
  <2> QED BY <1>4, <2>7, Zenon DEF x, n
<1> HIDE DEF t
<1>8. WordsOf(t, Lows(c), 4)
  <2>1. \A i \in 0 .. 4 * Bytes - 1 : t[i] \in Byte
    <3>1. \A i \in 0 .. 4 * Bytes - 1 : i \in 0 .. Block - 1
      BY <1>1
    <3> QED BY <1>6, <3>1, Zenon
  <2>2. \A i \in 0 .. 4 - 1 : i \in 0 .. 3
    OBVIOUS
  <2>3. \A i \in 0 .. 4 - 1 : Lows(c)[i] = LoadWord(t, i * Bytes)
    BY <1>7, <2>2, Zenon
  <2>4. 4 \in Nat
    OBVIOUS
  <2> QED BY <2>1, <2>3, <2>4, LittleWords, Zenon
<1>9. LittleEndian(ByteBits, t, 0, Block) = Number(Lows(c), 4)
  BY <1>1, <1>8, Zenon DEF WordsOf
<1> QED BY <1>6, <1>9, Zenon DEF t

\* The rest of poly1305Final: the tag, to 128 bits.
LEMMA TagStep ==
  ASSUME Inv, Tag
  PROVE  Inv'
<1> USE DEF Inv
<1> DEFINE c == Carried(TagSum, 4)
<1>1. /\ pc = "tag" /\ pc' = "show" /\ tag' = TagBytes(c)
      /\ a' = [i \in 0 .. 7 |-> 0] /\ r' = [i \in 0 .. 3 |-> 0] /\ s' = [i \in 0 .. 3 |-> 0]
      /\ buffer' = buffer /\ size' = size /\ data' = data /\ key' = key /\ message' = message
  BY Zenon DEF Tag, TagBytes, TagSum
<1>2. Reduced /\ Number(a, 5) % P = Polynomial(message, Multiplier) /\ s \in [0 .. 3 -> Word]
  BY <1>1, Zenon DEF AccInv, TypeInv
<1>3. pc # "key" /\ pc \in Working /\ data = << >> /\ size < Block
  <2>1. pc # "key" /\ pc \in Working
    BY <1>1 DEF Working
  <2> QED BY <1>1, <2>1, Zenon DEF PlaceInv
<1>4. s = [i \in 0 .. 3 |-> key[i + 5]] /\ key \in [1 .. 8 -> Word]
  BY <1>3, Zenon DEF KeyInv
<1>5. c \in [0 .. 7 -> Nat] /\ Number(Lows(c), 4) = ((Number(a, 5) % P) + Number(s, 4)) % 2^(4 * WordBits)
  BY <1>2, TagValue, Zenon
<1>6. Number(Lows(c), 4) = Sum
  BY <1>2, <1>4, <1>5, Zenon DEF Sum
<1>7. tag' \in [0 .. Block - 1 -> Byte] /\ LittleEndian(ByteBits, tag', 0, Block) = Sum
  BY <1>1, <1>5, <1>6, TagBytesRight, Zenon
<1>8. TypeInv'
  <2>1. 0 \in Word /\ 0 \in Nat
    BY Weights
  <2>2. r' \in [0 .. 3 -> Nat] /\ s' \in [0 .. 3 -> Word] /\ a' \in [0 .. 7 -> Nat]
    BY <1>1, <2>1, Zenon
  <2> QED BY <1>1, <2>2, Zenon DEF TypeInv, Places
<1>9. KeyInv'
  BY <1>1, <1>4 DEF KeyInv, Working, InBlockPlaces
<1>10. CutInv'
  BY <1>1, CutKept, Zenon
<1>11. PlaceInv'
  BY <1>1, <1>3 DEF PlaceInv, InBlockPlaces
<1>12. AccInv'
  BY <1>1 DEF AccInv
<1>13. OutInv'
  <2>1. Sum' = Sum
    BY <1>1, Kept, Zenon
  <2>2. LittleEndian(ByteBits, tag, 0, Block)' = Sum'
    BY <1>7, <2>1, Zenon
  <2> QED BY <1>1, <1>7, <2>2 DEF OutInv
<1> QED BY <1>8, <1>9, <1>10, <1>11, <1>12, <1>13, Zenon

\* main puts out two digits for each byte.
LEMMA ShowStep ==
  ASSUME Inv, ShowBlock
  PROVE  Inv'
<1> USE DEF Inv
<1>1. /\ pc = "show" /\ pc' = "wait" /\ tag' = tag /\ shown' = ShownDigits
      /\ r' = r /\ s' = s /\ a' = a /\ buffer' = buffer /\ size' = size /\ data' = data /\ key' = key /\ message' = message
  BY Zenon DEF ShowBlock, context, ShownDigits
<1>2. tag \in [0 .. Block - 1 -> Byte] /\ LittleEndian(ByteBits, tag, 0, Block) = Sum
  BY <1>1, Zenon DEF OutInv
<1>3. ShownBytes(ShownDigits) = tag
  BY <1>2, DigitsRight, Zenon
<1>4. pc # "key" /\ data = << >> /\ pc' \notin Working /\ pc' \in Places
  <2>1. pc # "key" /\ pc' \notin Working
    BY <1>1 DEF Working, InBlockPlaces
  <2> QED BY <1>1, <2>1, Zenon DEF PlaceInv, Places
<1>5. TypeInv'
  BY <1>1, <1>4, Zenon DEF TypeInv
<1>6. KeyInv'
  BY <1>1, <1>4, Zenon DEF KeyInv
<1>7. CutInv'
  BY <1>1, CutKept, Zenon
<1>8. PlaceInv'
  BY <1>1, <1>4 DEF PlaceInv, InBlockPlaces
<1>9. AccInv'
  BY <1>1 DEF AccInv
<1>10. OutInv'
  <2>1. ShownBytes(shown') = tag /\ Sum' = Sum
    BY <1>1, <1>3, Kept, Zenon
  <2>2. LittleEndian(ByteBits, ShownBytes(shown), 0, Block)' = Sum'
    BY <1>2, <2>1, Zenon
  <2> QED BY <1>1, <2>2 DEF OutInv
<1> QED BY <1>5, <1>6, <1>7, <1>8, <1>9, <1>10, Zenon

LEMMA HaltStep ==
  ASSUME Inv, SimHalt
  PROVE  Inv'
<1> USE DEF Inv
<1>1. /\ pc = "wait" /\ pc' = "done" /\ shown' = shown
      /\ r' = r /\ s' = s /\ a' = a /\ buffer' = buffer /\ size' = size /\ data' = data /\ key' = key /\ message' = message
  BY Zenon DEF SimHalt, context, outVars
<1>2. pc # "key" /\ data = << >> /\ pc' \notin Working /\ pc' \in Places
  <2>1. pc # "key" /\ pc' \notin Working
    BY <1>1 DEF Working, InBlockPlaces
  <2> QED BY <1>1, <2>1, Zenon DEF PlaceInv, Places
<1>3. TypeInv'
  BY <1>1, <1>2, Zenon DEF TypeInv
<1>4. KeyInv'
  BY <1>1, <1>2, Zenon DEF KeyInv
<1>5. CutInv'
  BY <1>1, CutKept, Zenon
<1>6. PlaceInv'
  BY <1>1, <1>2 DEF PlaceInv, InBlockPlaces
<1>7. AccInv'
  BY <1>1 DEF AccInv
<1>8. OutInv'
  <2>1. Sum' = Sum
    BY <1>1, Kept, Zenon
  <2>2. LittleEndian(ByteBits, ShownBytes(shown), 0, Block) = Sum
    BY <1>1, Zenon DEF OutInv
  <2>3. LittleEndian(ByteBits, ShownBytes(shown), 0, Block)' = Sum'
    BY <1>1, <2>1, <2>2, Zenon
  <2> QED BY <1>1, <2>3 DEF OutInv
<1> QED BY <1>3, <1>4, <1>5, <1>6, <1>7, <1>8, Zenon

-----------------------------------------------------------------------------
(* The widths of the variables, for which the sums have room.              *)

\* r has its upper bits cleared, the accumulator is of double words.
WidthInv ==
  /\ r \in [0 .. 3 -> 0 .. 2^(WordBits - TopClear) - 1]
  /\ a \in [0 .. 7 -> DoubleWord]

Doubles(x) == x \in [0 .. 7 -> DoubleWord]

\* Zeros, and what a double word has room for.
LEMMA DoubleWords ==
  /\ 0 \in DoubleWord /\ 0 \in 0 .. 2^(WordBits - TopClear) - 1
  /\ \A n \in Nat : Cut(n) \in DoubleWord
  /\ \A n \in Nat : n <= Base * Base - Base => n \in DoubleWord
  /\ \A n \in Nat : n <= 3 * Base => n <= Base * Base - Base
  /\ \A n \in Nat : n <= Base => n <= Base * Base - Base
<1> DEFINE sq == Base * Base
           top == 2^(WordBits - TopClear)
<1>1. Base \in Nat /\ Base >= 64 /\ DoubleWord = 0 .. sq - 1
  BY Weights, Zenon DEF DoubleWord
<1>2. sq \in Nat /\ sq >= 64 * Base
  BY <1>1, Z3
<1>3. top \in Nat \ {0}
  BY Parts, Zenon
<1>4. \A n \in Nat : Cut(n) \in Nat /\ Cut(n) < sq
  BY LowHigh, Zenon
<1> HIDE DEF sq, top
<1>5. \A n \in Nat : n < sq => n \in DoubleWord
  BY <1>1, <1>2
<1>6. 0 \in 0 .. top - 1 /\ 0 < sq
  BY <1>1, <1>2, <1>3
<1>7. \A n \in Nat : /\ n <= sq - Base => n < sq
                     /\ n <= 3 * Base => n <= sq - Base
                     /\ n <= Base => n <= sq - Base
  BY <1>1, <1>2
<1>8. 0 \in Nat
  OBVIOUS
<1> QED BY <1>4, <1>5, <1>6, <1>7, <1>8, Zenon DEF sq, top

\* The carries keep the words double words.
LEMMA CarriedDoubles ==
  ASSUME NEW x \in [0 .. 7 -> Nat], NEW top \in 0 .. 7, Doubles(x)
  PROVE  Doubles(Carried(x, top))
<1> DEFINE c == Carried(x, top)
<1>1. Chain(c, x, top)
  BY CarriedChain, Zenon
<1> HIDE DEF c
<1>2. ASSUME NEW i \in 0 .. 7 PROVE c[i] \in DoubleWord
  <2>1. CASE i \in 1 .. top
    <3>1. i - 1 \in 0 .. 7
      BY <2>1
    <3>2. c[i] = Cut(x[i] + High(c[i - 1])) /\ c[i - 1] \in Nat /\ x[i] \in Nat
      BY <1>1, <2>1, <3>1, Zenon DEF Chain
    <3> DEFINE y == x[i]
               h == High(c[i - 1])
    <3>3. y \in Nat /\ h \in Nat
      BY <3>2, LowHigh, Zenon
    <3> HIDE DEF y, h
    <3>4. y + h \in Nat
      BY <3>3
    <3>5. Cut(y + h) \in DoubleWord
      BY <3>4, DoubleWords, Zenon
    <3> QED BY <3>2, <3>5, Zenon DEF y, h
  <2>2. CASE i \notin 1 .. top
    <3>1. c[i] = x[i]
      BY <1>1, <2>2, Zenon DEF Chain
    <3> QED BY <3>1, Zenon DEF Doubles
  <2> QED BY <2>1, <2>2, Zenon
<1>3. c \in [0 .. 7 -> DoubleWord]
  <2>1. c \in [0 .. 7 -> Nat]
    BY <1>1, Zenon DEF Chain
  <2>2. c = [i \in 0 .. 7 |-> c[i]]
    BY <2>1, Zenon
  <2> QED BY <1>2, <2>2, Zenon
<1> QED BY <1>3, Zenon DEF Doubles, c

\* Five words with room for carries, and the upper three of the accumulator.
LEMMA RoomyDoubles ==
  ASSUME NEW x, Roomy(x), Doubles(a), \A i \in 5 .. 7 : x[i] = a[i]
  PROVE  x \in [0 .. 7 -> Nat] /\ Doubles(x) /\ Doubles(Carried(x, 4))
<1>1. x \in [0 .. 7 -> Nat] /\ 4 \in 0 .. 7
  BY DEF Roomy
<1>2. \A i \in 0 .. 7 : i \in {0, 1, 2, 3, 4} \/ i \in 5 .. 7
  OBVIOUS
<1>3. \A i \in 0 .. 7 : x[i] \in Nat
  BY <1>1, Zenon
<1>4. \A i \in {0, 1, 2, 3, 4} : i \in 0 .. 7
  OBVIOUS
<1>5. \A i \in {0, 1, 2, 3, 4} : x[i] <= Base * Base - Base
  <2>1. x[4] <= Base * Base - Base
    BY <1>1, DoubleWords, Zenon DEF Roomy
  <2> QED BY <2>1, Zenon DEF Roomy
<1>6. \A i \in {0, 1, 2, 3, 4} : x[i] \in DoubleWord
  BY <1>3, <1>4, <1>5, DoubleWords, Zenon
<1>7. \A i \in 5 .. 7 : x[i] \in DoubleWord
  <2>1. \A i \in 5 .. 7 : i \in 0 .. 7
    OBVIOUS
  <2> QED BY <2>1, Zenon DEF Doubles
<1>8. x = [i \in 0 .. 7 |-> x[i]]
  BY <1>1, Zenon
<1>9. Doubles(x)
  <2>1. \A i \in 0 .. 7 : x[i] \in DoubleWord
    BY <1>2, <1>6, <1>7, Zenon
  <2> QED BY <1>8, <2>1, Zenon DEF Doubles
<1>10. Doubles(Carried(x, 4))
  BY <1>1, <1>9, CarriedDoubles, Zenon
<1> QED BY <1>1, <1>9, <1>10, Zenon

\* The words above the fifth, which the cut to 130 bits leaves.
LEMMA UpperKept ==
  ASSUME NEW x \in [0 .. 7 -> Nat]
  PROVE  \A i \in 5 .. 7 : LeastSignificant(x)[i] = x[i]
<1> SUFFICES ASSUME NEW i \in 5 .. 7 PROVE LeastSignificant(x)[i] = x[i]
  BY Zenon
<1>1. i \in DOMAIN x /\ i > 4
  OBVIOUS
<1> QED BY <1>1, Z3 DEF LeastSignificant

\* The cut to 130 bits keeps the words double words.
LEMMA LeastDoubles ==
  ASSUME NEW x \in [0 .. 7 -> Nat], Doubles(x)
  PROVE  Doubles(LeastSignificant(x))
<1> DEFINE d == LeastSignificant(x)
<1>1. /\ d \in [0 .. 7 -> Nat] /\ d[4] = Two(x[4])
      /\ \A i \in 0 .. 3 : d[i] \in Word
  BY LeastWords, Zenon
<1>2. \A i \in 5 .. 7 : d[i] = x[i]
  BY UpperKept, Zenon
<1> HIDE DEF d
<1>3. \A i \in 0 .. 7 : i \in 0 .. 3 \/ i = 4 \/ i \in 5 .. 7
  OBVIOUS
<1>4. \A i \in 5 .. 7 : i \in 0 .. 7
  OBVIOUS
<1>5. \A n \in Word : n \in Nat /\ n <= Base
  BY Weights
<1>6. Two(x[4]) \in Nat /\ Two(x[4]) <= Base
  <2>1. x[4] \in Nat
    OBVIOUS
  <2>2. Two(x[4]) \in 0 .. 3
    BY <2>1, TwoParts, Zenon
  <2>3. Base \in Nat /\ Base >= 64
    BY Weights, Zenon
  <2>4. \A n \in 0 .. 3 : n \in Nat /\ n <= Base
    BY <2>3
  <2> QED BY <2>2, <2>4, Zenon
<1>7. \A n \in Nat : n <= Base => n \in DoubleWord
  BY DoubleWords, Zenon
<1>8. \A i \in 0 .. 7 : d[i] \in DoubleWord
  BY <1>1, <1>2, <1>3, <1>4, <1>5, <1>6, <1>7, Zenon DEF Doubles
<1>9. d = [i \in 0 .. 7 |-> d[i]]
  BY <1>1, Zenon
<1> QED BY <1>8, <1>9, Zenon DEF Doubles, d

\* AddBlock: the words of the block are added below the carries of 64 bits.
LEMMA AddWidth ==
  ASSUME Inv, WidthInv, AddBlock
  PROVE  WidthInv'
<1> DEFINE block == Piece(message, Complete + 1)
<1>1. pc = "add" /\ a' = Carried(AddSum, 4) /\ r' = r
  BY Zenon DEF AddBlock, InBlock, AddSum, PadWord
<1>2. Holds(block) /\ Reduced
  <2>1. pc \in InBlockPlaces
    BY <1>1 DEF InBlockPlaces
  <2> QED BY <1>1, <2>1, BlockHeld, Zenon DEF Inv, AccInv
<1>3. Roomy(AddSum)
  BY <1>2, AddRight, Zenon
<1>4. \A i \in 5 .. 7 : AddSum[i] = a[i]
  BY DEF AddSum
<1>5. Doubles(Carried(AddSum, 4))
  BY <1>3, <1>4, RoomyDoubles, Zenon DEF WidthInv, Doubles
<1> QED BY <1>1, <1>5, Zenon DEF WidthInv, Doubles

\* Multiply: no column of the product leaves a double word.
LEMMA MultiplyWidth ==
  ASSUME Inv, WidthInv, Multiply
  PROVE  WidthInv'
<1>1. pc = "multiply" /\ a' = Carried(ProductSum, 7) /\ r' = r
  BY Zenon DEF Multiply, InBlock, ProductSum, Column, Product
<1>2. Factors
  <2>1. a \in [0 .. 7 -> Nat] /\ a[4] \in 0 .. 5 /\ r \in [0 .. 3 -> Nat]
    BY <1>1, Zenon DEF Inv, TypeInv, AccInv
  <2> DEFINE top == 2^(WordBits - TopClear)
  <2>2. top \in Nat \ {0}
    BY Parts, Zenon
  <2>3. \A j \in 0 .. 3 : r[j] \in 0 .. top - 1
    BY Zenon DEF WidthInv
  <2> HIDE DEF top
  <2>4. \A n \in 0 .. top - 1 : n < top
    BY <2>2
  <2>5. \A j \in 0 .. 3 : r[j] < top
    BY <2>3, <2>4, Zenon
  <2> QED BY <2>1, <2>5, Zenon DEF Factors, top
<1>3. ProductSum \in [0 .. 7 -> Nat] /\ \A k \in 0 .. 7 : ProductSum[k] <= Base * Base - Base
  BY <1>2, ProductWords, Zenon
<1>4. Doubles(ProductSum)
  <2>1. \A k \in 0 .. 7 : ProductSum[k] \in DoubleWord
    BY <1>3, DoubleWords, Zenon
  <2>2. ProductSum = [k \in 0 .. 7 |-> ProductSum[k]]
    BY <1>3, Zenon
  <2> QED BY <2>1, <2>2, Zenon DEF Doubles
<1>5. Doubles(Carried(ProductSum, 7))
  <2>1. 7 \in 0 .. 7
    OBVIOUS
  <2> QED BY <1>3, <1>4, <2>1, CarriedDoubles, Zenon
<1> QED BY <1>1, <1>5, Zenon DEF WidthInv, Doubles

\* FirstPass: three words at most are added to a word.
LEMMA FirstWidth ==
  ASSUME Inv, WidthInv, FirstPass
  PROVE  WidthInv'
<1>1. pc = "first pass" /\ a' = Carried(FirstSum, 4) /\ r' = r
  BY Zenon DEF FirstPass, InBlock, FirstSum, FirstHigh, FirstShifted
<1>2. a \in [0 .. 7 -> Nat]
  BY Zenon DEF Inv, TypeInv
<1>3. FirstSum \in [0 .. 7 -> Nat] /\ (\A i \in 0 .. 3 : FirstSum[i] <= 3 * Base) /\ FirstSum[4] \in 0 .. 3
  BY <1>2, FirstPassValue, Zenon
<1>4. Roomy(FirstSum)
  <2>1. 0 \in 0 .. 3 /\ 1 \in 0 .. 3 /\ 2 \in 0 .. 3 /\ 3 \in 0 .. 3 /\ \A i \in 0 .. 3 : i \in 0 .. 7
    OBVIOUS
  <2>2. \A i \in 0 .. 3 : FirstSum[i] <= Base * Base - Base
    BY <1>3, <2>1, DoubleWords, Zenon
  <2>3. \A n \in 0 .. 3 : n <= Base
    BY Weights
  <2> QED BY <1>3, <2>1, <2>2, <2>3, Zenon DEF Roomy
<1>5. \A i \in 5 .. 7 : FirstSum[i] = a[i]
  <2>1. \A i \in 5 .. 7 : FirstSum[i] = LeastSignificant(a)[i]
    BY DEF FirstSum
  <2> QED BY <1>2, <2>1, UpperKept, Zenon
<1>6. Doubles(Carried(FirstSum, 4))
  BY <1>4, <1>5, RoomyDoubles, Zenon DEF WidthInv, Doubles
<1> QED BY <1>1, <1>6, Zenon DEF WidthInv, Doubles

\* SecondPass: 5 at most is added to the lowest word.
LEMMA SecondWidth ==
  ASSUME Inv, WidthInv, SecondPass
  PROVE  WidthInv'
<1> DEFINE low == LeastSignificant(a)
           c == Carried(SecondSum, 4)
<1>1. pc = "second pass" /\ a' = LeastSignificant(c) /\ r' = r
  BY Zenon DEF SecondPass, InBlock, SecondSum
<1>2. a \in [0 .. 7 -> Nat] /\ a[4] \in 0 .. 6
  BY <1>1, Zenon DEF Inv, TypeInv, AccInv
<1>3. Roomy(SecondSum)
  BY <1>2, SecondPassRight, Zenon
<1>4. \A i \in 5 .. 7 : SecondSum[i] = a[i]
  <2>1. low \in [0 .. 7 -> Nat] /\ \A i \in 5 .. 7 : low[i] = a[i]
    BY <1>2, LeastWords, UpperKept, Zenon
  <2>2. \E v : SecondSum = [low EXCEPT ![0] = v]
    BY Zenon DEF SecondSum
  <2> HIDE DEF low
  <2>3. \A i \in 5 .. 7 : SecondSum[i] = low[i]
    BY <2>1, <2>2
  <2> QED BY <2>1, <2>3, Zenon
<1>5. Doubles(c)
  BY <1>3, <1>4, RoomyDoubles, Zenon DEF WidthInv, Doubles
<1>6. c \in [0 .. 7 -> Nat]
  <2>1. SecondSum \in [0 .. 7 -> Nat] /\ 4 \in 0 .. 7
    BY <1>3 DEF Roomy
  <2> QED BY <2>1, CarriedChain, Zenon DEF Chain
<1> HIDE DEF c
<1>7. Doubles(LeastSignificant(c))
  BY <1>5, <1>6, LeastDoubles, Zenon
<1> QED BY <1>1, <1>7, Zenon DEF WidthInv, Doubles

\* No step leaves the widths.
LEMMA WidthStep ==
  ASSUME Inv, WidthInv, [Next]_vars
  PROVE  WidthInv'
<1>1. CASE \E k \in Keys : Poly1305Init(k)
  <2>1. PICK k \in Keys : Poly1305Init(k)
    BY <1>1, Zenon
  <2>2. a' = [i \in 0 .. 7 |-> 0] /\ r' = [i \in 0 .. 3 |-> Clamped(i, k[i + 1])]
    BY <2>1, Zenon DEF Poly1305Init
  <2>3. \A i \in 0 .. 3 : Clamped(i, k[i + 1]) \in 0 .. 2^(WordBits - TopClear) - 1
    <3> DEFINE top == 2^(WordBits - TopClear)
    <3>1. top \in Nat \ {0}
      BY Parts, Zenon
    <3>2. \A i \in 0 .. 3 : k[i + 1] \in Word
      <4>1. k \in [1 .. 8 -> Word] /\ \A i \in 0 .. 3 : i + 1 \in 1 .. 8
        BY PolyAssumption
      <4> QED BY <4>1, Zenon
    <3>3. \A i \in 0 .. 3 : Clamped(i, k[i + 1]) \in Nat /\ Clamped(i, k[i + 1]) < top
      BY <3>2, ClampedBound, Zenon
    <3> HIDE DEF top
    <3>4. \A n \in Nat : n < top => n \in 0 .. top - 1
      BY <3>1
    <3> QED BY <3>3, <3>4, Zenon DEF top
  <2> QED BY <2>2, <2>3, DoubleWords, Zenon DEF WidthInv
<1>2. CASE AddBlock \/ Multiply \/ FirstPass \/ SecondPass
  BY <1>2, AddWidth, MultiplyWidth, FirstWidth, SecondWidth, Zenon
<1>3. CASE Tag
  <2>1. a' = [i \in 0 .. 7 |-> 0] /\ r' = [i \in 0 .. 3 |-> 0]
    BY <1>3, Zenon DEF Tag
  <2> QED BY <2>1, DoubleWords, Zenon DEF WidthInv
<1>4. CASE \/ \E chunk \in Chunks : Poly1305Update(chunk)
           \/ UpdateRound \/ UpdateDone \/ Poly1305Final \/ ShowBlock \/ SimHalt \/ UNCHANGED vars
  <2>1. r' = r /\ a' = a
    BY <1>4, Zenon DEF Poly1305Update, UpdateRound, UpdateDone, Poly1305Final, ShowBlock, SimHalt, vars, context
  <2> QED BY <2>1, Zenon DEF WidthInv
<1> QED BY <1>1, <1>2, <1>3, <1>4, Zenon DEF Next, ProcessBlock

-----------------------------------------------------------------------------
(* The theorems.                                                           *)

\* The invariant holds after every step if it did before.
LEMMA Inductive ==
  ASSUME Inv, [Next]_vars
  PROVE  Inv'
<1>1. CASE \E k \in Keys : Poly1305Init(k)
  BY <1>1, KeyStep, Zenon
<1>2. CASE \E chunk \in Chunks : Poly1305Update(chunk)
  BY <1>2, UpdateStep, Zenon
<1>3. CASE UpdateRound
  BY <1>3, RoundStep, Zenon
<1>4. CASE UpdateDone
  BY <1>4, DoneStep, Zenon
<1>5. CASE Poly1305Final
  BY <1>5, FinalStep, Zenon
<1>6. CASE AddBlock
  BY <1>6, AddStep, Zenon
<1>7. CASE Multiply
  BY <1>7, MultiplyStep, Zenon
<1>8. CASE FirstPass
  BY <1>8, FirstStep, Zenon
<1>9. CASE SecondPass
  BY <1>9, SecondStep, Zenon
<1>10. CASE Tag
  BY <1>10, TagStep, Zenon
<1>11. CASE ShowBlock
  BY <1>11, ShowStep, Zenon
<1>12. CASE SimHalt
  BY <1>12, HaltStep, Zenon
<1>13. CASE UNCHANGED vars
  <2>1. /\ pc' = pc /\ r' = r /\ s' = s /\ a' = a /\ buffer' = buffer /\ size' = size /\ data' = data
        /\ tag' = tag /\ shown' = shown /\ key' = key /\ message' = message
    BY <1>13, Zenon DEF vars, context, outVars
  <2>2. TakenLen' = TakenLen /\ Complete' = Complete /\ Multiplier' = Multiplier /\ Sum' = Sum /\ (Reduced' <=> Reduced)
    BY <2>1, Kept, Zenon
  <2>3. TypeInv' /\ KeyInv' /\ CutInv' /\ PlaceInv'
    BY <2>1, <2>2, Zenon DEF Inv, TypeInv, KeyInv, CutInv, PlaceInv
  <2>4. AccInv'
    <3>1. /\ (Number(a, 5) % P)' = Number(a, 5) % P /\ (Wide(a) % P)' = Wide(a) % P
          /\ (Number(Lows(a), 8) % P)' = Number(Lows(a), 8) % P
          /\ Partial(message, Multiplier, Complete)' = Partial(message, Multiplier, Complete)
          /\ Partial(message, Multiplier, Complete + 1)' = Partial(message, Multiplier, Complete + 1)
          /\ PieceNumber(message, Complete + 1)' = PieceNumber(message, Complete + 1)
          /\ Polynomial(message, Multiplier)' = Polynomial(message, Multiplier)
      BY <2>1, <2>2, Zenon
    <3> QED BY <2>1, <2>2, <3>1, Zenon DEF Inv, AccInv
  <2>5. OutInv'
    BY <2>1, <2>2, Zenon DEF Inv, OutInv
  <2> QED BY <2>3, <2>4, <2>5, Zenon DEF Inv
<1> QED BY <1>1, <1>2, <1>3, <1>4, <1>5, <1>6, <1>7, <1>8, <1>9, <1>10, <1>11, <1>12, <1>13, Zenon DEF Next, ProcessBlock

LEMMA Invariance == Spec => []Inv
<1>1. Init => Inv
  BY InitInv
<1>2. Inv /\ [Next]_vars => Inv'
  BY Inductive
<1> QED BY <1>1, <1>2, PTL DEF Spec

(* Every word keeps its width, however long the message: r has the upper   *)
(* bits of its words cleared, as the product needs, s is of words, the     *)
(* accumulator of double words, the buffer of bytes, and size is at most a *)
(* block.                                                                  *)
THEOREM TypeCorrect == Spec => [](TypeInv /\ WidthInv)
<1>1. Init => WidthInv
  <2>1. Init => r = [i \in 0 .. 3 |-> 0] /\ a = [i \in 0 .. 7 |-> 0]
    BY Zenon DEF Init
  <2> QED BY <2>1, DoubleWords, Zenon DEF WidthInv
<1>2. Inv /\ WidthInv /\ [Next]_vars => WidthInv'
  BY WidthStep
<1>3. Inv => TypeInv
  BY Zenon DEF Inv
<1> QED BY <1>1, <1>2, <1>3, Invariance, PTL DEF Spec

(* However a message is cut into updates, the tag that main shows for it is *)
(* the polynomial of its blocks at the clamped r, reduced modulo P, plus s, *)
(* to 128 bits, for every key, message and size of word and byte.          *)
THEOREM TagIsCorrect == Spec => []TagCorrect
<1>1. Inv => TagCorrect
  <2> SUFFICES ASSUME Inv, pc = "done" PROVE LittleEndian(ByteBits, ShownBytes(shown), 0, Block) = Sum
    BY Zenon DEF TagCorrect, ShownBytes, Sum, Multiplier
  <2> QED BY Zenon DEF Inv, OutInv
<1> QED BY <1>1, Invariance, PTL

(* Between blocks the buffer has the bytes after the complete ones, and the *)
(* accumulator, in 130 bits, is the polynomial of those modulo P: the two  *)
(* passes of the reduction are enough, and no carry is lost.               *)
THEOREM ContextCorrect == Spec => []ContextFollows
<1>1. Inv => ContextFollows
  <2> SUFFICES ASSUME Inv, pc \in {"blocks", "update"} PROVE ContextFollows
    BY Zenon DEF ContextFollows
  <2> USE DEF Inv
  <2>1. /\ size < Block /\ Reduced /\ Number(a, 5) % P = Partial(message, Multiplier, Complete) /\ pc # "key" /\ pc \in Working
    <3>1. pc # "key" /\ pc \in Working
      BY DEF Working
    <3> QED BY <3>1, Zenon DEF PlaceInv, AccInv
  <2>2. /\ Len(message) \in Nat /\ TakenLen \in Nat /\ TakenLen <= Len(message) /\ size \in Nat /\ Block \in Nat /\ Block # 0
        /\ Complete \in Nat /\ TakenLen = Complete * Block + size /\ Complete * Block \in Nat
        /\ message \in Seq(Byte)
    BY Lengths, Zenon DEF TypeInv
  <2> DEFINE y == Complete * Block
             prefix == SubSeq(Taken, 1, Len(Taken) - size)
  <2>3. y \in Nat /\ TakenLen = y + size
    BY <2>2, Zenon
  <2>4. TakenLen % Block = size
    <3>1. size \in 0 .. Block - 1
      BY <2>1, <2>2
    <3>2. (Complete * Block + size) % Block = size
      BY <2>2, <3>1, Division
    <3> QED BY <2>2, <3>2, Zenon
  <2> HIDE DEF y
  <2>5. Taken \in Seq(Byte) /\ Len(Taken) = TakenLen /\ \A i \in 1 .. TakenLen : Taken[i] = message[i]
    <3>1. Taken = SubSeq(message, 1, TakenLen)
      BY Zenon DEF Taken, TakenLen
    <3>2. \A i \in 1 .. TakenLen : message[i] \in Byte
      BY <2>2
    <3> HIDE DEF Taken
    <3> QED BY <2>2, <3>1, <3>2
  <2>6. prefix \in Seq(Byte) /\ Len(prefix) = y /\ \A i \in 1 .. y : prefix[i] = message[i]
    <3>1. Len(Taken) - size = y
      BY <2>2, <2>3, <2>5
    <3>2. \A i \in 1 .. y : Taken[i] = message[i] /\ Taken[i] \in Byte
      BY <2>2, <2>3, <2>5
    <3>3. prefix = SubSeq(Taken, 1, y)
      BY <3>1, Zenon
    <3> HIDE DEF prefix
    <3> QED BY <2>3, <3>2, <3>3
  <2> HIDE DEF prefix
  <2>7. Multiplier \in Nat /\ Number(r, 4) = Multiplier
    <3>1. key \in [1 .. 8 -> Word] /\ r = [i \in 0 .. 3 |-> Clamped(i, key[i + 1])]
      BY <2>1, Zenon DEF KeyInv
    <3> QED BY <3>1, MultiplierType, Zenon DEF Multiplier
  <2>8. Polynomial(prefix, Multiplier) = Partial(prefix, Multiplier, Complete)
    <3>1. Len(prefix) = Complete * Block + 0 /\ 0 \in 0 .. Block - 1
      <4>1. y = y + 0 /\ 0 \in 0 .. Block - 1
        BY <2>2, <2>3
      <4> QED BY <2>6, <4>1, Zenon DEF y
    <3>2. Polynomial(prefix, Multiplier) = Partial(prefix, Multiplier, IF 0 = 0 THEN Complete ELSE Complete + 1)
      BY <2>2, <3>1, PolynomialBlocks, Zenon
    <3> QED BY <3>2, Zenon
  <2>9. Partial(prefix, Multiplier, Complete) = Partial(message, Multiplier, Complete)
    <3>1. Starts(prefix, message)
      <4>1. y <= Len(message)
        BY <2>2, <2>3
      <4> QED BY <2>6, <4>1, Zenon DEF Starts
    <3>2. Complete * Block <= Len(prefix)
      <4>1. y <= y
        BY <2>3
      <4> QED BY <2>6, <4>1, Zenon DEF y
    <3>3. SamePartial(prefix, message, Multiplier, Complete)
      BY <2>2, <2>6, <2>7, <3>1, <3>2, LongerSame, Zenon
    <3> QED BY <3>3, Zenon DEF SamePartial
  <2>10. \A i \in 0 .. size - 1 : buffer[i] = Taken[Len(Taken) - size + i + 1]
    <3>1. \A i \in 0 .. size - 1 : TakenLen - size + i + 1 \in 1 .. TakenLen
      BY <2>2, <2>3
    <3>2. \A i \in 0 .. size - 1 : buffer[i] = message[TakenLen - size + i + 1]
      BY Zenon DEF CutInv
    <3> QED BY <2>5, <3>1, <3>2, Zenon
  <2>11. Number(a, 5) % P = Polynomial(prefix, Number(r, 4))
    BY <2>1, <2>7, <2>8, <2>9, Zenon
  <2> QED BY <2>1, <2>4, <2>5, <2>10, <2>11, Zenon DEF ContextFollows, Reduced, prefix
<1> QED BY <1>1, Invariance, PTL

=============================================================================
