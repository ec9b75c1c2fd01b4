--------------------------- MODULE LcdDemo_proofs ---------------------------
(***************************************************************************)
(* Theorems about the LCD demo, for every size of display, every menu that *)
(* fits it, every time-out and every behaviour of the buttons.             *)
(***************************************************************************)
EXTENDS LcdDemo, FiniteSetTheorems, TLAPS

\* What scan_buttons has left to wait and what it has waited are its timeout.
ScanInv ==
  /\ timeout \in Nat /\ waited \in Nat /\ defaulted \in BOOLEAN
  /\ pc = "scan" => timeout + waited = Timeout /\ defaulted = FALSE
  /\ defaulted => waited \in Timeout .. Timeout + PollDelay

LEMMA Sizes == Timeout \in Nat /\ {Width, Height, PollDelay} \subseteq Nat \ {0}
  BY LcdDemoAssumption, Zenon

LEMMA ScanInit == Init => ScanInv
<1> SUFFICES ASSUME Init PROVE ScanInv
  OBVIOUS
<1>1. timeout \in Nat /\ waited \in Nat
  BY SMT DEF Init
<1> QED BY <1>1, Zenon DEF Init, ScanInv

LEMMA StartKeepsScan ==
  ASSUME NEW from, NEW to, to # "scan", ScanInv, StartPicture(from, to)
  PROVE  ScanInv'
<1>1. pc' # "scan" /\ defaulted' = FALSE
  BY DEF StartPicture, Goto
<1>2. timeout' \in Nat /\ waited' \in Nat
  BY SMT DEF ScanInv, StartPicture
<1> QED BY <1>1, <1>2, Zenon DEF ScanInv

\* No step of the demo disturbs ScanInv.
LEMMA ScanStep == ScanInv /\ [Next]_vars => ScanInv'
<1> SUFFICES ASSUME ScanInv, [Next]_vars PROVE ScanInv'
  OBVIOUS
<1>0. Timeout \in Nat /\ PollDelay \in Nat \ {0}
  BY Sizes
<1>1. CASE Boot \/ EndReset \/ Splash \/ Custom \/ Delay
  BY <1>1 DEF ScanInv, Boot, EndReset, Splash, Custom, Delay, Goto, scanVars
<1>2. CASE ShowMenu
  <2>1. timeout' \in Nat /\ waited' \in Nat /\ timeout' + waited' = Timeout /\ defaulted' = FALSE
    BY <1>0, <1>2, SMT DEF ShowMenu
  <2> QED BY <2>1, Zenon DEF ScanInv
<1>3. CASE ScanButtons
  <2> PICK in_val \in Pressed : Press(in_val) \/ Poll(in_val) \/ Default(in_val)
    BY <1>3 DEF ScanButtons
  <2>0. Chosen(in_val) # "scan" /\ Chosen(1) # "scan"
    BY DEF Chosen
  <2>1. CASE Press(in_val)
    BY <1>0, <2>0, <2>1, SMT DEF ScanInv, Press, Goto
  <2>2. CASE Poll(in_val)
    BY <1>0, <2>2, SMT DEF ScanInv, Poll, Goto, Decreased
  <2>3. CASE Default(in_val)
    <3>1. pc' # "scan" /\ defaulted' = TRUE
      BY <2>0, <2>3 DEF Default, Goto
    <3>2. timeout' \in Nat /\ waited' \in Nat /\ waited' \in Timeout .. Timeout + PollDelay
      BY <1>0, <2>3, SMT DEF ScanInv, Default, Goto
    <3> QED BY <3>1, <3>2, Zenon DEF ScanInv
  <2> QED BY <2>1, <2>2, <2>3
<1>4. CASE FractalFloat
  <2>1. CASE StartPicture("float_start", "float")
    BY <2>1, StartKeepsScan
  <2>2. CASE \E iters \in MandelItersFloat : PutPixel("float", iters)
    BY <2>2 DEF ScanInv, PutPixel, scanVars
  <2>3. CASE FinishPicture("float", "float_shown")
    BY <2>3 DEF ScanInv, FinishPicture, Goto, scanVars
  <2> QED BY <1>4, <2>1, <2>2, <2>3 DEF FractalFloat
<1>5. CASE FractalFixed
  <2>1. CASE StartPicture("fixed_start", "fixed")
    BY <2>1, StartKeepsScan
  <2>2. CASE PutPixel("fixed", MandelIters(cur_p))
    BY <2>2 DEF ScanInv, PutPixel, scanVars
  <2>3. CASE FinishPicture("fixed", "fixed_shown")
    BY <2>3 DEF ScanInv, FinishPicture, Goto, scanVars
  <2> QED BY <1>5, <2>1, <2>2, <2>3 DEF FractalFixed
<1>6. CASE UNCHANGED vars
  BY <1>6 DEF ScanInv, vars, scanVars
<1> QED BY <1>1, <1>2, <1>3, <1>4, <1>5, <1>6 DEF Next

LEMMA ScanImpliesDefault == ScanInv => DefaultInTime
  BY Sizes, SMT DEF ScanInv, DefaultInTime

\* Whatever the time-out and the poll's delay, multiples of each other or not, the default
\* is returned when the time-out has passed without a press, and at most one poll later.
THEOREM DefaultCorrect == Spec => []DefaultInTime
<1>1. Spec => []ScanInv
  BY ScanInit, ScanStep, PTL DEF Spec
<1> QED BY <1>1, ScanImpliesDefault, PTL

-----------------------------------------------------------------------------
(* The pictures.                                                           *)

Pins == [0 .. 7 -> {0, 1}]

\* Where the loops are in a picture, and the point they have come to.
Raster ==
  /\ x \in 0 .. Width - 1 /\ y \in 0 .. Height
  /\ y = Height => x = 0
  /\ sent = y * Width + x
  /\ cur_p = [real |-> LeftEdge + RealInc * x, imag |-> TopEdge - ImagInc * y]

PictureInv ==
  /\ gpio_out \in Pins
  /\ pc \notin {"boot", "reset"} => gpio_out[LcdRstPin] = 1
  /\ pc \in {"float", "fixed"} => gpio_out[LcdCsPin] = 0 /\ gpio_out[LcdDcPin] = 1 /\ Raster
  /\ pc \in {"float_shown", "fixed_shown"} => sent = Width * Height /\ gpio_out[LcdCsPin] = 1

LEMMA Plane == {LeftEdge, TopEdge, RealInc, ImagInc} \subseteq Int
<1>1. Width \in Nat \ {0} /\ Height \in Nat \ {0} /\ FP_EXP \in Nat \ {0, 1}
  BY LcdDemoAssumption, Zenon
<1>2. ASSUME NEW n \in Nat PROVE 2^n \in Int
  BY Z3
<1>3. {FP_EXP, FP_EXP - 0, FP_EXP - 1, FP_EXP - 2, FP_EXP + 1} \subseteq Nat
  BY <1>1, SMT
<1>4. {2^FP_EXP, 2^(FP_EXP - 0), 2^(FP_EXP - 1), 2^(FP_EXP - 2), 2^(FP_EXP + 1)} \subseteq Int
  BY <1>2, <1>3, Zenon
<1>5. LeftEdge \in Int /\ TopEdge \in Int
  BY <1>4, SMT DEF LeftEdge, TopEdge, MAKE_FP
<1>6. RealInc \in Int /\ ImagInc \in Int
  BY <1>1, <1>4, SMT DEF RealInc, ImagInc
<1> QED BY <1>5, <1>6

LEMMA PictureInit == Init => PictureInv
  BY DEF Init, PictureInv, Pins

\* The first pixel of a picture.
LEMMA StartRaster ==
  ASSUME NEW from, NEW to, StartPicture(from, to)
  PROVE  Raster'
<1>1. x' = 0 /\ y' = 0 /\ sent' = 0 /\ cur_p' = [real |-> LeftEdge, imag |-> TopEdge]
  BY DEF StartPicture
<1>2. 0 = 0 * Width + 0 /\ LeftEdge + RealInc * 0 = LeftEdge /\ TopEdge - ImagInc * 0 = TopEdge
  BY Sizes, Plane, SMT
<1>3. 0 \in 0 .. Width - 1 /\ 0 \in 0 .. Height /\ Height # 0
  BY Sizes, SMT
<1> QED BY <1>1, <1>2, <1>3, Zenon DEF Raster

\* A pixel moves along the row, or on to the next.
LEMMA PutRaster ==
  ASSUME NEW where, NEW iters, Raster, PutPixel(where, iters)
  PROVE  Raster'
<1>0. Width \in Nat \ {0} /\ Height \in Nat \ {0} /\ x \in 0 .. Width - 1 /\ y \in 0 .. Height /\ y < Height
  BY Sizes DEF Raster, PutPixel
<1>1. CASE x < Width - 1
  <2>1. x' = x + 1 /\ y' = y /\ sent' = sent + 1 /\ cur_p' = [cur_p EXCEPT !.real = @ + RealInc]
    BY <1>1 DEF PutPixel
  <2>2. cur_p' = [real |-> (LeftEdge + RealInc * x) + RealInc, imag |-> TopEdge - ImagInc * y]
    BY <2>1 DEF Raster
  <2>3. (LeftEdge + RealInc * x) + RealInc = LeftEdge + RealInc * (x + 1)
    BY <1>0, Plane, SMT
  <2>4. (y * Width + x) + 1 = y * Width + (x + 1)
    BY <1>0, SMT
  <2>5. x + 1 \in 0 .. Width - 1 /\ y # Height
    BY <1>0, <1>1, SMT
  <2> QED BY <1>0, <2>1, <2>2, <2>3, <2>4, <2>5, Zenon DEF Raster
<1>2. CASE ~(x < Width - 1)
  <2>1. x' = 0 /\ y' = y + 1 /\ sent' = sent + 1 /\ cur_p' = [real |-> LeftEdge, imag |-> cur_p.imag - ImagInc]
    BY <1>2 DEF PutPixel, NextRow
  <2>2. cur_p' = [real |-> LeftEdge, imag |-> (TopEdge - ImagInc * y) - ImagInc]
    BY <2>1 DEF Raster
  <2>3. LeftEdge = LeftEdge + RealInc * 0 /\ (TopEdge - ImagInc * y) - ImagInc = TopEdge - ImagInc * (y + 1)
    BY <1>0, Plane, SMT
  <2>4. (y * Width + x) + 1 = (y + 1) * Width + 0
    BY <1>0, <1>2, SMT
  <2>5. 0 \in 0 .. Width - 1 /\ y + 1 \in 0 .. Height
    BY <1>0, SMT
  <2> QED BY <2>1, <2>2, <2>3, <2>4, <2>5, Zenon DEF Raster
<1> QED BY <1>1, <1>2

\* What gpio_write leaves.
LEMMA Written ==
  ASSUME NEW pins \in Pins, NEW cs \in {0, 1}, NEW dc \in {0, 1}
  PROVE  /\ GpioWrite(pins, cs, dc) \in Pins
         /\ GpioWrite(pins, cs, dc)[LcdCsPin] = cs /\ GpioWrite(pins, cs, dc)[LcdDcPin] = dc
         /\ GpioWrite(pins, cs, dc)[LcdRstPin] = pins[LcdRstPin]
  BY SMT DEF Pins, GpioWrite, SetOutputBit, LcdCsPin, LcdDcPin, LcdRstPin

\* A picture that starts, takes a pixel or ends keeps PictureInv, whichever of the two it is.
LEMMA StartPictureKeeps ==
  ASSUME NEW from, NEW to, from \notin {"boot", "reset"}, to \in {"float", "fixed"},
         PictureInv, StartPicture(from, to)
  PROVE  PictureInv'
<1>1. pc = from /\ pc' = to /\ gpio_out' = GpioWrite(gpio_out, 0, 1)
  BY DEF StartPicture, Goto
<1>2. gpio_out' \in Pins /\ gpio_out'[LcdCsPin] = 0 /\ gpio_out'[LcdDcPin] = 1 /\ gpio_out'[LcdRstPin] = 1
  BY <1>1, Written DEF PictureInv
<1> QED BY <1>1, <1>2, StartRaster DEF PictureInv

LEMMA PutPixelKeeps ==
  ASSUME NEW where, NEW iters, where \in {"float", "fixed"}, PictureInv, PutPixel(where, iters)
  PROVE  PictureInv'
<1>1. Raster'
  BY PutRaster DEF PictureInv, PutPixel
<1> QED BY <1>1 DEF PictureInv, PutPixel

LEMMA FinishPictureKeeps ==
  ASSUME NEW from, NEW to, from \in {"float", "fixed"}, to \in {"float_shown", "fixed_shown"},
         PictureInv, FinishPicture(from, to)
  PROVE  PictureInv'
<1>1. pc = from /\ pc' = to /\ y = Height /\ sent' = sent /\ gpio_out' = GpioWrite(gpio_out, 1, 1)
  BY DEF FinishPicture, Goto, pictureVars
<1>2. gpio_out' \in Pins /\ gpio_out'[LcdCsPin] = 1 /\ gpio_out'[LcdRstPin] = 1
  BY <1>1, Written DEF PictureInv
<1>3. sent = Height * Width + 0
  BY <1>1 DEF PictureInv, Raster
<1>4. Height * Width + 0 = Width * Height
  BY Sizes, SMT
<1> QED BY <1>1, <1>2, <1>3, <1>4 DEF PictureInv

LEMMA PictureStep == PictureInv /\ [Next]_vars => PictureInv'
<1> SUFFICES ASSUME PictureInv, [Next]_vars PROVE PictureInv'
  OBVIOUS
<1>1. CASE Boot
  <2>1. pc' = "reset" /\ gpio_out' \in Pins
    BY <1>1, SMT DEF PictureInv, Boot, Goto, SetOutputBit, Pins, LcdCsPin, LcdDcPin, LcdBlPin, LcdRstPin
  <2> QED BY <2>1 DEF PictureInv
<1>2. CASE EndReset
  <2>1. pc' = "splash" /\ gpio_out' \in Pins /\ gpio_out'[LcdRstPin] = 1
    BY <1>2, SMT DEF PictureInv, EndReset, Goto, SetOutputBit, Pins, LcdRstPin
  <2> QED BY <2>1 DEF PictureInv
<1>3. CASE Splash \/ ShowMenu \/ Custom
  <2>1. pc \notin {"boot", "reset"} /\ pc' \in {"menu", "scan", "custom_shown"} /\ gpio_out' = GpioWrite(gpio_out, 1, 1)
    BY <1>3 DEF Splash, ShowMenu, Custom, Goto
  <2>2. gpio_out' \in Pins /\ gpio_out'[LcdRstPin] = 1
    BY <2>1, Written DEF PictureInv
  <2> QED BY <2>1, <2>2 DEF PictureInv
<1>4. CASE ScanButtons \/ Delay
  <2>1. pc \notin {"boot", "reset"} /\ gpio_out' = gpio_out
    BY <1>4 DEF ScanButtons, Press, Poll, Default, Delay, Goto
  <2>2. pc' \in {"scan", "float_start", "custom", "menu", "fixed_start"}
    BY <1>4 DEF ScanButtons, Press, Poll, Default, Delay, Goto, Chosen
  <2> QED BY <2>1, <2>2 DEF PictureInv
<1>5. CASE FractalFloat
  BY <1>5, StartPictureKeeps, PutPixelKeeps, FinishPictureKeeps DEF FractalFloat
<1>6. CASE FractalFixed
  BY <1>6, StartPictureKeeps, PutPixelKeeps, FinishPictureKeeps DEF FractalFixed
<1>7. CASE UNCHANGED vars
  BY <1>7 DEF PictureInv, Raster, vars, pictureVars
<1> QED BY <1>1, <1>2, <1>3, <1>4, <1>5, <1>6, <1>7 DEF Next

LEMMA RasterIsPoint ==
  ASSUME Raster
  PROVE  cur_p = PointOf(sent)
<1>1. x \in 0 .. Width - 1 /\ y \in Nat /\ Width \in Nat \ {0}
  BY Sizes DEF Raster
<1>2. (y * Width + x) % Width = x /\ (y * Width + x) \div Width = y
  BY <1>1, SMTT(60)
<1> QED BY <1>2, Zenon DEF Raster, PointOf

\* At every size of display each pixel of a picture is sent for the point that its place in
\* the window stands for, and a picture that is shown is complete.
THEOREM PixelsCorrect == Spec => []PixelsInPlace
<1>1. Spec => []PictureInv
  BY PictureInit, PictureStep, PTL DEF Spec
<1>2. PictureInv => PixelsInPlace
  BY RasterIsPoint DEF PictureInv, PixelsInPlace
<1> QED BY <1>1, <1>2, PTL

-----------------------------------------------------------------------------
(* The clamps. First induction, functions defined by recursion, and powers *)
(* of two; then one step of the loop, and the loop.                        *)

\* Every set of numbers has a least one.
LEMMA Least ==
  ASSUME NEW T, T \subseteq Nat, T # {}
  PROVE  \E m \in T : \A n \in T : ~(n < m)
<1> DEFINE R == {pair \in Nat \X Nat : pair[1] < pair[2]}
<1>1. IsWellFoundedOn(R, Nat)
  BY NatLessThanWellFounded, Zenon DEF OpToRel
<1>2. \E m \in T : \A n \in T : ~(<<n, m>> \in R)
  <2> HIDE DEF R
  <2> QED BY <1>1, WFMin, Zenon
<1>3. \A m, n \in Nat : m < n => <<m, n>> \in R
  BY SMT
<1>4. PICK m \in T : \A n \in T : ~(<<n, m>> \in R)
  BY <1>2, Zenon
<1> HIDE DEF R
<1> QED BY <1>3, <1>4, Zenon

\* Induction, for a property given as the set of the numbers that have it.
LEMMA Induction ==
  ASSUME NEW S, 0 \in S, \A n \in Nat : n \in S => n + 1 \in S
  PROVE  Nat \subseteq S
<1>1. SUFFICES ASSUME Nat \ S # {} PROVE FALSE
  BY Zenon
<1>2. PICK n \in Nat \ S : \A m \in Nat \ S : ~(m < n)
  <2>1. Nat \ S \subseteq Nat
    OBVIOUS
  <2> QED BY <1>1, <2>1, Least, Zenon
<1>3. n # 0 /\ n \in Nat
  BY <1>2, Zenon
<1>4. n - 1 \in Nat /\ n - 1 < n /\ (n - 1) + 1 = n
  BY <1>3
<1>5. n - 1 \in S
  BY <1>2, <1>4, Zenon
<1> QED BY <1>2, <1>4, <1>5, Zenon

\* f follows step from start up to m.
Follows(f, D, start, step) ==
  \A n \in D : f[n] = IF n = 0 THEN start ELSE step[f[n - 1], n]

\* Recursion: a step from every value to the next gives a function, on all numbers or on those up to a bound.
LEMMA Recursion ==
  ASSUME NEW S, NEW D, D \subseteq Nat, 0 \in D, \A n \in Nat : n + 1 \in D => n \in D,
         NEW start \in S, NEW step \in [S \X D -> S]
  PROVE  \E f \in [D -> S] : Follows(f, D, start, step)
<1> DEFINE Upto(m) == 0 .. m
           Good(h, m) == h \in [Upto(m) -> S] /\ Follows(h, Upto(m), start, step)
           Reached == {m \in Nat : m \in D => \E h : Good(h, m)}
<1>1. 0 \in Reached
  <2> DEFINE h == [n \in Upto(0) |-> start]
  <2>1. Upto(0) = {0}
    OBVIOUS
  <2>2. h \in [Upto(0) -> S] /\ h[0] = start
    BY <2>1
  <2> HIDE DEF h, Upto
  <2>3. Follows(h, Upto(0), start, step)
    BY <2>1, <2>2, Zenon DEF Follows
  <2> QED BY <2>2, <2>3, Zenon
<1>2. ASSUME NEW m \in Nat, m \in Reached, m + 1 \in D
      PROVE  \E h : Good(h, m + 1)
  <2>1. m \in D
    BY <1>2, Zenon
  <2>2. PICK h : Good(h, m)
    BY <1>2, <2>1, Zenon
  <2>2a. h \in [Upto(m) -> S] /\ Follows(h, Upto(m), start, step)
    BY <2>2, Zenon
  <2> DEFINE next == step[h[m], m + 1]
             k == [n \in Upto(m + 1) |-> IF n = m + 1 THEN next ELSE h[n]]
  <2>3. m \in Upto(m) /\ \A n \in Upto(m + 1) : n \in Nat /\ (n = m + 1 \/ n \in Upto(m)) /\ (n # 0 => n - 1 \in Upto(m) /\ n - 1 # m + 1 /\ n - 1 \in Upto(m + 1))
    BY SMT
  <2>4. h[m] \in S /\ next \in S
    <3>1. h[m] \in S
      BY <2>2a, <2>3, Zenon
    <3>2. <<h[m], m + 1>> \in S \X D
      BY <1>2, <3>1, Zenon
    <3> QED BY <3>1, <3>2, Zenon
  <2>5. \A n \in Upto(m) : h[n] \in S /\ n # m + 1
    BY <2>2a, SMT
  <2> HIDE DEF next, Upto
  <2>6. k \in [Upto(m + 1) -> S]
    BY <2>3, <2>4, <2>5, Zenon
  <2>7. \A n \in Upto(m + 1) : k[n] = IF n = m + 1 THEN next ELSE h[n]
    BY Zenon
  <2> HIDE DEF k
  <2>8. ASSUME NEW n \in Upto(m + 1)
        PROVE  k[n] = IF n = 0 THEN start ELSE step[k[n - 1], n]
    <3>1. CASE n = m + 1
      <4>1. n # 0 /\ n - 1 = m
        BY <3>1, SMT
      <4>2. k[n - 1] = h[m] /\ k[n] = next
        BY <2>3, <2>7, <3>1, <4>1, Zenon
      <4> QED BY <3>1, <4>1, <4>2, Zenon DEF next
    <3>2. CASE n # m + 1
      <4>1. n \in Upto(m) /\ k[n] = h[n]
        BY <2>3, <2>7, <3>2, Zenon
      <4>2. n # 0 => k[n - 1] = h[n - 1]
        BY <2>3, <2>7, Zenon
      <4>3. h[n] = IF n = 0 THEN start ELSE step[h[n - 1], n]
        BY <2>2a, <4>1, Zenon DEF Follows
      <4> QED BY <4>1, <4>2, <4>3, Zenon
    <3> QED BY <3>1, <3>2, Zenon
  <2> QED BY <2>6, <2>8, Zenon DEF Follows
<1>3. Nat \subseteq Reached
  <2>1. \A n \in Nat : n \in Reached => n + 1 \in Reached
    <3>1. \A n \in Nat : n + 1 \in Nat
      OBVIOUS
    <3> HIDE DEF Good
    <3> QED BY <1>2, <3>1, Zenon
  <2> HIDE DEF Reached
  <2> QED BY <1>1, <2>1, Induction, Zenon
<1>4. \A m \in D : \E h : Good(h, m)
  <2> HIDE DEF Good
  <2> QED BY <1>3, Zenon
<1> DEFINE Agree == {n \in Nat : \A m1, m2 \in D : \A h1, h2 :
                       n <= m1 /\ n <= m2 /\ Good(h1, m1) /\ Good(h2, m2) => h1[n] = h2[n]}
<1>5. Nat \subseteq Agree
  <2>1. \A m \in D : \A h : Good(h, m) => h[0] = start
    <3>1. \A m \in D : 0 \in Upto(m)
      OBVIOUS
    <3> HIDE DEF Upto
    <3> QED BY <3>1, Zenon DEF Follows
  <2>2. 0 \in Agree
    <3> HIDE DEF Good
    <3>1. \A m1, m2 \in D : \A h1, h2 : Good(h1, m1) /\ Good(h2, m2) => h1[0] = h2[0]
      BY <2>1, Zenon
    <3>2. 0 \in Nat
      OBVIOUS
    <3> QED BY <3>1, <3>2, Zenon
  <2>3. ASSUME NEW n \in Nat, n \in Agree PROVE n + 1 \in Agree
    <3> SUFFICES ASSUME NEW m1 \in D, NEW m2 \in D, NEW h1, NEW h2, n + 1 <= m1, n + 1 <= m2, Good(h1, m1), Good(h2, m2)
                 PROVE  h1[n + 1] = h2[n + 1]
      <4>1. n + 1 \in Nat
        OBVIOUS
      <4> HIDE DEF Good
      <4> QED BY <4>1, Zenon
    <3>1. n <= m1 /\ n <= m2 /\ n + 1 \in Upto(m1) /\ n + 1 \in Upto(m2) /\ n + 1 # 0 /\ (n + 1) - 1 = n
      OBVIOUS
    <3>2. h1[n] = h2[n]
      <4> HIDE DEF Good
      <4> QED BY <2>3, <3>1, Zenon
    <3>3. h1[n + 1] = step[h1[n], n + 1] /\ h2[n + 1] = step[h2[n], n + 1]
      <4> HIDE DEF Upto
      <4> QED BY <3>1, Zenon DEF Follows
    <3> QED BY <3>2, <3>3, Zenon
  <2> HIDE DEF Agree
  <2> QED BY <2>2, <2>3, Induction, Zenon
<1> DEFINE of(n) == CHOOSE h : Good(h, n)
           f == [n \in D |-> of(n)[n]]
<1>6. \A n \in D : Good(of(n), n)
  <2> HIDE DEF Good
  <2> QED BY <1>4, Zenon
<1>7. f \in [D -> S]
  <2>1. \A n \in D : n \in Upto(n)
    OBVIOUS
  <2>2. \A n \in D : of(n) \in [Upto(n) -> S]
    BY <1>6, Zenon
  <2> HIDE DEF of, Upto
  <2> QED BY <2>1, <2>2, Zenon
<1>8. \A n \in D : f[n] = of(n)[n]
  BY Zenon
<1> HIDE DEF of, f
<1>9. ASSUME NEW m \in D, NEW n \in D, m <= n
      PROVE  of(n)[m] = f[m]
  <2>1. m \in Nat /\ m <= m
    OBVIOUS
  <2> HIDE DEF Good
  <2>2. of(m)[m] = of(n)[m]
    BY <1>5, <1>6, <1>9, <2>1, Zenon
  <2> QED BY <1>8, <2>2, Zenon
<1>10. ASSUME NEW n \in D PROVE f[n] = IF n = 0 THEN start ELSE step[f[n - 1], n]
  <2>1. n \in Nat /\ n \in Upto(n)
    OBVIOUS
  <2>2. of(n)[n] = IF n = 0 THEN start ELSE step[of(n)[n - 1], n]
    <3> HIDE DEF Upto
    <3> QED BY <1>6, <2>1, Zenon DEF Follows
  <2>3. ASSUME n # 0 PROVE f[n - 1] = of(n)[n - 1]
    <3>1. n - 1 \in Nat /\ (n - 1) + 1 = n /\ n - 1 <= n
      BY <2>1, <2>3
    <3>2. n - 1 \in D
      BY <3>1, Zenon
    <3> QED BY <1>9, <3>1, <3>2, Zenon
  <2> QED BY <1>8, <2>2, <2>3, Zenon
<1> QED BY <1>7, <1>10, Zenon DEF Follows

\* 2 ^ n is the number of subsets of n elements.
LEMMA Subsets ==
  ASSUME NEW n \in Nat
  PROVE  IsFiniteSet(SUBSET (1 .. n)) /\ Cardinality(SUBSET (1 .. n)) = 2 ^ n
<1>1. IsFiniteSet(1 .. n) /\ Cardinality(1 .. n) = n
  BY FS_Interval
<1> QED BY <1>1, FS_SUBSET, Zenon

LEMMA PowerOfTwo ==
  ASSUME NEW n \in Nat
  PROVE  2 ^ n \in Nat \ {0}
<1>1. Cardinality(SUBSET (1 .. n)) \in Nat /\ Cardinality(SUBSET (1 .. n)) # 0
  <2>1. {} \in SUBSET (1 .. n)
    OBVIOUS
  <2> QED BY <2>1, Subsets, FS_CardinalityType, FS_EmptySet
<1> QED BY <1>1, Subsets

\* The subsets of 1 .. n + 1 that have n + 1 are as many as those that do not.
LEMMA PowerNext ==
  ASSUME NEW n \in Nat
  PROVE  2 ^ (n + 1) = 2 * 2 ^ n
<1> DEFINE A == 1 .. n
           B == 1 .. n + 1
           T == {Z \in SUBSET B : n + 1 \in Z}
           f == [X \in SUBSET A |-> X \cup {n + 1}]
<1>1. n + 1 \notin A /\ B = A \cup {n + 1}
  OBVIOUS
<1>2. /\ IsFiniteSet(SUBSET A) /\ Cardinality(SUBSET A) = 2 ^ n
      /\ IsFiniteSet(SUBSET B) /\ Cardinality(SUBSET B) = 2 ^ (n + 1)
  BY Subsets
<1> HIDE DEF A, B
<1>3. f \in Bijection(SUBSET A, T)
  <2>1. \A X \in SUBSET A : X \cup {n + 1} \in T
    BY <1>1, Zenon
  <2>2. \A X, Y \in SUBSET A : X \cup {n + 1} = Y \cup {n + 1} => X = Y
    BY <1>1
  <2>3. \A Z \in T : Z = (Z \ {n + 1}) \cup {n + 1} /\ Z \ {n + 1} \in SUBSET A
    BY <1>1
  <2> HIDE DEF T
  <2>4. f \in [SUBSET A -> T]
    BY <2>1, Zenon
  <2>5. \A X \in SUBSET A : f[X] = X \cup {n + 1}
    BY Zenon
  <2> HIDE DEF f
  <2>6. f \in Injection(SUBSET A, T)
    <3>1. \A X, Y \in SUBSET A : f[X] = f[Y] => X = Y
      BY <2>2, <2>5, Zenon
    <3>2. DOMAIN f = SUBSET A
      BY <2>4, Zenon
    <3> QED BY <2>4, <3>1, <3>2, Zenon DEF Injection, IsInjective
  <2>7. f \in Surjection(SUBSET A, T)
    <3>1. \A Z \in T : f[Z \ {n + 1}] = Z /\ Z \ {n + 1} \in SUBSET A
      BY <2>3, <2>5, Zenon
    <3> QED BY <2>4, <3>1, Zenon DEF Surjection
  <2> QED BY <2>6, <2>7, Zenon DEF Bijection
<1>4. IsFiniteSet(T) /\ Cardinality(T) = 2 ^ n
  BY <1>2, <1>3, FS_Bijection DEF ExistsBijection
<1>5. SUBSET B = (SUBSET A) \cup T /\ (SUBSET A) \cap T = {}
  BY <1>1
<1> HIDE DEF T
<1>6. Cardinality((SUBSET A) \cup T) = Cardinality(SUBSET A) + Cardinality(T) - Cardinality({})
  BY <1>2, <1>4, <1>5, FS_Union
<1>7. 2 ^ (n + 1) = 2 ^ n + 2 ^ n - 0
  BY <1>2, <1>4, <1>5, <1>6, FS_EmptySet, Zenon
<1> QED BY <1>7, PowerOfTwo

\* By induction on b.
LEMMA PowerSum ==
  ASSUME NEW a \in Nat, NEW b \in Nat
  PROVE  2 ^ (a + b) = 2 ^ a * 2 ^ b
<1> DEFINE T == {n \in Nat : 2 ^ (a + n) # 2 ^ a * 2 ^ n}
<1>1. SUFFICES ASSUME T # {} PROVE FALSE
  BY Zenon
<1>2. PICK n \in T : \A k \in T : ~(k < n)
  <2>1. T \subseteq Nat
    OBVIOUS
  <2> HIDE DEF T
  <2> QED BY <1>1, <2>1, Least, Zenon
<1>3. n # 0
  <2>1. 2 ^ 0 = 1
    OBVIOUS
  <2>2. 2 ^ (a + 0) = 2 ^ a * 2 ^ 0
    <3>1. a + 0 = a /\ 2 ^ a * 1 = 2 ^ a
      BY PowerOfTwo
    <3> QED BY <2>1, <3>1, Zenon
  <2> QED BY <1>2, <2>2, Zenon
<1>4. n - 1 \in Nat /\ 2 ^ (a + (n - 1)) = 2 ^ a * 2 ^ (n - 1)
  BY <1>2, <1>3
<1> DEFINE m == n - 1
<1>5. 2 ^ (m + 1) = 2 * 2 ^ m /\ 2 ^ ((a + m) + 1) = 2 * 2 ^ (a + m) /\ 2 ^ a \in Nat /\ 2 ^ m \in Nat
  BY <1>4, PowerNext, PowerOfTwo
<1>6. m + 1 = n /\ (a + m) + 1 = a + n
  BY <1>2
<1>7. 2 ^ n = 2 * 2 ^ m /\ 2 ^ (a + n) = 2 * (2 ^ a * 2 ^ m)
  BY <1>4, <1>5, <1>6
<1>8. \A k, l \in Nat : 2 * (k * l) = k * (2 * l)
  BY SMT
<1> QED BY <1>2, <1>5, <1>7, <1>8



\* The squares as fp_mul rounds them, and what a step of the loop keeps them below.
LEMMA Squares ==
  ASSUME NEW K \in Nat \ {0}, NEW u \in Int
  PROVE  (u * u) \div (4 * K) \in Nat /\ u * u < 4 * K * ((u * u) \div (4 * K) + 1)
<1> DEFINE v == u * u
           q == 4 * K
<1>1. v \in Nat /\ q \in Nat \ {0}
  BY SMT
<1> HIDE DEF v, q
<1>2. v \div q \in Nat /\ v < q * (v \div q + 1)
  BY <1>1, Z3
<1>3. q * (v \div q + 1) = 4 * K * (v \div q + 1)
  BY Zenon DEF q
<1> QED BY <1>2, <1>3, Zenon DEF v, q

LEMMA ProductBound ==
  ASSUME NEW u \in Int, NEW v \in Int
  PROVE  2 * (u * v) <= u * u + v * v /\ -(2 * (u * v)) <= u * u + v * v
<1>1. (u - v) * (u - v) >= 0 /\ (u + v) * (u + v) >= 0
  BY SMT
<1>2. (u - v) * (u - v) = u * u - 2 * (u * v) + v * v /\ (u + v) * (u + v) = u * u + 2 * (u * v) + v * v
  BY SMT
<1> QED BY <1>1, <1>2, SMT

LEMMA Quotient ==
  ASSUME NEW K \in Nat \ {0}, NEW p \in Int, NEW w \in Nat,
         2 * p <= w, -(2 * p) <= w, w < 4 * K * (17 * K + 2)
  PROVE  p \div (4 * K) \in -(11 * K) .. 11 * K
<1>1. 4 * K * (17 * K + 2) <= 2 * (4 * K * (11 * K))
  <2>1. 17 * K + 2 <= 2 * (11 * K)
    OBVIOUS
  <2> QED BY <2>1, SMT
<1> DEFINE q == 4 * K
           b == 11 * K
           d == p \div q
<1>2. q \in Nat \ {0} /\ b \in Nat
  OBVIOUS
<1>3. p < q * b /\ -p < q * b
  <2>1. q * b = 4 * K * (11 * K)
    OBVIOUS
  <2> HIDE DEF q, b
  <2>2. q * b \in Int
    BY <1>2
  <2> QED BY <1>1, <2>1, <2>2
<1>4. d \in Int /\ q * d <= p /\ p < q * (d + 1)
  <2> HIDE DEF q
  <2> QED BY <1>2, Z3
<1> HIDE DEF q, b, d
<1>5. d < b
  <2>1. q * d < q * b
    BY <1>2, <1>3, <1>4, SMT
  <2> QED BY <2>1, <1>2, <1>4, Z3
<1>6. -b < d + 1
  <2>1. q * (-b) < q * (d + 1)
    <3>1. q * (-b) = -(q * b) /\ q * b \in Int /\ q * (d + 1) \in Int
      BY <1>2, <1>4
    <3> QED BY <3>1, <1>3, <1>4
  <2> QED BY <2>1, <1>2, <1>4, Z3
<1>7. d \in -b .. b
  BY <1>2, <1>4, <1>5, <1>6
<1> QED BY <1>7, Zenon DEF d, b, q

\* What the program gives its numbers: three magnitude bits more than fraction bits (15 and
\* 12 in the source), and a colour for every count (0 to 50, with 50 iterations).
Headroom == FP_MANT >= FP_EXP + 3 /\ MaxIters \in rgb_iters_palette

\* A quarter of one, in fixed-point numbers.
Quarter == 2^(FP_EXP - 2)

LEMMA Magnitudes ==
  ASSUME Headroom
  PROVE  /\ Quarter \in Nat \ {0} /\ 2^FP_EXP = 4 * Quarter
         /\ 2^FP_MANT \in Nat /\ 2^FP_MANT >= 32 * Quarter
         /\ 2^(FP_EXP - 1) = 2 * Quarter /\ 2^(FP_EXP + 1) = 8 * Quarter
<1>1. FP_EXP \in Nat /\ FP_MANT \in Nat /\ FP_EXP - 2 \in Nat
  BY LcdDemoAssumption, SMT
<1> DEFINE n == FP_EXP - 2
<1>2. n \in Nat /\ n + 1 = FP_EXP - 1 /\ (n + 1) + 1 = FP_EXP /\ FP_EXP + 1 = ((n + 1) + 1) + 1
  BY <1>1
<1> HIDE DEF n
<1>3. /\ 2^n \in Nat \ {0} /\ 2^(n + 1) = 2 * 2^n /\ 2^((n + 1) + 1) = 2 * 2^(n + 1)
      /\ 2^(((n + 1) + 1) + 1) = 2 * 2^((n + 1) + 1)
  <2>1. n + 1 \in Nat /\ (n + 1) + 1 \in Nat
    BY <1>2
  <2> QED BY <1>2, <2>1, PowerNext, PowerOfTwo, Zenon
<1> DEFINE e == FP_EXP + 1
           d == FP_MANT - e
<1>4. e \in Nat /\ d \in Nat /\ e + d = FP_MANT /\ (d - 1) + 1 = d /\ d - 1 \in Nat /\ ((d - 1) - 1) + 1 = d - 1 /\ (d - 1) - 1 \in Nat
  BY <1>1 DEF Headroom
<1>5. 2^FP_MANT = 2^e * 2^d
  BY <1>4, PowerSum, Zenon
<1>6. 2^d = 2 * 2^(d - 1) /\ 2^(d - 1) = 2 * 2^((d - 1) - 1) /\ 2^((d - 1) - 1) \in Nat \ {0}
  BY <1>4, PowerNext, PowerOfTwo, Zenon
<1>7. 2^e = 8 * Quarter /\ Quarter \in Nat \ {0} /\ 2^FP_EXP = 4 * Quarter /\ 2^(FP_EXP - 1) = 2 * Quarter
  <2>1. 2^(((n + 1) + 1) + 1) = 8 * 2^n /\ 2^((n + 1) + 1) = 4 * 2^n
    BY <1>3
  <2> QED BY <1>2, <1>3, <2>1, Zenon DEF e, n, Quarter
<1> DEFINE p == 2^((d - 1) - 1)
<1>8. 2^FP_MANT = (8 * Quarter) * (2 * (2 * p)) /\ p \in Nat \ {0}
  BY <1>5, <1>6, <1>7, Zenon
<1> HIDE DEF p
<1>9. (8 * Quarter) * (2 * (2 * p)) \in Nat /\ (8 * Quarter) * (2 * (2 * p)) >= 32 * Quarter
  BY <1>7, <1>8, SMT
<1> QED BY <1>7, <1>8, <1>9, Zenon DEF e

\* The points of a picture.
InPicture(c) == c \in Complex /\ c.real \in -(7 * Quarter) .. 3 * Quarter /\ c.imag \in -(4 * Quarter) .. 4 * Quarter

LEMMA Share ==
  ASSUME NEW w \in Nat \ {0}, NEW total \in Nat, total % w = 0, NEW n \in 0 .. w
  PROVE  (total \div w) \in Nat /\ (total \div w) * n \in 0 .. total
<1> DEFINE d == total \div w
<1>1. d \in Nat /\ total = d * w
  BY Z3
<1> HIDE DEF d
<1>2. n \in Nat /\ w - n \in Nat
  OBVIOUS
<1>3. d * n \in Nat /\ d * (w - n) \in Nat /\ d * n + d * (w - n) = d * w
  BY <1>1, <1>2, SMT
<1>4. d * n \in 0 .. total
  BY <1>1, <1>3
<1> QED BY <1>1, <1>4, Zenon DEF d

LEMMA PointsInPicture ==
  ASSUME Headroom, NEW n \in 0 .. Width * Height - 1
  PROVE  InPicture(PointOf(n))
<1> DEFINE K == Quarter
<1>1. K \in Nat \ {0} /\ 2^FP_EXP = 4 * K /\ 2^(FP_EXP - 1) = 2 * K /\ 2^(FP_EXP + 1) = 8 * K /\ 2^(FP_EXP - 2) = K
  BY Magnitudes, Zenon DEF Quarter
<1>2. Width \in Nat \ {0} /\ Height \in Nat \ {0}
  BY Sizes
<1> DEFINE c == n % Width
           l == n \div Width
<1>3. c \in 0 .. Width /\ l \in 0 .. Height
  <2>1. n \in Nat /\ n < Width * Height
    BY <1>2, SMT
  <2>2. c \in 0 .. Width /\ l \in Nat /\ l * Width <= n
    BY <1>2, <2>1, Z3
  <2>3. l * Width < Height * Width
    <3> HIDE DEF l
    <3> QED BY <1>2, <2>1, <2>2, SMT
  <2>4. l < Height
    <3> HIDE DEF l
    <3> QED BY <1>2, <2>2, <2>3, Z3
  <2> QED BY <2>2, <2>4, <1>2
<1>4. (10 * K) % Width = 0 /\ (8 * K) % Height = 0 /\ RealInc = (10 * K) \div Width /\ ImagInc = (8 * K) \div Height
  <2>1. 5 * (2 * K) = 10 * K
    BY <1>1
  <2> QED BY <1>1, <2>1, LcdDemoAssumption, Zenon DEF RealInc, ImagInc
<1>5. LeftEdge = -(7 * K) /\ TopEdge = 4 * K
  <2>1. LeftEdge = -(1 * (4 * K) + 3 * K) /\ TopEdge = 1 * (4 * K) + 0 * (4 * K)
    <3>1. FP_EXP - 0 = FP_EXP
      BY LcdDemoAssumption, SMT
    <3> QED BY <1>1, <3>1, Zenon DEF LeftEdge, TopEdge, MAKE_FP
  <2> HIDE DEF K
  <2> QED BY <1>1, <2>1
<1>6. RealInc * c \in 0 .. 10 * K /\ ImagInc * l \in 0 .. 8 * K
  <2>1. 10 * K \in Nat /\ 8 * K \in Nat
    BY <1>1
  <2> HIDE DEF c, l, K
  <2> QED BY <1>2, <1>3, <1>4, <2>1, Share, Zenon
<1>7. PointOf(n) = [real |-> LeftEdge + RealInc * c, imag |-> TopEdge - ImagInc * l]
  BY Zenon DEF PointOf
<1>8. LeftEdge + RealInc * c \in -(7 * K) .. 3 * K /\ TopEdge - ImagInc * l \in -(4 * K) .. 4 * K
  <2> DEFINE a == RealInc * c
             b == ImagInc * l
  <2>1. a \in 0 .. 10 * K /\ b \in 0 .. 8 * K /\ K \in Nat
    BY <1>1, <1>6, Zenon
  <2> HIDE DEF a, b, K
  <2>2. LeftEdge + a \in -(7 * K) .. 3 * K /\ TopEdge - b \in -(4 * K) .. 4 * K
    BY <1>5, <2>1, SMT
  <2> QED BY <2>2, Zenon DEF a, b
<1> DEFINE re == LeftEdge + RealInc * c
           im == TopEdge - ImagInc * l
<1>9. re \in -(7 * K) .. 3 * K /\ im \in -(4 * K) .. 4 * K /\ PointOf(n) = [real |-> re, imag |-> im]
  BY <1>7, <1>8, Zenon
<1>10. K = Quarter /\ K \in Nat
  BY <1>1, Zenon
<1> HIDE DEF re, im, K
<1>11. re \in Int /\ im \in Int
  BY <1>9, <1>10
<1> QED BY <1>9, <1>10, <1>11 DEF InPicture, Complex

\* What ExactIters does with a point.
Scaled(n) == n \div 2^FP_EXP
Square(z) == Scaled(z.real * z.real) + Scaled(z.imag * z.imag)

ExactNext(z, c) ==
  [real |-> Scaled(z.real * z.real) - Scaled(z.imag * z.imag) + c.real,
   imag |-> 2 * Scaled(z.real * z.imag) + c.imag]

LEMMA ScaledType ==
  ASSUME Headroom, NEW n \in Int
  PROVE  Scaled(n) \in Int
<1> DEFINE q == 2^FP_EXP
<1>1. q \in Nat \ {0}
  <2>1. q = 4 * Quarter /\ Quarter \in Nat \ {0}
    BY Magnitudes, Zenon
  <2> QED BY <2>1
<1> HIDE DEF q
<1>2. n \div q \in Int
  BY <1>1
<1> QED BY <1>2, Zenon DEF Scaled, q

LEMMA NoClamp ==
  ASSUME Headroom, NEW n \in Int, -(32 * Quarter) <= n, n < 32 * Quarter
  PROVE  FpClamp(n) = n
<1> DEFINE m == 2^FP_MANT
<1>1. m \in Nat /\ m >= 32 * Quarter /\ Quarter \in Nat
  BY Magnitudes, Zenon
<1> HIDE DEF m
<1>2. ~(n < -m) /\ ~(n >= m)
  BY <1>1
<1> QED BY <1>2, Zenon DEF FpClamp, m

LEMMA ClampType ==
  ASSUME Headroom, NEW n \in Int
  PROVE  FpClamp(n) \in Int
<1> DEFINE m == 2^FP_MANT
<1>1. m \in Nat
  BY Magnitudes, Zenon
<1>2. -m \in Int /\ m - 1 \in Int
  BY <1>1
<1> QED BY <1>2, Zenon DEF FpClamp, m

\* The squares of a number that escapes may be clamped, and it escapes all the same.
LEMMA SameEscape ==
  ASSUME Headroom, NEW z \in Complex
  PROVE  /\ AbsSq(z) > MAKE_FP(4, 0, 0) <=> Square(z) > 4 * 2^FP_EXP
         /\ Scaled(z.real * z.real) \in Nat /\ Scaled(z.imag * z.imag) \in Nat
         /\ 4 * 2^FP_EXP = 16 * Quarter
<1> DEFINE K == Quarter
           m == 2^FP_MANT
           s == Scaled(z.real * z.real)
           t == Scaled(z.imag * z.imag)
<1>1. K \in Nat \ {0} /\ 2^FP_EXP = 4 * K /\ m \in Nat /\ m >= 32 * K
  BY Magnitudes, Zenon
<1>2. z.real \in Int /\ z.imag \in Int
  BY DEF Complex
<1>3. s \in Nat /\ t \in Nat
  <2>1. s = (z.real * z.real) \div (4 * K) /\ t = (z.imag * z.imag) \div (4 * K)
    BY <1>1, Zenon DEF Scaled
  <2> QED BY <1>1, <1>2, <2>1, Squares, Zenon
<1>4. AbsSq(z) = FpClamp(s) + FpClamp(t)
  BY Zenon DEF AbsSq, FpMul, Scaled
<1>5. MAKE_FP(4, 0, 0) = 16 * K /\ 4 * 2^FP_EXP = 16 * K
  <2>1. FP_EXP - 0 = FP_EXP
    BY LcdDemoAssumption, SMT
  <2>2. MAKE_FP(4, 0, 0) = 4 * (4 * K) + 0 * (4 * K) /\ 4 * 2^FP_EXP = 4 * (4 * K)
    BY <1>1, <2>1, Zenon DEF MAKE_FP
  <2> HIDE DEF K
  <2> QED BY <1>1, <2>2
<1>6. \A n \in Nat : FpClamp(n) = IF n >= m THEN m - 1 ELSE n
  <2>1. \A n \in Nat : ~(n < -m)
    BY <1>1
  <2> QED BY <2>1, Zenon DEF FpClamp
<1>7. FpClamp(s) = (IF s >= m THEN m - 1 ELSE s) /\ FpClamp(t) = (IF t >= m THEN m - 1 ELSE t)
  BY <1>3, <1>6, Zenon
<1> DEFINE fs == FpClamp(s)
           ft == FpClamp(t)
<1>8. fs = (IF s >= m THEN m - 1 ELSE s) /\ ft = (IF t >= m THEN m - 1 ELSE t)
  BY <1>7, Zenon
<1>9. fs + ft > 16 * K <=> s + t > 16 * K
  <2> HIDE DEF fs, ft, s, t, m, K
  <2> QED BY <1>1, <1>3, <1>8
<1>10. Square(z) = s + t
  BY Zenon DEF Square
<1>11. K = Quarter
  BY Zenon
<1> HIDE DEF fs, ft, s, t, m, K
<1> QED BY <1>3, <1>4, <1>5, <1>9, <1>10, <1>11, Zenon DEF s, t, fs, ft

\* Until a point escapes, no sum and no product of a step is clamped.
LEMMA SameStep ==
  ASSUME Headroom, NEW z \in Complex, NEW c, InPicture(c), Square(z) <= 17 * Quarter
  PROVE  CmplxAdd(CmplxMul(z, z), c) = ExactNext(z, c) /\ ExactNext(z, c) \in Complex
<1> DEFINE K == Quarter
           s == Scaled(z.real * z.real)
           t == Scaled(z.imag * z.imag)
           u == Scaled(z.real * z.imag)
<1>1. K \in Nat \ {0} /\ 2^FP_EXP = 4 * K
  BY Magnitudes, Zenon
<1>2. z.real \in Int /\ z.imag \in Int /\ c.real \in -(7 * K) .. 3 * K /\ c.imag \in -(4 * K) .. 4 * K
  BY DEF Complex, InPicture
<1>3. s \in Nat /\ t \in Nat /\ s + t <= 17 * K
  BY SameEscape, Zenon DEF Square
<1>4. u \in -(11 * K) .. 11 * K
  <2> DEFINE w == z.real * z.real + z.imag * z.imag
             p == z.real * z.imag
  <2>1. 2 * p <= w /\ -(2 * p) <= w
    BY <1>2, ProductBound, Zenon
  <2>2. p \in Int /\ w \in Nat
    BY <1>2, SMT
  <2>3. z.real * z.real < 4 * K * (s + 1) /\ z.imag * z.imag < 4 * K * (t + 1)
    <3>1. s = (z.real * z.real) \div (4 * K) /\ t = (z.imag * z.imag) \div (4 * K)
      BY <1>1, Zenon DEF Scaled
    <3> QED BY <1>1, <1>2, <3>1, Squares, Zenon
  <2>4. w < 4 * K * (17 * K + 2)
    <3> DEFINE x2 == z.real * z.real
               y2 == z.imag * z.imag
    <3>1. x2 \in Int /\ y2 \in Int /\ x2 < 4 * K * (s + 1) /\ y2 < 4 * K * (t + 1)
      BY <1>2, <2>3, SMT
    <3> HIDE DEF x2, y2, s, t, K
    <3>2. 4 * K * (s + 1) + 4 * K * (t + 1) = 4 * K * (s + t + 2)
      BY <1>1, <1>3, SMT
    <3>3. 4 * K * (s + t + 2) <= 4 * K * (17 * K + 2)
      BY <1>1, <1>3, SMT
    <3>4. 4 * K * (s + 1) \in Int /\ 4 * K * (t + 1) \in Int /\ 4 * K * (17 * K + 2) \in Int
      BY <1>1, <1>3
    <3>5. x2 + y2 < 4 * K * (17 * K + 2)
      BY <3>1, <3>2, <3>3, <3>4, SMT
    <3> QED BY <3>5, Zenon DEF x2, y2
  <2>5. p \div (4 * K) \in -(11 * K) .. 11 * K
    <3> HIDE DEF p, w, K
    <3> QED BY <1>1, <2>1, <2>2, <2>4, Quotient, Zenon
  <2> QED BY <1>1, <2>5, Zenon DEF Scaled
<1> DEFINE re == c.real
           im == c.imag
<1>5. re \in -(7 * K) .. 3 * K /\ im \in -(4 * K) .. 4 * K /\ K = Quarter
  BY <1>2, Zenon
<1>6. \A n \in Int : -(32 * K) <= n /\ n < 32 * K => FpClamp(n) = n
  BY NoClamp, Zenon
<1>7. z.imag * z.real = z.real * z.imag
  BY <1>2
<1>8. CmplxMul(z, z) = [real |-> FpClamp(FpClamp(s) + -FpClamp(t)), imag |-> FpClamp(FpClamp(u) + FpClamp(u))]
  BY <1>7, Zenon DEF CmplxMul, FpAdd, FpMul, Scaled
<1> HIDE DEF s, t, u, K, re, im
<1>9. /\ FpClamp(s) = s /\ FpClamp(t) = t /\ FpClamp(u) = u
      /\ FpClamp(s + -t) = s + -t /\ FpClamp(u + u) = u + u
      /\ FpClamp((s + -t) + re) = (s + -t) + re /\ FpClamp((u + u) + im) = (u + u) + im
  <2>1. /\ \A n \in {s, t, u, s + -t, u + u, (s + -t) + re, (u + u) + im} : n \in Int /\ -(32 * K) <= n /\ n < 32 * K
    BY <1>1, <1>3, <1>4, <1>5, SMT
  <2> QED BY <1>6, <2>1, Zenon
<1>10. CmplxAdd(CmplxMul(z, z), c) = [real |-> (s + -t) + re, imag |-> (u + u) + im]
  <2> DEFINE prod == CmplxMul(z, z)
  <2>1. prod = [real |-> s + -t, imag |-> u + u]
    BY <1>8, <1>9, Zenon
  <2>2. prod.real = s + -t /\ prod.imag = u + u
    <3> HIDE DEF prod
    <3> QED BY <2>1
  <2>3. CmplxAdd(prod, c) = [real |-> FpClamp(prod.real + re), imag |-> FpClamp(prod.imag + im)]
    BY Zenon DEF CmplxAdd, FpAdd, re, im
  <2> HIDE DEF prod
  <2>4. CmplxAdd(prod, c) = [real |-> (s + -t) + re, imag |-> (u + u) + im]
    BY <1>9, <2>2, <2>3, Zenon
  <2> QED BY <2>4, Zenon DEF prod
<1>11. (s + -t) + re = s - t + re /\ (u + u) + im = 2 * u + im /\ s - t + re \in Int /\ 2 * u + im \in Int
  BY <1>1, <1>3, <1>4, <1>5, SMT
<1>12. ExactNext(z, c) = [real |-> s - t + re, imag |-> 2 * u + im]
  BY Zenon DEF ExactNext, s, t, u, re, im
<1>13. [real |-> s - t + re, imag |-> 2 * u + im] \in Complex
  BY <1>11, Zenon DEF Complex
<1> QED BY <1>10, <1>11, <1>12, <1>13, Zenon

\* The rounds of a loop, by how many are left: it ends when a point is out, or at last.
Rounds(f, out, next) ==
  f = [left \in Nat |->
         [z \in Complex |->
            IF MaxIters - left > 0 /\ z \in out THEN MaxIters - left - 1
            ELSE IF left = 0 THEN MaxIters
            ELSE f[left - 1][next[z]]]]

\* Any such loop is a function.
LEMMA RoundsExist ==
  ASSUME NEW out, NEW next \in [Complex -> Complex]
  PROVE  \E f \in [Nat -> [Complex -> Int]] : Rounds(f, out, next)
<1> DEFINE S == [Complex -> Int]
           Round(g, left) ==
             [z \in Complex |->
                IF MaxIters - left > 0 /\ z \in out THEN MaxIters - left - 1
                ELSE IF left = 0 THEN MaxIters ELSE g[next[z]]]
           zero == [z \in Complex |-> 0]
           start == Round(zero, 0)
           step == [p \in S \X Nat |-> Round(p[1], p[2])]
<1>1. MaxIters \in Nat
  BY LcdDemoAssumption, SMT
<1>2. ASSUME NEW g \in S, NEW left \in Nat PROVE Round(g, left) \in S
  <2>1. MaxIters - left - 1 \in Int /\ MaxIters \in Int
    BY <1>1
  <2> QED BY <2>1, Zenon
<1>3. zero \in S
  OBVIOUS
<1> HIDE DEF zero
<1>4. start \in S
  <2>1. 0 \in Nat
    OBVIOUS
  <2> HIDE DEF Round, S
  <2> QED BY <1>2, <1>3, <2>1, Zenon
<1>5. /\ \A g \in S : \A left \in Nat : step[<<g, left>>] = Round(g, left)
      /\ step \in [S \X Nat -> S]
  <2>1. /\ \A g \in S : \A left \in Nat : <<g, left>> \in S \X Nat /\ <<g, left>>[1] = g /\ <<g, left>>[2] = left
        /\ \A p \in S \X Nat : p[1] \in S /\ p[2] \in Nat
    <3> HIDE DEF S
    <3> QED OBVIOUS
  <2> HIDE DEF S, Round
  <2>2. \A g \in S : \A left \in Nat : step[<<g, left>>] = Round(g, left)
    BY <2>1, Zenon
  <2>3. step \in [S \X Nat -> S]
    BY <1>2, <2>1, Zenon
  <2> QED BY <2>2, <2>3
<1> HIDE DEF step
<1>6. PICK f \in [Nat -> S] : Follows(f, Nat, start, step)
  <2>1. Nat \subseteq Nat /\ 0 \in Nat /\ \A n \in Nat : n + 1 \in Nat => n \in Nat
    OBVIOUS
  <2> HIDE DEF S, start
  <2> QED BY <1>4, <1>5, <2>1, Recursion, Zenon
<1>7. ASSUME NEW left \in Nat
      PROVE  f[left] = [z \in Complex |->
                          IF MaxIters - left > 0 /\ z \in out THEN MaxIters - left - 1
                          ELSE IF left = 0 THEN MaxIters ELSE f[left - 1][next[z]]]
  <2>1. CASE left = 0
    <3>1. f[left] = start
      BY <1>6, <2>1, Zenon DEF Follows
    <3> QED BY <2>1, <3>1, Zenon
  <2>2. CASE left # 0
    <3>1. left - 1 \in Nat
      BY <2>2
    <3> HIDE DEF S, start, Round
    <3>2. f[left - 1] \in S /\ f[left] = step[f[left - 1], left]
      BY <1>6, <2>2, <3>1, Zenon DEF Follows
    <3>3. f[left] = Round(f[left - 1], left)
      BY <1>5, <3>2, Zenon
    <3> QED BY <2>2, <3>3, Zenon DEF Round
  <2> QED BY <2>1, <2>2
<1>8. f \in [Nat -> [Complex -> Int]] /\ Rounds(f, out, next)
  <2>1. DOMAIN f = Nat /\ f \in [Nat -> [Complex -> Int]]
    BY <1>6, Zenon
  <2> QED BY <1>7, <2>1, Zenon DEF Rounds
<1> QED BY <1>8, Zenon

\* The rounds of the program's loop and of the exact one.
Out == {z \in Complex : AbsSq(z) > MAKE_FP(4, 0, 0)}
ExactOut == {z \in Complex : Square(z) > 4 * 2^FP_EXP}
Step(c) == [z \in Complex |-> CmplxAdd(CmplxMul(z, z), c)]
ExactStep(c) == [z \in Complex |-> ExactNext(z, c)]

LEMMA LoopDefinitions ==
  ASSUME NEW c
  PROVE  /\ (\E f : Rounds(f, Out, Step(c))) =>
              \E g : Rounds(g, Out, Step(c)) /\ MandelIters(c) = g[MaxIters][c]
         /\ (\E f : Rounds(f, ExactOut, ExactStep(c))) =>
              \E g : Rounds(g, ExactOut, ExactStep(c)) /\ ExactIters(c) = g[MaxIters][c]
<1> DEFINE Loop(f) ==
      f = [left \in Nat |->
             [iter_val \in Complex |->
                LET i == MaxIters - left
                IN  IF i > 0 /\ AbsSq(iter_val) > MAKE_FP(4, 0, 0) THEN i - 1
                    ELSE IF left = 0 THEN MaxIters
                    ELSE f[left - 1][CmplxAdd(CmplxMul(iter_val, iter_val), c)]]]
    ExactLoop(f) ==
      f = [left \in Nat |->
             [z \in Complex |->
                LET i == MaxIters - left
                IN  IF i > 0 /\ Square(z) > 4 * 2^FP_EXP THEN i - 1
                    ELSE IF left = 0 THEN MaxIters
                    ELSE f[left - 1][ExactNext(z, c)]]]
<1>1. MandelIters(c) = (CHOOSE f : Loop(f))[MaxIters][c]
  BY Zenon DEF MandelIters
<1>2. ExactIters(c) = (CHOOSE f : ExactLoop(f))[MaxIters][c]
  BY Zenon DEF ExactIters, Square, Scaled, ExactNext
<1>3. \A f : Loop(f) <=> Rounds(f, Out, Step(c))
  <2>1. \A z \in Complex : (z \in Out <=> AbsSq(z) > MAKE_FP(4, 0, 0)) /\ Step(c)[z] = CmplxAdd(CmplxMul(z, z), c)
    BY Zenon DEF Out, Step
  <2> SUFFICES ASSUME NEW f
               PROVE  [left \in Nat |->
             [iter_val \in Complex |->
                LET i == MaxIters - left
                IN  IF i > 0 /\ AbsSq(iter_val) > MAKE_FP(4, 0, 0) THEN i - 1
                    ELSE IF left = 0 THEN MaxIters
                    ELSE f[left - 1][CmplxAdd(CmplxMul(iter_val, iter_val), c)]]]
             =  [left \in Nat |->
         [z \in Complex |->
            IF MaxIters - left > 0 /\ z \in Out THEN MaxIters - left - 1
            ELSE IF left = 0 THEN MaxIters
            ELSE f[left - 1][Step(c)[z]]]]
    BY Zenon DEF Rounds
  <2> QED BY <2>1, Zenon
<1>4. \A f : ExactLoop(f) <=> Rounds(f, ExactOut, ExactStep(c))
  <2>1. \A z \in Complex : (z \in ExactOut <=> Square(z) > 4 * 2^FP_EXP) /\ ExactStep(c)[z] = ExactNext(z, c)
    BY Zenon DEF ExactOut, ExactStep
  <2> SUFFICES ASSUME NEW f
               PROVE  [left \in Nat |->
             [z \in Complex |->
                LET i == MaxIters - left
                IN  IF i > 0 /\ Square(z) > 4 * 2^FP_EXP THEN i - 1
                    ELSE IF left = 0 THEN MaxIters
                    ELSE f[left - 1][ExactNext(z, c)]]]
             =  [left \in Nat |->
         [z \in Complex |->
            IF MaxIters - left > 0 /\ z \in ExactOut THEN MaxIters - left - 1
            ELSE IF left = 0 THEN MaxIters
            ELSE f[left - 1][ExactStep(c)[z]]]]
    BY Zenon DEF Rounds
  <2> QED BY <2>1, Zenon
<1> HIDE DEF Loop, ExactLoop
<1> QED BY <1>1, <1>2, <1>3, <1>4, Zenon

LEMMA NextIsComplex ==
  ASSUME Headroom, NEW c \in Complex
  PROVE  Step(c) \in [Complex -> Complex] /\ ExactStep(c) \in [Complex -> Complex]
<1>1. \A w \in Int : FpClamp(w) \in Int /\ Scaled(w) \in Int
  BY ClampType, ScaledType, Zenon
<1>2. \A w, v \in Int : w + v \in Int /\ w - v \in Int /\ -w \in Int /\ w * v \in Int /\ 2 * w \in Int
  BY SMT
<1>3. \A w, v \in Int : FpAdd(w, v) \in Int /\ FpMul(w, v) \in Int
  BY <1>1, <1>2, Zenon DEF FpAdd, FpMul, Scaled
<1>4. \A z \in Complex : z.real \in Int /\ z.imag \in Int
  BY DEF Complex
<1>5. \A z \in Complex : CmplxMul(z, z) \in Complex
  BY <1>2, <1>3, <1>4, Zenon DEF CmplxMul, Complex
<1>6. \A z, w \in Complex : CmplxAdd(z, w) \in Complex
  BY <1>3, <1>4, Zenon DEF CmplxAdd, Complex
<1>7. \A z \in Complex : ExactNext(z, c) \in Complex
  BY <1>1, <1>2, <1>4, Zenon DEF ExactNext, Complex
<1> QED BY <1>5, <1>6, <1>7, Zenon DEF Step, ExactStep

LEMMA SameOut ==
  ASSUME Headroom
  PROVE  Out = ExactOut
  BY SameEscape, Zenon DEF Out, ExactOut

\* A point that has not escaped, and the first of an iteration.
LEMMA StartsInside ==
  ASSUME Headroom, NEW c, InPicture(c)
  PROVE  Square(c) <= 17 * Quarter
<1> DEFINE K == Quarter
           s == Scaled(c.real * c.real)
           t == Scaled(c.imag * c.imag)
<1>1. K \in Nat \ {0} /\ 2^FP_EXP = 4 * K /\ K = Quarter
  BY Magnitudes, Zenon
<1>2. c.real \in -(7 * K) .. 7 * K /\ c.imag \in -(4 * K) .. 4 * K
  BY <1>1 DEF InPicture
<1>3. \A b \in Nat : \A u \in -b .. b : u * u <= b * b
  <2> SUFFICES ASSUME NEW b \in Nat, NEW u \in -b .. b PROVE u * u <= b * b
    BY Zenon
  <2>1. b - u \in Nat /\ b + u \in Nat
    OBVIOUS
  <2>2. (b - u) * (b + u) \in Nat /\ (b - u) * (b + u) = b * b - u * u
    BY <2>1, SMT
  <2> QED BY <2>2
<1>4. c.real * c.real <= (7 * K) * (7 * K) /\ c.imag * c.imag <= (4 * K) * (4 * K)
  BY <1>1, <1>2, <1>3
<1>5. \A v \in Nat : \A e \in Nat : v <= 4 * K * e => v \div (4 * K) <= e
  <2> SUFFICES ASSUME NEW v \in Nat, NEW e \in Nat, v <= 4 * K * e PROVE v \div (4 * K) <= e
    BY Zenon
  <2> DEFINE q == 4 * K
             d == v \div q
  <2>1. q \in Nat \ {0}
    BY <1>1
  <2> HIDE DEF q
  <2>2. d \in Nat /\ q * d <= v
    BY <2>1, Z3
  <2> HIDE DEF d
  <2>3. q * d <= q * e
    <3>1. v <= q * e
      BY Zenon DEF q
    <3> QED BY <2>1, <2>2, <3>1, SMT
  <2>4. d <= e
    BY <2>1, <2>2, <2>3, Z3
  <2> QED BY <2>4, Zenon DEF d, q
<1>6. s <= 13 * K /\ t <= 4 * K
  <2>1. (7 * K) * (7 * K) <= 4 * K * (13 * K) /\ (4 * K) * (4 * K) <= 4 * K * (4 * K)
    BY <1>1, SMT
  <2>2. c.real * c.real \in Nat /\ c.imag * c.imag \in Nat /\ 13 * K \in Nat /\ 4 * K \in Nat
    BY <1>1, <1>2, SMT
  <2>3. (4 * K * (13 * K)) \in Int /\ 4 * K * (4 * K) \in Int /\ (7 * K) * (7 * K) \in Int /\ (4 * K) * (4 * K) \in Int
    BY <1>1
  <2>4. c.real * c.real <= 4 * K * (13 * K) /\ c.imag * c.imag <= 4 * K * (4 * K)
    BY <1>4, <2>1, <2>2, <2>3
  <2> QED BY <1>1, <1>5, <2>2, <2>4, Zenon DEF Scaled
<1>7. s \in Nat /\ t \in Nat
  BY SameEscape DEF InPicture
<1>8. s + t <= 17 * K
  <2> HIDE DEF s, t
  <2> QED BY <1>1, <1>6, <1>7
<1> QED BY <1>8, Zenon DEF Square

LEMMA SameIters ==
  ASSUME Headroom, NEW c, InPicture(c)
  PROVE  MandelIters(c) = ExactIters(c) /\ MandelIters(c) \in 0 .. MaxIters
<1>0. MaxIters \in Nat \ {0} /\ c \in Complex
  BY LcdDemoAssumption, SMT DEF InPicture
<1>1. PICK f : Rounds(f, Out, Step(c)) /\ MandelIters(c) = f[MaxIters][c]
  BY <1>0, NextIsComplex, RoundsExist, LoopDefinitions, Zenon
<1>2. PICK g : Rounds(g, ExactOut, ExactStep(c)) /\ ExactIters(c) = g[MaxIters][c]
  BY <1>0, NextIsComplex, RoundsExist, LoopDefinitions, Zenon
<1>3. ASSUME NEW left \in Nat, NEW z \in Complex
      PROVE  /\ f[left][z] = IF MaxIters - left > 0 /\ z \in Out THEN MaxIters - left - 1
                             ELSE IF left = 0 THEN MaxIters ELSE f[left - 1][Step(c)[z]]
             /\ g[left][z] = IF MaxIters - left > 0 /\ z \in Out THEN MaxIters - left - 1
                             ELSE IF left = 0 THEN MaxIters ELSE g[left - 1][ExactStep(c)[z]]
  <2>1. \A h, next : Rounds(h, Out, next) =>
          h[left][z] = IF MaxIters - left > 0 /\ z \in Out THEN MaxIters - left - 1
                       ELSE IF left = 0 THEN MaxIters ELSE h[left - 1][next[z]]
    <3> SUFFICES ASSUME NEW h, NEW next, Rounds(h, Out, next)
                 PROVE  h[left][z] = IF MaxIters - left > 0 /\ z \in Out THEN MaxIters - left - 1
                                     ELSE IF left = 0 THEN MaxIters ELSE h[left - 1][next[z]]
      BY Zenon
    <3> DEFINE round(e) == [w \in Complex |-> IF MaxIters - e > 0 /\ w \in Out THEN MaxIters - e - 1
                                              ELSE IF e = 0 THEN MaxIters ELSE h[e - 1][next[w]]]
    <3>1. h = [e \in Nat |-> round(e)]
      BY Zenon DEF Rounds
    <3>2. h[left] = round(left)
      <4> HIDE DEF round
      <4> QED BY <3>1, Zenon
    <3> QED BY <3>2, Zenon
  <2> QED BY <1>1, <1>2, <2>1, SameOut, Zenon
<1>4. ASSUME NEW z \in Complex, Square(z) <= 17 * Quarter
      PROVE  Step(c)[z] = ExactStep(c)[z] /\ Step(c)[z] \in Complex
  <2>1. CmplxAdd(CmplxMul(z, z), c) = ExactNext(z, c) /\ ExactNext(z, c) \in Complex
    BY <1>4, SameStep, Zenon
  <2> QED BY <2>1, Zenon DEF Step, ExactStep
<1>5. ASSUME NEW z \in Complex, z \notin Out
      PROVE  Square(z) <= 17 * Quarter
  <2>1. ~(Square(z) > 4 * 2^FP_EXP) /\ 4 * 2^FP_EXP = 16 * Quarter /\ Quarter \in Nat
    BY <1>5, SameOut, SameEscape, Magnitudes, Zenon DEF ExactOut
  <2>2. Square(z) \in Int
    <3>1. Scaled(z.real * z.real) \in Nat /\ Scaled(z.imag * z.imag) \in Nat
      BY SameEscape, Zenon
    <3> QED BY <3>1 DEF Square
  <2> QED BY <2>1, <2>2
<1> DEFINE Equal == {n \in Nat : n < MaxIters => \A z \in Complex : f[n][z] = g[n][z] /\ f[n][z] \in 0 .. MaxIters}
<1>6. 0 \in Equal
  <2>1. 0 \in Nat /\ MaxIters \in 0 .. MaxIters /\ MaxIters - 0 > 0 /\ MaxIters - 0 - 1 \in 0 .. MaxIters
    BY <1>0
  <2> QED BY <1>3, <2>1, Zenon
<1>7. ASSUME NEW n \in Nat, n \in Equal PROVE n + 1 \in Equal
  <2> SUFFICES ASSUME n + 1 < MaxIters, NEW z \in Complex
               PROVE  f[n + 1][z] = g[n + 1][z] /\ f[n + 1][z] \in 0 .. MaxIters
    <3>1. n + 1 \in Nat
      OBVIOUS
    <3> QED BY <3>1, Zenon
  <2>1. n < MaxIters /\ n + 1 \in Nat /\ n + 1 # 0 /\ (n + 1) - 1 = n
        /\ MaxIters - (n + 1) > 0 /\ MaxIters - (n + 1) - 1 \in 0 .. MaxIters
    BY <1>0
  <2>2. CASE z \in Out
    BY <1>3, <2>1, <2>2, Zenon
  <2>3. CASE z \notin Out
    <3>1. Step(c)[z] = ExactStep(c)[z] /\ Step(c)[z] \in Complex
      BY <1>4, <1>5, <2>3, Zenon
    <3>2. f[n + 1][z] = f[n][Step(c)[z]] /\ g[n + 1][z] = g[n][ExactStep(c)[z]]
      <4> DEFINE e == n + 1
      <4>1. e \in Nat /\ e # 0 /\ e - 1 = n
        BY <2>1, Zenon
      <4> HIDE DEF e
      <4>2. f[e][z] = f[e - 1][Step(c)[z]] /\ g[e][z] = g[e - 1][ExactStep(c)[z]]
        BY <1>3, <2>3, <4>1, Zenon
      <4> QED BY <4>1, <4>2, Zenon DEF e
    <3> QED BY <1>7, <2>1, <3>1, <3>2, Zenon
  <2> QED BY <2>2, <2>3
<1>8. Nat \subseteq Equal
  <2> HIDE DEF Equal
  <2> QED BY <1>6, <1>7, Induction, Zenon
<1>9. f[MaxIters][c] = g[MaxIters][c] /\ f[MaxIters][c] \in 0 .. MaxIters
  <2>1. MaxIters \in Nat /\ MaxIters # 0 /\ ~(MaxIters - MaxIters > 0) /\ MaxIters - 1 \in Nat /\ MaxIters - 1 < MaxIters
    BY <1>0
  <2>2. f[MaxIters][c] = f[MaxIters - 1][Step(c)[c]] /\ g[MaxIters][c] = g[MaxIters - 1][ExactStep(c)[c]]
    BY <1>0, <1>3, <2>1, Zenon
  <2>3. Step(c)[c] = ExactStep(c)[c] /\ Step(c)[c] \in Complex
    BY <1>0, <1>4, StartsInside, Zenon
  <2>4. MaxIters - 1 \in Equal
    BY <1>8, <2>1, Zenon
  <2> QED BY <2>1, <2>2, <2>3, <2>4, Zenon
<1> QED BY <1>1, <1>2, <1>9, Zenon

\* The last pixel that was sent is that of the place before the one the loops are at.
ClampInv ==
  /\ PictureInv
  /\ pc = "fixed" /\ sent > 0 => pixel = MandelIters(PointOf(sent - 1))

LEMMA ClampInit == Init => ClampInv
  BY PictureInit DEF Init, ClampInv

LEMMA ClampStep == ClampInv /\ [Next]_vars => ClampInv'
<1> SUFFICES ASSUME ClampInv, [Next]_vars, pc' = "fixed", sent' > 0
             PROVE  pixel' = MandelIters(PointOf(sent' - 1))
  BY PictureStep, Zenon DEF ClampInv
<1>1. CASE Boot \/ EndReset \/ Splash \/ ShowMenu \/ Custom \/ Delay
  BY <1>1 DEF Boot, EndReset, Splash, ShowMenu, Custom, Delay, Goto
<1>2. CASE ScanButtons
  BY <1>2 DEF ScanButtons, Press, Poll, Default, Goto, Chosen
<1>3. CASE FractalFloat
  BY <1>3 DEF FractalFloat, StartPicture, PutPixel, FinishPicture, Goto
<1>4. CASE FractalFixed
  <2>1. CASE StartPicture("fixed_start", "fixed")
    BY <2>1 DEF StartPicture
  <2>2. CASE PutPixel("fixed", MandelIters(cur_p))
    <3>1. pixel' = MandelIters(cur_p) /\ sent' = sent + 1 /\ Raster
      BY <2>2 DEF PutPixel, ClampInv, PictureInv
    <3>2. sent \in Int
      BY <3>1, Sizes, SMT DEF Raster
    <3>3. sent' - 1 = sent
      BY <3>1, <3>2
    <3> QED BY <3>1, <3>3, RasterIsPoint, Zenon
  <2>3. CASE FinishPicture("fixed", "fixed_shown")
    BY <2>3 DEF FinishPicture, Goto
  <2> QED BY <1>4, <2>1, <2>2, <2>3 DEF FractalFixed
<1>5. CASE UNCHANGED vars
  <2>1. pc' = pc /\ sent' = sent /\ pixel' = pixel
    BY <1>5 DEF vars, pictureVars
  <2> QED BY <2>1, Zenon DEF ClampInv
<1> QED BY <1>1, <1>2, <1>3, <1>4, <1>5 DEF Next

LEMMA ClampImpliesInvisible ==
  ASSUME Headroom, ClampInv
  PROVE  ClampInvisible
<1> SUFFICES ASSUME pc = "fixed", sent > 0
             PROVE  pixel = ExactIters(PointOf(sent - 1)) /\ pixel \in rgb_iters_palette
  BY Zenon DEF ClampInvisible
<1>1. pixel = MandelIters(PointOf(sent - 1)) /\ Raster
  BY Zenon DEF ClampInv, PictureInv
<1>2. sent - 1 \in 0 .. Width * Height - 1
  <2>1. /\ Width \in Nat \ {0} /\ Height \in Nat \ {0} /\ x \in 0 .. Width - 1 /\ y \in 0 .. Height
        /\ y = Height => x = 0
        /\ sent = y * Width + x
    BY <1>1, Sizes DEF Raster
  <2>2. CASE y = Height
    <3>1. sent = Width * Height
      BY <2>1, <2>2, SMT
    <3>2. Width * Height \in Nat
      BY <2>1, SMT
    <3> QED BY <3>1, <3>2
  <2>3. CASE y # Height
    <3>1. Height - 1 - y \in Nat
      BY <2>1, <2>3
    <3>2. (Height - 1 - y) * Width \in Nat /\ (Height - 1 - y) * Width = Width * Height - Width - y * Width
      BY <2>1, <3>1, SMT
    <3>3. y * Width \in Nat /\ Width * Height \in Nat
      BY <2>1, SMT
    <3> QED BY <2>1, <3>2, <3>3
  <2> QED BY <2>2, <2>3
<1>3. pixel = ExactIters(PointOf(sent - 1)) /\ pixel \in 0 .. MaxIters
  BY <1>1, <1>2, PointsInPicture, SameIters, Zenon
<1>4. 0 .. MaxIters \subseteq rgb_iters_palette
  BY LcdDemoAssumption, SMT DEF Headroom, rgb_iters_palette
<1> QED BY <1>3, <1>4

(* At every size of display and precision, with the source's three bits of *)
(* headroom, the clamps of fp_clamp never show: each pixel of the fixed-   *)
(* point picture has the count of the same iteration in unbounded numbers, *)
(* and a colour in the palette.                                            *)
THEOREM ClampCorrect == ASSUME Headroom PROVE Spec => []ClampInvisible
<1>1. Spec => []ClampInv
  BY ClampInit, ClampStep, PTL DEF Spec
<1>2. ClampInv => ClampInvisible
  BY ClampImpliesInvisible, Zenon
<1> QED BY <1>1, <1>2, PTL

-----------------------------------------------------------------------------
(* The menu.                                                               *)

\* What the menu needs of the sizes: the longest text fits beside its margin, three rows of
\* text above what the custom item writes at row 80, and that above the note at row 106 and
\* the foot of the display.
MenuFits ==
  /\ 5 + 18 * FontWidth <= Width
  /\ 3 * FontHeight <= 80 /\ 80 + FontHeight <= 106 /\ 80 + FontHeight <= Height

\* The screen while the buttons are scanned.
MenuScreen == LcdShowMenu \cup {Puts("default", 5, 106), Puts("after", 5, 118)}

\* What is lit and what is drawn, phase by phase.
MenuInv ==
  /\ gpio_out \in Pins
  /\ pc # "boot" => gpio_out[LcdBlPin] = 1
  /\ pc \notin {"boot", "reset"} => gpio_out[LcdRstPin] = 1
  /\ pc \in {"scan", "custom", "custom_shown"} => gpio_out[LcdCsPin] = 1
  /\ pc \in {"scan", "custom"} => screen = MenuScreen
  /\ pc = "custom_shown" => screen = MenuScreen \cup {Puts("button", 5, 80)}

\* The program draws the menu before it scans, and lights the display before that.
LEMMA MenuInit == Init => MenuInv
  BY DEF Init, MenuInv, Pins

\* gpio_write leaves the light and the reset alone.
LEMMA Lit ==
  ASSUME NEW pins \in Pins, NEW cs \in {0, 1}, NEW dc \in {0, 1}
  PROVE  /\ GpioWrite(pins, cs, dc) \in Pins /\ GpioWrite(pins, cs, dc)[LcdCsPin] = cs
         /\ GpioWrite(pins, cs, dc)[LcdBlPin] = pins[LcdBlPin]
         /\ GpioWrite(pins, cs, dc)[LcdRstPin] = pins[LcdRstPin]
  BY SMT DEF Pins, GpioWrite, SetOutputBit, LcdCsPin, LcdDcPin, LcdRstPin, LcdBlPin

LEMMA MenuStep == MenuInv /\ [Next]_vars => MenuInv'
<1> SUFFICES ASSUME MenuInv, [Next]_vars PROVE MenuInv'
  OBVIOUS
<1>1. CASE Boot
  <2>1. pc' = "reset" /\ gpio_out' \in Pins /\ gpio_out'[LcdBlPin] = 1
    BY <1>1, SMT DEF MenuInv, Boot, Goto, SetOutputBit, Pins, LcdCsPin, LcdDcPin, LcdBlPin, LcdRstPin
  <2> QED BY <2>1 DEF MenuInv
<1>2. CASE EndReset
  <2>1. pc' = "splash" /\ gpio_out' \in Pins /\ gpio_out'[LcdRstPin] = 1 /\ gpio_out'[LcdBlPin] = 1
    BY <1>2, SMT DEF MenuInv, EndReset, Goto, SetOutputBit, Pins, LcdRstPin, LcdBlPin
  <2> QED BY <2>1 DEF MenuInv
<1>3. CASE Splash
  <2>1. pc \notin {"boot", "reset"} /\ pc' = "menu" /\ gpio_out' = GpioWrite(gpio_out, 1, 1)
    BY <1>3 DEF Splash, Goto
  <2>2. gpio_out' \in Pins /\ gpio_out'[LcdRstPin] = 1 /\ gpio_out'[LcdBlPin] = 1
    BY <2>1, Lit DEF MenuInv
  <2> QED BY <2>1, <2>2 DEF MenuInv
<1>4. CASE ShowMenu
  <2>1. /\ pc \notin {"boot", "reset"} /\ pc' = "scan" /\ gpio_out' = GpioWrite(gpio_out, 1, 1)
        /\ screen' = MenuScreen
    BY <1>4 DEF ShowMenu, Goto, MenuScreen
  <2>2. gpio_out' \in Pins /\ gpio_out'[LcdRstPin] = 1 /\ gpio_out'[LcdBlPin] = 1 /\ gpio_out'[LcdCsPin] = 1
    BY <2>1, Lit DEF MenuInv
  <2> QED BY <2>1, <2>2 DEF MenuInv
<1>5. CASE Custom
  <2>1. /\ pc = "custom" /\ pc' = "custom_shown" /\ gpio_out' = GpioWrite(gpio_out, 1, 1)
        /\ screen' = MenuScreen \cup {Puts("button", 5, 80)}
    BY <1>5 DEF Custom, Goto, MenuInv
  <2>2. gpio_out' \in Pins /\ gpio_out'[LcdRstPin] = 1 /\ gpio_out'[LcdBlPin] = 1 /\ gpio_out'[LcdCsPin] = 1
    BY <2>1, Lit DEF MenuInv
  <2> QED BY <2>1, <2>2 DEF MenuInv
<1>6. CASE ScanButtons
  <2>1. pc = "scan" /\ pc' \in {"scan", "custom", "float_start", "menu"} /\ gpio_out' = gpio_out /\ screen' = screen
    BY <1>6 DEF ScanButtons, Press, Poll, Default, Goto, Chosen
  <2> QED BY <2>1 DEF MenuInv
<1>7. CASE Delay
  <2>1. pc \notin {"boot", "reset"} /\ pc' \in {"menu", "fixed_start"} /\ gpio_out' = gpio_out
    BY <1>7 DEF Delay, Goto
  <2> QED BY <2>1 DEF MenuInv
<1>8. ASSUME NEW from, NEW to, from \in {"float_start", "fixed_start", "float", "fixed"},
             to \in {"float", "fixed", "float_shown", "fixed_shown"},
             StartPicture(from, to) \/ FinishPicture(from, to)
      PROVE  MenuInv'
  <2>1. /\ pc \notin {"boot", "reset"} /\ pc' = to
        /\ gpio_out' = GpioWrite(gpio_out, 0, 1) \/ gpio_out' = GpioWrite(gpio_out, 1, 1)
    BY <1>8 DEF StartPicture, FinishPicture, Goto
  <2>2. gpio_out' \in Pins /\ gpio_out'[LcdRstPin] = 1 /\ gpio_out'[LcdBlPin] = 1
    BY <2>1, Lit DEF MenuInv
  <2> QED BY <1>8, <2>1, <2>2 DEF MenuInv
<1>9. ASSUME NEW where, NEW iters, where \in {"float", "fixed"}, PutPixel(where, iters) PROVE MenuInv'
  <2>1. pc = where /\ pc' = pc /\ gpio_out' = gpio_out
    BY <1>9 DEF PutPixel
  <2> QED BY <1>9, <2>1 DEF MenuInv
<1>10. CASE FractalFloat \/ FractalFixed
  BY <1>8, <1>9, <1>10 DEF FractalFloat, FractalFixed
<1>11. CASE UNCHANGED vars
  BY <1>11 DEF MenuInv, vars
<1> QED BY <1>1, <1>2, <1>3, <1>4, <1>5, <1>6, <1>7, <1>10, <1>11 DEF Next

\* Where each text of the menu begins, and on which row.
Left(text) == CASE text = "title" -> (Width - 9 * FontWidth) \div 2
                [] text \in {"fractal", "custom"} -> 0
                [] text \in {"default", "after", "button"} -> 5
Row(text) == CASE text = "title" -> 0 [] text = "fractal" -> FontHeight [] text = "custom" -> 2 * FontHeight
               [] text = "default" -> 106 [] text = "after" -> 118 [] text = "button" -> 80
Long(text) == CASE text \in {"title", "custom"} -> 9 [] text = "fractal" -> 10
                [] text = "default" -> 18 [] text = "after" -> 17 [] text = "button" -> 16
MenuTexts == {"title", "fractal", "custom", "default", "after", "button"}
TextBox(text) == Box(text, Left(text), Row(text), FontWidth * Long(text), FontHeight)

LEMMA FontSizes ==
  /\ Width \in Nat /\ Width >= 1 /\ FontWidth \in Nat /\ FontWidth >= 1 /\ FontHeight \in Nat /\ FontHeight >= 1
<1>1. Width \in Nat \ {0} /\ FontWidth \in Nat \ {0} /\ FontHeight \in Nat \ {0}
  BY LcdDemoAssumption, Zenon
<1> QED BY <1>1

LEMMA Lengths ==
  /\ strlen["title"] = 9 /\ strlen["fractal"] = 10 /\ strlen["custom"] = 9
  /\ strlen["default"] = 18 /\ strlen["after"] = 17 /\ strlen["button"] = 16
  /\ MenuTexts \subseteq DOMAIN strlen /\ "bar" \notin DOMAIN strlen /\ "line" \notin DOMAIN strlen
  BY DEF strlen, MenuTexts

LEMMA Rooms ==
  ASSUME NEW a \in Int, NEW w \in Nat, w >= 1, NEW k \in Nat, k * w <= a
  PROVE  a \div w \in Int /\ ~(a \div w < k)
  BY Z3

\* Every text has all its glyphs.
LEMMA TextFits ==
  ASSUME MenuFits, NEW text \in MenuTexts
  PROVE  /\ Long(text) = strlen[text] /\ Long(text) \in Nat
         /\ Left(text) \in Nat /\ Left(text) + FontWidth * Long(text) <= Width
         /\ Puts(text, Left(text), Row(text)) = TextBox(text)
<1>1. Long(text) = strlen[text] /\ Long(text) \in {9, 10, 16, 17, 18}
  BY Lengths DEF Long, MenuTexts
<1>2. Left(text) \in Nat /\ Left(text) + FontWidth * Long(text) <= Width
  BY FontSizes DEF Left, Long, MenuTexts, MenuFits
<1>3. Long(text) \in Nat /\ Long(text) * FontWidth <= Width - Left(text) /\ Width - Left(text) \in Int
  BY <1>1, <1>2, FontSizes
<1>4. ~((Width - Left(text)) \div FontWidth < Long(text))
  BY <1>3, FontSizes, Rooms, Zenon
<1>5. Puts(text, Left(text), Row(text)) = TextBox(text)
  <2>1. /\ (Width - Left(text)) \div FontWidth \in Int
    BY <1>3, FontSizes, Rooms, Zenon
  <2> DEFINE room == (Width - Left(text)) \div FontWidth
             least == IF room < strlen[text] THEN room ELSE strlen[text]
  <2>2. least = Long(text)
    BY <1>1, <1>4, Zenon
  <2>3. Puts(text, Left(text), Row(text)) = Box(text, Left(text), Row(text), FontWidth * least, FontHeight)
    BY Zenon DEF Puts
  <2> HIDE DEF least
  <2> QED BY <2>2, <2>3, Zenon DEF TextBox
<1> QED BY <1>1, <1>2, <1>3, <1>5, Zenon

\* What is on the screen: the bar, the lines of the frame and the texts.
Bar == Box("bar", 0, 0, Width, FontHeight)
TextsShown == {TextBox(text) : text \in MenuTexts \ {"button"}}

LEMMA MenuParts ==
  ASSUME MenuFits
  PROVE  /\ MenuScreen = {Bar} \cup TextsShown \cup Frame(2)
         /\ Puts("button", 5, 80) = TextBox("button")
<1>1. /\ Puts("default", 5, 106) = TextBox("default") /\ Puts("after", 5, 118) = TextBox("after")
      /\ Puts("button", 5, 80) = TextBox("button")
  <2>1. /\ Left("default") = 5 /\ Left("after") = 5 /\ Left("button") = 5
        /\ Row("default") = 106 /\ Row("after") = 118 /\ Row("button") = 80
    BY DEF Left, Row
  <2>2. {"default", "after", "button"} \subseteq MenuTexts
    BY DEF MenuTexts
  <2> QED BY <2>1, <2>2, TextFits, Zenon
<1>2. /\ Println("title", "center", 0) = TextBox("title")
      /\ Println("fractal", "left", 1) = TextBox("fractal") /\ Println("custom", "left", 2) = TextBox("custom")
  <2>1. /\ Aligned("title", "center") = Left("title") /\ 0 * FontHeight = Row("title")
        /\ Aligned("fractal", "left") = Left("fractal") /\ 1 * FontHeight = Row("fractal")
        /\ Aligned("custom", "left") = Left("custom") /\ 2 * FontHeight = Row("custom")
    BY FontSizes, Lengths DEF Aligned, Left, Row
  <2>2. {"title", "fractal", "custom"} \subseteq MenuTexts
    BY DEF MenuTexts
  <2> QED BY <2>1, <2>2, TextFits, Zenon DEF Println
<1>3. {Println(items[i], "left", i) : i \in DOMAIN items} = {Println("fractal", "left", 1), Println("custom", "left", 2)}
  <2>1. DOMAIN items = {1, 2} /\ items[1] = "fractal" /\ items[2] = "custom"
    BY DEF items
  <2> QED BY <2>1, Zenon
<1>4. MenuTexts \ {"button"} = {"title", "fractal", "custom", "default", "after"}
  BY DEF MenuTexts
<1>5. TextsShown = {TextBox("title"), TextBox("fractal"), TextBox("custom"), TextBox("default"), TextBox("after")}
  BY <1>4, Zenon DEF TextsShown
<1>6. MenuScreen = {Bar} \cup TextsShown \cup Frame(2)
  <2>1. MenuScreen = ({Bar, TextBox("title")} \cup {TextBox("fractal"), TextBox("custom")} \cup Frame(2))
                     \cup {TextBox("default"), TextBox("after")}
    BY <1>1, <1>2, <1>3, Zenon DEF MenuScreen, LcdShowMenu, Bar
  <2> QED BY <1>5, <2>1, Zenon
<1> QED BY <1>1, <1>6

\* What a box of each sort is.
LEMMA OnScreen ==
  ASSUME MenuFits, pc \in {"scan", "custom_shown"}, MenuInv
  PROVE  /\ \A box \in screen : box = Bar \/ box \in Frame(2) \/ \E text \in MenuTexts : box = TextBox(text)
         /\ Bar \in screen /\ TextBox("fractal") \in screen /\ TextBox("custom") \in screen
         /\ Frame(2) \subseteq screen
<1>1. screen = MenuScreen \/ screen = MenuScreen \cup {TextBox("button")}
  BY MenuParts, Zenon DEF MenuInv
<1>2. MenuScreen = {Bar} \cup TextsShown \cup Frame(2)
  BY MenuParts, Zenon
<1>3. {"title", "fractal", "custom", "button"} \subseteq MenuTexts /\ {"fractal", "custom"} \subseteq MenuTexts \ {"button"}
  BY DEF MenuTexts
<1> QED BY <1>1, <1>2, <1>3, Zenon DEF TextsShown

LEMMA FrameLines ==
  \A box \in Frame(2) : /\ box.what = "line"
                        /\ \/ box.x = 0 /\ box.y = FontHeight * 2 /\ box.w = Width /\ box.h = 1
                           \/ box.x = 0 /\ box.y = FontHeight * 3 - 1 /\ box.w = Width /\ box.h = 1
                           \/ box.x = 0 /\ box.y = FontHeight * 2 /\ box.w = 1 /\ box.h = FontHeight - 1
                           \/ box.x = Width - 1 /\ box.y = FontHeight * 2 /\ box.w = 1 /\ box.h = FontHeight - 1
  BY FontSizes DEF Frame, Box

LEMMA BoxFields ==
  /\ Bar.what = "bar" /\ Bar.x = 0 /\ Bar.y = 0 /\ Bar.w = Width /\ Bar.h = FontHeight
  /\ \A text \in MenuTexts : /\ TextBox(text).what = text /\ TextBox(text).x = Left(text) /\ TextBox(text).y = Row(text)
                             /\ TextBox(text).w = FontWidth * Long(text) /\ TextBox(text).h = FontHeight
  BY DEF Bar, TextBox, Box

LEMMA MenuGeometry ==
  ASSUME MenuFits, pc \in {"scan", "custom_shown"}, MenuInv
  PROVE  MenuShown
<1>1. /\ \A box \in screen : box = Bar \/ box \in Frame(2) \/ \E text \in MenuTexts : box = TextBox(text)
      /\ Bar \in screen /\ TextBox("fractal") \in screen /\ TextBox("custom") \in screen
      /\ Frame(2) \subseteq screen
  BY OnScreen, Zenon
<1>2. {"fractal", "custom", "title"} \subseteq MenuTexts
  BY DEF MenuTexts
<1>3. \A box \in Texts : box \in screen /\ \E text \in MenuTexts : box = TextBox(text)
  BY <1>1, BoxFields, FrameLines, Lengths, Zenon DEF Texts
<1>4. Lines = Frame(2)
  <2>1. ASSUME NEW box \in screen, box.what = "line" PROVE box \in Frame(2)
    <3>1. Bar.what # "line"
      BY BoxFields
    <3>2. ASSUME NEW text \in MenuTexts, box = TextBox(text) PROVE FALSE
      <4>1. text = "line"
        BY <2>1, <3>2, BoxFields, Zenon
      <4> QED BY <4>1 DEF MenuTexts
    <3> QED BY <1>1, <2>1, <3>1, <3>2, Zenon
  <2>2. \A box \in Frame(2) : box \in screen /\ box.what = "line"
    BY <1>1, FrameLines, Zenon
  <2>3. Lines \subseteq Frame(2)
    BY <2>1, Zenon DEF Lines
  <2>4. Frame(2) \subseteq Lines
    BY <2>2, Zenon DEF Lines
  <2> QED BY <2>3, <2>4, Zenon
<1>5. Entries = {TextBox("fractal"), TextBox("custom")}
  <2>1. DOMAIN items = {1, 2} /\ items[1] = "fractal" /\ items[2] = "custom"
    BY DEF items
  <2>2. \A box \in Entries : box = TextBox("fractal") \/ box = TextBox("custom")
    <3> SUFFICES ASSUME NEW box \in Entries PROVE box = TextBox("fractal") \/ box = TextBox("custom")
      BY Zenon
    <3>1. box \in Texts /\ \E i \in DOMAIN items : box.what = items[i]
      BY Zenon DEF Entries
    <3>2. box.what = "fractal" \/ box.what = "custom"
      BY <2>1, <3>1, Zenon
    <3>3. PICK text \in MenuTexts : box = TextBox(text)
      BY <1>3, <3>1, Zenon
    <3>4. box.what = text
      BY <3>3, BoxFields, Zenon
    <3> QED BY <3>2, <3>3, <3>4, Zenon
  <2>3. TextBox("fractal") \in Texts /\ TextBox("custom") \in Texts
    BY <1>1, <1>2, BoxFields, Lengths, Zenon DEF Texts
  <2>4. TextBox("fractal") \in Entries /\ TextBox("custom") \in Entries
    BY <1>2, <2>1, <2>3, BoxFields, Zenon DEF Entries
  <2> QED BY <2>2, <2>4, Zenon
<1>6. gpio_out[LcdBlPin] = 1 /\ gpio_out[LcdRstPin] = 1 /\ gpio_out[LcdCsPin] = 1
  <2>1. pc # "boot" /\ pc \notin {"boot", "reset"} /\ pc \in {"scan", "custom", "custom_shown"}
    OBVIOUS
  <2> QED BY <2>1, Zenon DEF MenuInv
<1>7. \A text \in Texts : text.w = FontWidth * strlen[text.what]
  <2> SUFFICES ASSUME NEW box \in Texts PROVE box.w = FontWidth * strlen[box.what]
    BY Zenon
  <2>1. PICK text \in MenuTexts : box = TextBox(text)
    BY <1>3, Zenon
  <2>2. box.what = text /\ box.w = FontWidth * Long(text) /\ Long(text) = strlen[text]
    BY <2>1, BoxFields, TextFits, Zenon
  <2> QED BY <2>2, Zenon
<1>8. \A box \in screen : Columns(box) \subseteq 0 .. Width - 1
  <2> SUFFICES ASSUME NEW box \in screen PROVE Columns(box) \subseteq 0 .. Width - 1
    OBVIOUS
  <2>1. CASE box = Bar
    <3>1. box.x = 0 /\ box.w = Width
      BY <2>1, BoxFields, Zenon
    <3> QED BY <3>1, FontSizes DEF Columns
  <2>2. CASE box \in Frame(2)
    <3>1. (box.x = 0 /\ box.w = Width) \/ (box.x = 0 /\ box.w = 1) \/ (box.x = Width - 1 /\ box.w = 1)
      BY <2>2, FrameLines, Zenon
    <3> QED BY <3>1, FontSizes DEF Columns
  <2>3. ASSUME NEW text \in MenuTexts, box = TextBox(text) PROVE Columns(box) \subseteq 0 .. Width - 1
    <3> DEFINE l == Left(text)
               w == FontWidth * Long(text)
    <3>1. box.x = l /\ box.w = w
      BY <2>3, BoxFields, Zenon
    <3>2. l \in Nat /\ l + w <= Width /\ w \in Int
      <4>1. Long(text) \in Nat /\ l \in Nat /\ l + w <= Width
        BY TextFits, <2>3, Zenon
      <4>2. w \in Int
        BY <4>1, FontSizes
      <4> QED BY <4>1, <4>2
    <3> HIDE DEF l, w
    <3> QED BY <3>1, <3>2, FontSizes DEF Columns
  <2> QED BY <1>1, <2>1, <2>2, <2>3, Zenon
<1>9. \A text \in MenuTexts : Rows(TextBox(text)) = Row(text) .. Row(text) + FontHeight - 1
  BY BoxFields, Zenon DEF Rows
<1>10. \A bar \in screen, text \in Texts :
         bar.what = "bar" => IF text.what = "title" THEN Rows(text) = Rows(bar)
                             ELSE Rows(text) \cap Rows(bar) = {}
  <2> SUFFICES ASSUME NEW bar \in screen, NEW box \in Texts, bar.what = "bar"
               PROVE  IF box.what = "title" THEN Rows(box) = Rows(bar) ELSE Rows(box) \cap Rows(bar) = {}
    BY Zenon
  <2>1. bar = Bar
    <3>1. ASSUME NEW text \in MenuTexts, bar = TextBox(text) PROVE FALSE
      <4>1. text = "bar"
        BY <3>1, BoxFields, Zenon
      <4> QED BY <4>1 DEF MenuTexts
    <3>2. ASSUME bar \in Frame(2) PROVE FALSE
      <4>1. bar.what = "line"
        BY <3>2, FrameLines, Zenon
      <4> QED BY <4>1
    <3> QED BY <1>1, <3>1, <3>2, Zenon
  <2>2. Rows(bar) = 0 .. 0 + FontHeight - 1
    BY <2>1, BoxFields, Zenon DEF Rows
  <2>3. PICK text \in MenuTexts : box = TextBox(text)
    BY <1>3, Zenon
  <2>4. box.what = text /\ Rows(box) = Row(text) .. Row(text) + FontHeight - 1
    BY <1>9, <2>3, BoxFields, Zenon
  <2>5. (text = "title" => Row(text) = 0) /\ (text # "title" => Row(text) >= FontHeight) /\ Row(text) \in Int
    BY FontSizes DEF Row, MenuTexts, MenuFits
  <2> DEFINE r == Row(text)
  <2>6. CASE text = "title"
    BY <2>2, <2>4, <2>5, <2>6, Zenon
  <2>7. CASE text # "title"
    <3>1. r >= FontHeight /\ r \in Int /\ Rows(box) = r .. r + FontHeight - 1
      BY <2>4, <2>5, <2>7, Zenon
    <3> HIDE DEF r
    <3>2. Rows(box) \cap Rows(bar) = {}
      BY <2>2, <3>1, FontSizes
    <3> QED BY <2>4, <2>7, <3>2, Zenon
  <2> QED BY <2>6, <2>7
<1>11. \A text, other \in Texts : text.what \notin Notes /\ other # text => Rows(text) \cap Rows(other) = {}
  <2> SUFFICES ASSUME NEW one \in Texts, NEW other \in Texts, one.what \notin Notes, other # one
               PROVE  Rows(one) \cap Rows(other) = {}
    BY Zenon
  <2>1. PICK e \in MenuTexts : one = TextBox(e)
    BY <1>3, Zenon
  <2>2. PICK text \in MenuTexts : other = TextBox(text)
    BY <1>3, Zenon
  <2>3. text # e /\ e \notin Notes
    BY <2>1, <2>2, BoxFields, Zenon
  <2>4. Rows(one) = Row(e) .. Row(e) + FontHeight - 1 /\ Rows(other) = Row(text) .. Row(text) + FontHeight - 1
    BY <1>9, <2>1, <2>2, Zenon
  <2>5. Row(e) + FontHeight <= Row(text) \/ Row(text) + FontHeight <= Row(e)
    BY <2>3, FontSizes DEF Row, MenuTexts, MenuFits, Notes
  <2>6. Row(e) \in Int /\ Row(text) \in Int
    BY FontSizes DEF Row, MenuTexts
  <2> DEFINE r == Row(e)
             s == Row(text)
  <2>7. /\ Rows(one) = r .. r + FontHeight - 1 /\ Rows(other) = s .. s + FontHeight - 1
        /\ r + FontHeight <= s \/ s + FontHeight <= r
        /\ r \in Int /\ s \in Int
    BY <2>4, <2>5, <2>6, Zenon
  <2> HIDE DEF r, s
  <2> QED BY <2>7, FontSizes
<1>12. \E entry \in Entries :
         /\ UNION {Rows(l) : l \in Lines} = Rows(entry)
         /\ UNION {Columns(l) : l \in Lines} = 0 .. Width - 1
         /\ \A text \in Texts \ {entry} : \A l \in Lines : Rows(text) \cap Rows(l) = {}
  <2> DEFINE entry == TextBox("custom")
             top == Box("line", 0, FontHeight * 2, Width, 1)
             bottom == Box("line", 0, FontHeight * 3 - 1, Width, 1)
             side == Box("line", 0, FontHeight * 2, 1, FontHeight - 1)
  <2>1. entry \in Entries /\ Rows(entry) = 2 * FontHeight .. 2 * FontHeight + FontHeight - 1
    <3>1. Row("custom") = 2 * FontHeight
      BY DEF Row
    <3> QED BY <1>2, <1>5, <1>9, <3>1, Zenon
  <2>2. \A l \in Lines : Rows(l) \subseteq Rows(entry) /\ Columns(l) \subseteq 0 .. Width - 1
    <3> SUFFICES ASSUME NEW l \in Lines PROVE Rows(l) \subseteq Rows(entry) /\ Columns(l) \subseteq 0 .. Width - 1
      OBVIOUS
    <3>1. l \in screen
      BY DEF Lines
    <3>2. Rows(l) \subseteq Rows(entry)
      <4>1. \/ l.y = FontHeight * 2 /\ l.h = 1
            \/ l.y = FontHeight * 3 - 1 /\ l.h = 1
            \/ l.y = FontHeight * 2 /\ l.h = FontHeight - 1
        BY <1>4, FrameLines, Zenon
      <4> DEFINE first == l.y
                 high == l.h
      <4>2. Rows(l) = first .. first + high - 1 /\ Rows(entry) = 2 * FontHeight .. 2 * FontHeight + FontHeight - 1
        BY <2>1, Zenon DEF Rows
      <4>3. \/ first = FontHeight * 2 /\ high = 1
            \/ first = FontHeight * 3 - 1 /\ high = 1
            \/ first = FontHeight * 2 /\ high = FontHeight - 1
        BY <4>1, Zenon
      <4> HIDE DEF entry, first, high
      <4> QED BY <4>2, <4>3, FontSizes
    <3> QED BY <1>8, <3>1, <3>2, Zenon
  <2>3. top \in Lines /\ bottom \in Lines /\ side \in Lines
    <3>1. FontHeight * (2 + 1) - 1 = FontHeight * 3 - 1
      BY FontSizes
    <3> QED BY <1>4, <3>1, Zenon DEF Frame
  <2>4. /\ Rows(top) = FontHeight * 2 .. FontHeight * 2 + 1 - 1 /\ Columns(top) = 0 .. 0 + Width - 1
        /\ Rows(bottom) = FontHeight * 3 - 1 .. FontHeight * 3 - 1 + 1 - 1
        /\ Rows(side) = FontHeight * 2 .. FontHeight * 2 + (FontHeight - 1) - 1
    BY DEF Rows, Columns, Box
  <2>5. UNION {Columns(l) : l \in Lines} = 0 .. Width - 1
    <3>1. Columns(top) = 0 .. Width - 1
      <4> HIDE DEF top
      <4> QED BY <2>4, FontSizes
    <3> HIDE DEF top
    <3> QED BY <2>2, <2>3, <3>1, Zenon
  <2>6. UNION {Rows(l) : l \in Lines} = Rows(entry)
    <3> HIDE DEF top, bottom, side, entry
    <3>1. Rows(entry) \subseteq Rows(bottom) \cup Rows(side) \cup Rows(top)
      BY <2>1, <2>4, FontSizes
    <3> QED BY <2>2, <2>3, <3>1, Zenon
  <2>7. \A text \in Texts \ {entry} : \A l \in Lines : Rows(text) \cap Rows(l) = {}
    <3>1. entry \in Texts /\ entry.what \notin Notes
      <4>1. entry.what = "custom" /\ "custom" \notin Notes
        BY <1>2, BoxFields DEF Notes
      <4> QED BY <2>1, <4>1, Zenon DEF Entries
    <3>2. \A text \in Texts \ {entry} : Rows(entry) \cap Rows(text) = {}
      BY <1>11, <3>1, Zenon
    <3> QED BY <2>2, <3>2, Zenon
  <2> QED BY <2>1, <2>5, <2>6, <2>7, Zenon
<1>13. Entries # {}
  BY <1>5, Zenon
<1>14. \A box \in screen : box.what \notin Notes => Rows(box) \subseteq 0 .. Height - 1
  <2> SUFFICES ASSUME NEW box \in screen, box.what \notin Notes PROVE Rows(box) \subseteq 0 .. Height - 1
    BY Zenon
  <2> DEFINE first == box.y
             high == box.h
  <2>1. Rows(box) = first .. first + high - 1
    BY Zenon DEF Rows
  <2>2. first \in Nat /\ high \in Nat /\ first + high <= 80 + FontHeight
    <3>1. CASE box = Bar
      <4>1. first = 0 /\ high = FontHeight
        BY <3>1, BoxFields, Zenon
      <4> HIDE DEF first, high
      <4> QED BY <4>1, FontSizes
    <3>2. CASE box \in Frame(2)
      <4>1. \/ first = FontHeight * 2 /\ high = 1
            \/ first = FontHeight * 3 - 1 /\ high = 1
            \/ first = FontHeight * 2 /\ high = FontHeight - 1
        BY <3>2, FrameLines, Zenon
      <4> HIDE DEF first, high
      <4> QED BY <4>1, FontSizes DEF MenuFits
    <3>3. ASSUME NEW text \in MenuTexts, box = TextBox(text)
          PROVE  first \in Nat /\ high \in Nat /\ first + high <= 80 + FontHeight
      <4>1. first = Row(text) /\ high = FontHeight /\ text \notin Notes
        BY <3>3, BoxFields, Zenon
      <4>2. Row(text) \in Nat /\ Row(text) <= 80
        BY <4>1, FontSizes DEF Row, MenuTexts, MenuFits, Notes
      <4> HIDE DEF first, high
      <4> QED BY <4>1, <4>2, FontSizes
    <3> QED BY <1>1, <3>1, <3>2, <3>3, Zenon
  <2>3. Height \in Nat
    BY LcdDemoAssumption
  <2> HIDE DEF first, high
  <2> QED BY <2>1, <2>2, <2>3, FontSizes DEF MenuFits
<1> QED BY <1>6, <1>7, <1>8, <1>10, <1>11, <1>12, <1>13, <1>14, Zenon DEF MenuShown

(* While the buttons are scanned and after the custom item, whichever way  *)
(* the program came there, the display is lit, out of reset and deselected;*)
(* title, entries and answer are whole, inside the display and clear of    *)
(* every other text, and the frame goes exactly round one entry; the note  *)
(* below has all its glyphs, within the width.  For every display and font *)
(* with that room, as the source's 160 by 128 and 8 by 13 have.            *)
THEOREM MenuCorrect == ASSUME MenuFits PROVE Spec => []MenuShown
<1>1. Spec => []MenuInv
  BY MenuInit, MenuStep, PTL DEF Spec
<1>2. MenuInv => MenuShown
  BY MenuGeometry, Zenon DEF MenuShown
<1> QED BY <1>1, <1>2, PTL

=============================================================================
