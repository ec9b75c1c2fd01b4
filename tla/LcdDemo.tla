------------------------------- MODULE LcdDemo -------------------------------
(***************************************************************************)
(* The LCD demo above its drivers: boot, menu, the scan of the buttons and *)
(* the two pictures of the Mandelbrot set.  A driver call is one step or   *)
(* part of one (LcdSpi has what spi_write and gpio_write do with the       *)
(* hardware, TimerDelay what timer_delay does).  Points of the plane are   *)
(* fixed-point numbers with FP_EXP fraction bits; the floating-point       *)
(* picture visits the same points, and counts any number of iterations.    *)
(***************************************************************************)
EXTENDS Integers, FiniteSets

CONSTANTS
  Width, Height,         \* pixels of the display: 160 and 128 in the source
  FontWidth, FontHeight, \* pixels of a glyph: 8 and 13 in the source
  FP_EXP, FP_MANT,       \* fraction bits and magnitude bits of a number: 12 and 15
  MaxIters,              \* iterations of a point: 50 in the source
  FloatIters,            \* iteration counts the floating-point picture can come to
  Timeout, PollDelay,    \* of scan_buttons, in milliseconds: 3000 and 20 in the source
  Pressed                \* what the buttons can show

ASSUME LcdDemoAssumption ==
  /\ {Width, Height, FontWidth, FontHeight, FP_MANT, MaxIters, PollDelay} \subseteq Nat \ {0}
  /\ FP_EXP \in Nat \ {0, 1}
  /\ (5 * 2^(FP_EXP - 1)) % Width = 0 /\ 2^(FP_EXP + 1) % Height = 0
  /\ FloatIters \subseteq 0 .. MaxIters
  /\ Timeout \in Nat
  /\ Pressed \subseteq 0 .. 15

VARIABLES
  pc,             \* where main and the functions it calls are
  gpio_out,       \* the output pins
  screen,         \* what was drawn since the display was cleaned
  timeout,        \* of scan_buttons
  waited,         \* history: milliseconds waited in scan_buttons, until a picture starts
  defaulted,      \* history: scan_buttons returned its default
  x, y, cur_p,    \* of the picture under way
  sent, pixel     \* history: pixels sent since the window was set; the last of them

pictureVars == <<x, y, cur_p, sent, pixel>>
scanVars == <<timeout, waited, defaulted>>
vars == <<pc, gpio_out, screen, scanVars, pictureVars>>

LcdCsPin == 0
LcdRstPin == 1
LcdDcPin == 2
LcdBlPin == 3

SetOutputBit(pins, output_bit_index, output_bit) == [pins EXCEPT ![output_bit_index] = output_bit]

GpioWrite(pins, cs, dc) == SetOutputBit(SetOutputBit(pins, LcdDcPin, dc), LcdCsPin, cs)

Goto(from, to) == pc = from /\ pc' = to

-----------------------------------------------------------------------------
(* Text. A box is what a call covers; a text is cut where its next glyph   *)
(* would cross the right edge.                                             *)
strlen == [booting |-> 10, title |-> 9, fractal |-> 10, custom |-> 9,
           default |-> 18, after |-> 17, button |-> 16]

Box(what, left, top, width, height) == [what |-> what, x |-> left, y |-> top, w |-> width, h |-> height]

Puts(text, left, top) ==
  LET room == (Width - left) \div FontWidth
  IN Box(text, left, top, FontWidth * (IF room < strlen[text] THEN room ELSE strlen[text]), FontHeight)

Aligned(text, alignment) ==
  LET right == Width - strlen[text] * FontWidth
  IN CASE alignment = "left" -> 0
       [] alignment = "center" -> right \div 2
       [] alignment = "right" -> right

Println(text, alignment, row) == Puts(text, Aligned(text, alignment), row * FontHeight)

items == <<"fractal", "custom">>

\* Faulty variant of Frame: the bottom line is drawn in the row below the item.
FrameLow(selected) ==
  {Box("line", 0, FontHeight * selected, Width, 1),
   Box("line", 0, FontHeight * (selected + 1), Width, 1),
   Box("line", 0, FontHeight * selected, 1, FontHeight - 1),
   Box("line", Width - 1, FontHeight * selected, 1, FontHeight - 1)}

Frame(selected) ==
  {Box("line", 0, FontHeight * selected, Width, 1),
   Box("line", 0, FontHeight * (selected + 1) - 1, Width, 1),
   Box("line", 0, FontHeight * selected, 1, FontHeight - 1),
   Box("line", Width - 1, FontHeight * selected, 1, FontHeight - 1)}

LcdShowMenu ==
  {Box("bar", 0, 0, Width, FontHeight), Println("title", "center", 0)}
  \cup {Println(items[i], "left", i) : i \in DOMAIN items}
  \cup Frame(2)

-----------------------------------------------------------------------------
(* Boot.                                                                   *)
Boot ==
  /\ Goto("boot", "reset")
  /\ gpio_out' = SetOutputBit(SetOutputBit(SetOutputBit(SetOutputBit(gpio_out,
                   LcdDcPin, 0), LcdBlPin, 1), LcdCsPin, 0), LcdRstPin, 0)
  /\ UNCHANGED <<screen, scanVars, pictureVars>>

EndReset ==
  /\ Goto("reset", "splash")
  /\ gpio_out' = SetOutputBit(gpio_out, LcdRstPin, 1)
  /\ UNCHANGED <<screen, scanVars, pictureVars>>

Splash ==
  /\ Goto("splash", "menu")
  /\ gpio_out' = GpioWrite(gpio_out, 1, 1)
  /\ screen' = {Box("logo", (Width - 105) \div 2, 5, 105, 80), Println("booting", "center", 7)}
  /\ UNCHANGED <<scanVars, pictureVars>>

-----------------------------------------------------------------------------
(* The menu and the buttons.                                               *)
ShowMenu ==
  /\ Goto("menu", "scan")
  /\ gpio_out' = GpioWrite(gpio_out, 1, 1)
  /\ screen' = LcdShowMenu \cup {Puts("default", 5, 106), Puts("after", 5, 118)}
  /\ timeout' = Timeout /\ waited' = 0 /\ defaulted' = FALSE
  /\ UNCHANGED pictureVars

Chosen(in_val) == CASE in_val = 1 -> "float_start" [] in_val = 2 -> "custom" [] OTHER -> "menu"

Press(in_val) ==
  /\ in_val # 0
  /\ Goto("scan", Chosen(in_val))
  /\ timeout' = 0 /\ waited' = 0
  /\ UNCHANGED <<gpio_out, screen, defaulted, pictureVars>>

\* Faulty variant of Decreased: twice what was waited is taken off.
DecreasedTwice(ms) == ms - 2 * PollDelay

Decreased(ms) == ms - PollDelay

Poll(in_val) ==
  /\ in_val = 0
  /\ timeout >= PollDelay
  /\ Goto("scan", "scan")
  /\ timeout' = Decreased(timeout) /\ waited' = waited + PollDelay
  /\ UNCHANGED <<gpio_out, screen, defaulted, pictureVars>>

Default(in_val) ==
  /\ in_val = 0
  /\ timeout < PollDelay
  /\ Goto("scan", Chosen(1))
  /\ timeout' = 0 /\ waited' = waited + PollDelay /\ defaulted' = TRUE
  /\ UNCHANGED <<gpio_out, screen, pictureVars>>

ScanButtons == \E in_val \in Pressed : Press(in_val) \/ Poll(in_val) \/ Default(in_val)

Custom ==
  /\ Goto("custom", "custom_shown")
  /\ gpio_out' = GpioWrite(gpio_out, 1, 1)
  /\ screen' = screen \cup {Puts("button", 5, 80)}
  /\ UNCHANGED <<scanVars, pictureVars>>

(* timer_delay after a picture or the custom item: what was drawn stays.   *)
Delay ==
  /\ \/ Goto("custom_shown", "menu")
     \/ Goto("float_shown", "fixed_start")
     \/ Goto("fixed_shown", "menu")
  /\ UNCHANGED <<gpio_out, screen, scanVars, pictureVars>>

-----------------------------------------------------------------------------
(* Fixed-point numbers.                                                    *)
MAKE_FP(i, f, f_bits) == i * 2^FP_EXP + f * 2^(FP_EXP - f_bits)

\* Faulty variant of FpClamp: one magnitude bit fewer.
FpClampNarrow(n) ==
  IF n < -(2^(FP_MANT - 1)) THEN -(2^(FP_MANT - 1))
  ELSE IF n >= 2^(FP_MANT - 1) THEN 2^(FP_MANT - 1) - 1
  ELSE n

FpClamp(n) ==
  IF n < -(2^FP_MANT) THEN -(2^FP_MANT)
  ELSE IF n >= 2^FP_MANT THEN 2^FP_MANT - 1
  ELSE n

FpAdd(a, b) == FpClamp(a + b)
FpMul(a, b) == FpClamp((a * b) \div 2^FP_EXP)

AbsSq(c) == FpMul(c.real, c.real) + FpMul(c.imag, c.imag)

CmplxMul(c1, c2) ==
  [real |-> FpAdd(FpMul(c1.real, c2.real), -FpMul(c1.imag, c2.imag)),
   imag |-> FpAdd(FpMul(c1.real, c2.imag), FpMul(c1.imag, c2.real))]

CmplxAdd(c1, c2) == [real |-> FpAdd(c1.real, c2.real), imag |-> FpAdd(c1.imag, c2.imag)]

Complex == [real : Int, imag : Int]

\* The loop with so many iterations left.
MandelIters(c) ==
  LET from[left \in Nat] ==
        [iter_val \in Complex |->
           LET i == MaxIters - left
           IN  IF i > 0 /\ AbsSq(iter_val) > MAKE_FP(4, 0, 0) THEN i - 1
               ELSE IF left = 0 THEN MaxIters
               ELSE from[left - 1][CmplxAdd(CmplxMul(iter_val, iter_val), c)]]
  IN from[MaxIters][c]

\* Floating-point arithmetic is not modelled: any count the loop can end with.
MandelItersFloat == FloatIters

\* The indices of the palette; a pixel is known by its index.
rgb_iters_palette == 0 .. 50

-----------------------------------------------------------------------------
(* The pictures: every pixel of every row, from the top left corner.       *)
LeftEdge == -MAKE_FP(1, 3, 2)
TopEdge == MAKE_FP(1, 0, 0)
RealInc == (5 * 2^(FP_EXP - 1)) \div Width
ImagInc == 2^(FP_EXP + 1) \div Height

StartPicture(from, to) ==
  /\ Goto(from, to)
  /\ gpio_out' = GpioWrite(gpio_out, 0, 1)
  /\ screen' = {}
  /\ x' = 0 /\ y' = 0 /\ cur_p' = [real |-> LeftEdge, imag |-> TopEdge]
  /\ sent' = 0
  /\ waited' = 0 /\ defaulted' = FALSE
  /\ UNCHANGED <<timeout, pixel>>

\* Faulty variant of NextRow: the row starts where the last one ended.
NextRowUnreset(p) == [real |-> p.real + RealInc, imag |-> p.imag - ImagInc]

NextRow(p) == [real |-> LeftEdge, imag |-> p.imag - ImagInc]

PutPixel(where, iters) ==
  /\ pc = where /\ y < Height
  /\ pixel' = iters /\ sent' = sent + 1
  /\ IF x < Width - 1
     THEN x' = x + 1 /\ cur_p' = [cur_p EXCEPT !.real = @ + RealInc] /\ UNCHANGED y
     ELSE x' = 0 /\ y' = y + 1 /\ cur_p' = NextRow(cur_p)
  /\ UNCHANGED <<pc, gpio_out, screen, scanVars>>

FinishPicture(from, to) ==
  /\ y = Height
  /\ Goto(from, to)
  /\ gpio_out' = GpioWrite(gpio_out, 1, 1)
  /\ UNCHANGED <<screen, scanVars, pictureVars>>

FractalFloat ==
  \/ StartPicture("float_start", "float")
  \/ \E iters \in MandelItersFloat : PutPixel("float", iters)
  \/ FinishPicture("float", "float_shown")

FractalFixed ==
  \/ StartPicture("fixed_start", "fixed")
  \/ PutPixel("fixed", MandelIters(cur_p))
  \/ FinishPicture("fixed", "fixed_shown")

Init ==
  /\ pc = "boot"
  /\ gpio_out = [pin \in 0 .. 7 |-> 0]
  /\ screen = {}
  /\ timeout = 0 /\ waited = 0 /\ defaulted = FALSE
  /\ x = 0 /\ y = 0 /\ cur_p = [real |-> 0, imag |-> 0]
  /\ sent = 0 /\ pixel = 0

Next ==
  \/ Boot \/ EndReset \/ Splash \/ ShowMenu
  \/ ScanButtons \/ Custom \/ Delay
  \/ FractalFloat \/ FractalFixed

Spec == Init /\ [][Next]_vars

-----------------------------------------------------------------------------
(* Properties.                                                             *)

\* The point of the plane that pixel n of a picture, counted along the rows, stands for.
PointOf(n) == [real |-> LeftEdge + RealInc * (n % Width), imag |-> TopEdge - ImagInc * (n \div Width)]

\* The display fills its window row by row, so the point a picture is at must be the one of
\* the next place in the window, the display selected and taking data meanwhile; a picture
\* that is shown has every pixel and no more, and leaves the display deselected.
PixelsInPlace ==
  /\ pc \in {"float", "fixed"} =>
       /\ gpio_out[LcdCsPin] = 0 /\ gpio_out[LcdDcPin] = 1 /\ gpio_out[LcdRstPin] = 1
       /\ cur_p = PointOf(sent)
  /\ pc \in {"float_shown", "fixed_shown"} => sent = Width * Height /\ gpio_out[LcdCsPin] = 1

\* Iterations until a point leaves the disc of radius two, with numbers of any magnitude.
ExactIters(c) ==
  LET scaled(n) == n \div 2^FP_EXP
      from[left \in Nat] ==
        [z \in Complex |->
           LET i == MaxIters - left
           IN  IF i > 0 /\ scaled(z.real * z.real) + scaled(z.imag * z.imag) > 4 * 2^FP_EXP THEN i - 1
               ELSE IF left = 0 THEN MaxIters
               ELSE from[left - 1][[real |-> scaled(z.real * z.real) - scaled(z.imag * z.imag) + c.real,
                                    imag |-> 2 * scaled(z.real * z.imag) + c.imag]]]
  IN from[MaxIters][c]

\* fp_clamp cuts the squares of a point that has escaped, and the colours must not show it:
\* each pixel of the fixed-point picture has the count of an iteration without clamps, and
\* no count, that of a point that never escapes included, is past the palette.
ClampInvisible ==
  pc = "fixed" /\ sent > 0 => pixel = ExactIters(PointOf(sent - 1)) /\ pixel \in rgb_iters_palette

\* "Defaulting to item 0 after 3 seconds": scan_buttons falls back on its default when no
\* button was seen for its timeout, and at most one poll later.
DefaultInTime ==
  /\ pc = "scan" => waited <= Timeout
  /\ defaulted => waited \in Timeout .. Timeout + PollDelay

Rows(box) == box.y .. box.y + box.h - 1
Columns(box) == box.x .. box.x + box.w - 1
Texts == {box \in screen : box.what \in DOMAIN strlen}
Notes == {"default", "after"}
Entries == {box \in Texts : \E i \in DOMAIN items : box.what = items[i]}
Lines == {box \in screen : box.what = "line"}

\* While the buttons are scanned and after the custom item was chosen, the display is lit,
\* out of reset and deselected; every text has all its glyphs; the menu, with the answer to
\* the custom item, is inside the display and has its rows to itself; the title fills the
\* bar; the frame goes exactly round one entry. Of the two lines of the note below only the
\* glyphs and columns are claimed: the second is drawn over the last row of the first, and
\* leaves the display at the bottom.
MenuShown ==
  pc \in {"scan", "custom_shown"} =>
    /\ gpio_out[LcdBlPin] = 1 /\ gpio_out[LcdRstPin] = 1 /\ gpio_out[LcdCsPin] = 1
    /\ \A text \in Texts : text.w = FontWidth * strlen[text.what]
    /\ \A box \in screen : Columns(box) \subseteq 0 .. Width - 1
    /\ \A box \in screen : box.what \notin Notes => Rows(box) \subseteq 0 .. Height - 1
    /\ \A text, other \in Texts :
         text.what \notin Notes /\ other # text => Rows(text) \cap Rows(other) = {}
    /\ Entries # {}
    /\ \A bar \in screen, text \in Texts :
         bar.what = "bar" => IF text.what = "title" THEN Rows(text) = Rows(bar)
                             ELSE Rows(text) \cap Rows(bar) = {}
    /\ \E entry \in Entries :
         /\ UNION {Rows(l) : l \in Lines} = Rows(entry)
         /\ UNION {Columns(l) : l \in Lines} = 0 .. Width - 1
         /\ \A text \in Texts \ {entry} : \A l \in Lines : Rows(text) \cap Rows(l) = {}
=============================================================================
