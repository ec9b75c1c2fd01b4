------------------------------ MODULE Poly1305 ------------------------------
(***************************************************************************)
(* The poly1305 demo: a message authenticated piece by piece, with the     *)
(* double-word arithmetic of poly1305.c. Word, byte and block sizes are    *)
(* constants; everything else, the order of carries, cuts and passes, is   *)
(* that of the code.                                                       *)
(***************************************************************************)
EXTENDS Integers, Sequences

CONSTANTS
  WordBits,   \* 32 in the source
  ByteBits,   \* 8 in the source
  TopClear,   \* bits cleared at the top of each word of r: 4 in the source
  DigitBits,  \* bits of a digit that is shown: 4 in the source
  LowClear,   \* bits cleared at the bottom of all but the first: 2 in the source
  Keys,       \* sequences of the eight words of a key
  Chunks,     \* what one update may pass: sequences of bytes
  MaxUpdates, \* updates of a message: 3 in main
  Junk        \* bytes the buffer, on main's stack, may hold at first

Bytes == WordBits \div ByteBits   \* of a word
Block == 4 * Bytes
Byte == 0 .. 2^ByteBits - 1
Word == 0 .. 2^WordBits - 1
DoubleWord == 0 .. 2^(2 * WordBits) - 1

\* The columns of the product fit in double words, and the top one in a word: the
\* accumulator has up to five in its fifth word.
ASSUME PolyAssumption ==
  /\ ByteBits \in Nat \ {0}
  /\ WordBits \in Nat /\ WordBits % ByteBits = 0 /\ WordBits > 2 + TopClear
  /\ TopClear \in Nat \ 0 .. 2 /\ LowClear \in Nat
  /\ DigitBits \in Nat /\ 2 * DigitBits >= ByteBits
  /\ Keys \subseteq [1 .. 8 -> Word] /\ Junk \subseteq Byte
  /\ Chunks \subseteq Seq(Byte) \ {<< >>}
  /\ MaxUpdates \in Nat

VARIABLES pc,            \* where main is
          r, s, a, buffer, size,   \* the context
          data,          \* what is left of the chunk in poly1305Update
          tag, shown,    \* the bytes of the tag, the digits put out for it
          key, message, updates    \* history: the key, the bytes passed, in how many updates

context == <<r, s, a, buffer, size>>
outVars == <<tag, shown>>
vars == <<pc, context, data, outVars, key, message, updates>>

-----------------------------------------------------------------------------
(* Words of double words.                                                  *)

Low(n) == n % 2^WordBits
High(n) == n \div 2^WordBits
Cut(n) == n % 2^(2 * WordBits)
Two(n) == n % 4                       \* n & 0x03
AboveTwo(n) == Low(n) - Two(n)        \* n & 0xFFFFFFFC

\* What n digits of so many bits, the lowest first, are together.
LittleEndian(bits, digits, from, n) ==
  LET value[m \in 0 .. n] ==
        IF m = 0 THEN 0 ELSE value[m - 1] + digits[from + m - 1] * 2^(bits * (m - 1))
  IN  value[n]

\* LOAD32LE.
LoadWord(bytes, from) == LittleEndian(ByteBits, bytes, from, Bytes)

\* STORE32LE: byte i of a word.
Stored(n, i) == (n \div 2^(ByteBits * i)) % 2^ByteBits

\* Each word up to top gets the carry of the one below, which keeps its own.
Carried(x, top) ==
  LET c[i \in DOMAIN x] == IF i \in 1 .. top THEN Cut(x[i] + High(c[i - 1])) ELSE x[i]
  IN  [i \in DOMAIN x |-> c[i]]

\* 130 bits are left.
LeastSignificant(x) ==
  [i \in DOMAIN x |-> CASE i < 4 -> Low(x[i]) [] i = 4 -> Two(x[i]) [] i > 4 -> x[i]]

-----------------------------------------------------------------------------
(* poly1305ProcessBlock, called with the block in the buffer, from         *)
(* poly1305Update when it is full and from poly1305Final when it is not.   *)

InBlock(here, there, accumulator) ==
  /\ pc = here /\ pc' = there
  /\ a' = accumulator
  /\ UNCHANGED <<r, s, data, outVars, key, message, updates>>

\* size bytes, a one and zeros.
Padded == [i \in 0 .. Block |-> CASE i < size -> buffer[i] [] i = size -> 1 [] i > size -> 0]

\* The block is added to five words of the accumulator.
AddBlock ==
  /\ InBlock("add", "multiply",
       LET word(i) == IF i < 4 THEN LoadWord(Padded, i * Bytes) ELSE Padded[Block]
       IN  Carried([i \in 0 .. 7 |-> IF i <= 4 THEN Cut(a[i] + word(i)) ELSE a[i]], 4))
  /\ buffer' = Padded /\ UNCHANGED size

\* The columns of the product, five words by four.
Multiply ==
  /\ InBlock("multiply", "first pass",
       LET product(i, k) == IF k - i \in 0 .. 3 THEN Low(a[i]) * r[k - i] ELSE 0
           column(k) == product(0, k) + product(1, k) + product(2, k) + product(3, k) + product(4, k)
       IN  Carried([k \in 0 .. 7 |-> Cut(column(k))], 7))
  /\ UNCHANGED <<buffer, size>>

\* What is above 130 bits is h * 2^130, which counts as h * 5: 4 * h and h.
FirstPass ==
  /\ InBlock("first pass", "second pass",
       LET h == [i \in 0 .. 3 |-> IF i = 0 THEN AboveTwo(a[4]) ELSE Low(a[4 + i])]
           shifted(i) == h[i] \div 4 + (IF i < 3 THEN Low(h[i + 1] * 2^(WordBits - 2)) ELSE 0)
           low == LeastSignificant(a)
       IN  Carried([i \in 0 .. 7 |-> IF i < 4 THEN Cut(low[i] + h[i] + shifted(i)) ELSE low[i]], 4))
  /\ UNCHANGED <<buffer, size>>

\* Where the caller goes on: poly1305Update empties the buffer.
Return ==
  /\ size' = IF size = Block THEN 0 ELSE size
  /\ UNCHANGED buffer
Caller == IF size = Block THEN "update" ELSE "tag"

\* Faulty variant of SecondPass: one pass is taken to be enough.
SecondPassSkipped == InBlock("second pass", Caller, LeastSignificant(a)) /\ Return

SecondPass ==
  /\ InBlock("second pass", Caller,
       LET h == AboveTwo(a[4])
           low == LeastSignificant(a)
       IN  LeastSignificant(Carried([low EXCEPT ![0] = Cut(@ + h + h \div 4)], 4)))
  /\ Return

ProcessBlock == AddBlock \/ Multiply \/ FirstPass \/ SecondPass

-----------------------------------------------------------------------------
(* The three calls.                                                        *)

Clamped(i, word) ==
  LET top == word % 2^(WordBits - TopClear)
  IN  IF i = 0 THEN top ELSE top - (top % 2^LowClear)

Poly1305Init(k) ==
  /\ pc = "key" /\ pc' = "blocks"
  /\ r' = [i \in 0 .. 3 |-> Clamped(i, k[i + 1])]
  /\ s' = [i \in 0 .. 3 |-> k[i + 5]]
  /\ a' = [i \in 0 .. 7 |-> 0] /\ size' = 0
  /\ key' = k
  /\ UNCHANGED <<buffer, data, outVars, message, updates>>

Poly1305Update(chunk) ==
  /\ pc = "blocks" /\ pc' = "update" /\ updates < MaxUpdates
  /\ data' = chunk
  /\ updates' = updates + 1 /\ message' = message \o chunk
  /\ UNCHANGED <<context, outVars, key>>

\* A round of the loop.
UpdateRound ==
  LET n == IF Len(data) < Block - size THEN Len(data) ELSE Block - size
  IN  /\ pc = "update" /\ data # << >>
      /\ pc' = IF size + n = Block THEN "add" ELSE "update"
      /\ buffer' = [i \in 0 .. Block |-> IF i \in size .. size + n - 1 THEN data[i - size + 1] ELSE buffer[i]]
      /\ size' = size + n
      /\ data' = SubSeq(data, n + 1, Len(data))
      /\ UNCHANGED <<r, s, a, outVars, key, message, updates>>

UpdateDone ==
  /\ pc = "update" /\ data = << >> /\ pc' = "blocks"
  /\ UNCHANGED <<context, data, outVars, key, message, updates>>

Poly1305Final ==
  /\ pc = "blocks" /\ pc' = IF size # 0 THEN "add" ELSE "tag"
  /\ UNCHANGED <<context, data, outVars, key, message, updates>>

\* Faulty variant of Selected: the mask as wide as the accumulator, which keeps the carries.
SelectedWide ==
  LET plus == Carried([a EXCEPT ![0] = Cut(@ + 5)], 4)
      past == (plus[4] \div 4) % 2 = 1
  IN  [i \in 0 .. 7 |-> CASE i < 4 /\ past -> plus[i] [] i < 4 /\ ~past -> Low(a[i]) [] i >= 4 -> plus[i]]

\* The accumulator, or with 5 added when that takes it past 2^130. The inverted
\* mask is a word too: it cuts the carries off.
Selected ==
  LET plus == Carried([a EXCEPT ![0] = Cut(@ + 5)], 4)
      past == (plus[4] \div 4) % 2 = 1
  IN  [i \in 0 .. 7 |-> CASE i < 4 /\ past -> Low(plus[i]) [] i < 4 /\ ~past -> Low(a[i]) [] i >= 4 -> plus[i]]

\* The rest of poly1305Final. It leaves size and buffer as they are.
Tag ==
  /\ pc = "tag" /\ pc' = "show"
  /\ LET sum == Carried([i \in 0 .. 7 |-> IF i < 4 THEN Cut(Selected[i] + s[i]) ELSE Selected[i]], 4)
     IN  tag' = [k \in 0 .. Block - 1 |-> Stored(Low(sum[k \div Bytes]), k % Bytes)]
  /\ a' = [i \in 0 .. 7 |-> 0]
  /\ r' = [i \in 0 .. 3 |-> 0] /\ s' = [i \in 0 .. 3 |-> 0]
  /\ UNCHANGED <<buffer, size, data, shown, key, message, updates>>

\* Two digits of each byte, the upper one first.
ShowBlock ==
  /\ pc = "show" /\ pc' = "wait"
  /\ shown' = [j \in 1 .. 2 * Block |->
                 (tag[(j - 1) \div 2] \div (IF j % 2 = 1 THEN 2^DigitBits ELSE 1)) % 2^DigitBits]
  /\ UNCHANGED <<context, data, tag, key, message, updates>>

\* After its last output main waits and stops the simulation.
SimHalt ==
  /\ pc = "wait" /\ pc' = "done"
  /\ UNCHANGED <<context, data, outVars, key, message, updates>>

-----------------------------------------------------------------------------

Init ==
  /\ pc = "key"
  /\ r = [i \in 0 .. 3 |-> 0] /\ s = [i \in 0 .. 3 |-> 0] /\ a = [i \in 0 .. 7 |-> 0]
  /\ \E byte \in Junk : buffer = [i \in 0 .. Block |-> byte]
  /\ size = 0 /\ data = << >> /\ tag = [k \in 0 .. Block - 1 |-> 0] /\ shown = << >>
  /\ key = << >> /\ message = << >> /\ updates = 0

Next ==
  \/ \E k \in Keys : Poly1305Init(k)
  \/ \E chunk \in Chunks : Poly1305Update(chunk)
  \/ UpdateRound \/ UpdateDone \/ Poly1305Final \/ ProcessBlock
  \/ Tag \/ ShowBlock \/ SimHalt

Spec == Init /\ [][Next]_vars
-----------------------------------------------------------------------------
(* What the functions compute, in integers modulo P. Blocks are read as the*)
(* comment in poly1305ProcessBlock says: little-endian, with one more bit. *)

P == 2^(4 * WordBits + 2) - 5
Number(x, n) == LittleEndian(WordBits, x, 0, n)
BlockNumber(block) == LittleEndian(ByteBits, block, 1, Len(block)) + 2^(ByteBits * Len(block))

\* x * y modulo P, three bits of y at a time, which keeps TLC's integers in range.
TimesModP(x, y) ==
  LET times[v \in Nat] == IF v = 0 THEN 0 ELSE (8 * times[v \div 8] + x * (v % 8)) % P
  IN  times[y]

Piece(bytes, k) == SubSeq(bytes, (k - 1) * Block + 1, IF k * Block < Len(bytes) THEN k * Block ELSE Len(bytes))

\* Of the first n blocks, and of all, the last of which may be short.
Partial(bytes, multiplier, n) ==
  LET after[k \in 0 .. n] ==
        IF k = 0 THEN 0 ELSE TimesModP((after[k - 1] + BlockNumber(Piece(bytes, k))) % P, multiplier)
  IN  after[n]

Polynomial(bytes, multiplier) == Partial(bytes, multiplier, (Len(bytes) + Block - 1) \div Block)

Taken == SubSeq(message, 1, Len(message) - Len(data))

(***************************************************************************)
(* However the message is cut into updates, the tag that is shown, byte by *)
(* byte from the lowest, is the polynomial of its blocks at r, fully       *)
(* reduced, plus s, to 128 bits. The last step of the reduction is the     *)
(* subtraction of P that Final does without a branch.                      *)
(***************************************************************************)
TagCorrect ==
  pc = "done" =>
    LET multiplier == Number([i \in 0 .. 3 |-> Clamped(i, key[i + 1])], 4)
        sum == Polynomial(message, multiplier) + Number([i \in 0 .. 3 |-> key[i + 5]], 4)
        bytes == [k \in 0 .. Block - 1 |-> shown[2 * k + 1] * 2^DigitBits + shown[2 * k + 2]]
    IN  LittleEndian(ByteBits, bytes, 0, Block) = sum % 2^(4 * WordBits)

(***************************************************************************)
(* Between blocks, and whatever the buffer held before, the buffer has the *)
(* bytes of the incomplete block and room for the next; the accumulator is *)
(* within 130 bits, in words that leave room for the next sum and product, *)
(* and stands for the polynomial of the complete blocks: two passes are    *)
(* enough, and no carry leaves a double word on the way.                   *)
(***************************************************************************)
ContextFollows ==
  pc \in {"blocks", "update"} =>
    /\ size = Len(Taken) % Block
    /\ \A i \in 0 .. size - 1 : buffer[i] = Taken[Len(Taken) - size + i + 1]
    /\ \A i \in 0 .. 3 : a[i] \in Word
    /\ a[4] \in 0 .. 3
    /\ Number(a, 5) % P = Polynomial(SubSeq(Taken, 1, Len(Taken) - size), Number(r, 4))

=============================================================================
