# Ibex Demo System: specifications, checks and proofs

The repository holds a small system on chip around the Ibex RISC-V core (`src/rtl/system`), a
variant of it with two extra registers (`src/custom`), the vendored parts it is built from, and the
C and Rust programs that run on it. This directory models its bus, its serial peripherals, the
drivers that use them and three of the C programs in TLA+, checks instances of them with TLC and
proves the safety of everything modelled for every value of the parameters: the FIFO all the
peripherals share, the bus, both halves of the UART, the SPI host with the display, the timer and its
driver, `hello_world`, the LCD demo and the poly1305 demo.

Everything in hardware moves on one clock, so a module of a hardware component has one operator per
combinational signal, named as in the source, and one `...Edge` operator that moves all its
registers. A module that composes components takes one step per clock edge: every part moves, and
software does at most one bus access in it. The modules of whole programs (`HelloWorld`, `LcdDemo`,
`Poly1305`) have no clock: a step is an access, a call or a phase of a computation, and what the
hardware does in between is an action of its own.

## Inventory

| Part | State | Operations | What is hard | What makes it correct |
|---|---|---|---|---|
| FIFO (`prim_fifo_sync`) | two pointers with a wrap bit, storage, reset flag | push, pop, both at once, reset | depth 127 is no power of two; full and empty look alike; first cycle after reset | it is a bounded queue |
| UART receiver | synchroniser, baud counter, state, byte, FIFO | clock edge, register reads | asynchronous line against a free-running counter; glitches, broken frames; FIFO full | sound frames arrive once, in order, nothing else does |
| UART transmitter | baud counter, state, byte, FIFO | clock edge, register writes | back-to-back frames; status read cycles before the write | bytes are heard whole, once, in order |
| SPI host | serial clock, shifter, FIFO | clock edge, register writes | pop derived from the edge of a slow level; STOP parks while the FIFO is empty | bytes go out once, in order, under the right DC/CS |
| UART, SPI, LCD drivers | program counters | polling loops | acting on stale status, no timeouts | calls return, nothing is dropped |
| bus | who was selected last cycle | arbitrate, decode, route the answer | pipelined: an answer and the next request share a cycle; strict priority; default device | everyone gets his own answer, none starves |
| load-store unit | state machine, first error | aligned and split accesses | the second part is requested while the first is answered | both answers in order, one verdict |
| debugger bus access | state machine, sbcs, sbaddress | DMI reads and writes | busy and error states, autoincrement, low priority | takes the answer of the word it addressed |
| instruction port | pending fetch, instructions fetched ahead, source of the answer | fetch | shares the debug memory's only port with the bus | each fetch gets its own word |
| timer and `timer.c` | mtime, mtimecmp, interrupt, time_elapsed | register accesses, handler | 64 bits in halves; carry between them; sticky interrupt | no early and no lost interrupt; reads that existed |
| `hello_world` and `demo_system.c` | main loop, two handlers, vectors, enables, lights | print, echo, tick, install, mask | handler and main share the UART; wfi after a test; a jump put together from fields; interrupts on during start-up | output is not mixed up; every tick and character is dealt with; interrupts reach their handlers |
| LCD demo | menu, time-out, place in a picture, output pins | boot, menu, scan, draw | running sums over 20480 pixels, clamped products, unsigned time-out, rows in two units | each pixel is its point in its colour; the menu is inside the display and clear of the note; the default comes in time |
| poly1305 demo | context of words and a buffer | init, update, final | carries, two-pass reduction, a masked subtraction, any cut into updates | the tag is the polynomial's, whatever the cut |
| GPIO, debounce, PWM, `myreg`, `rst_ctrl` | small registers and counters | register accesses, buttons, PLL lock | counts off by one, limits moved below counts, hold and release orders | stated per component |
| debug run control | flags between `dm_csrs`, `dm_mem` and the hart | halt, resume, commands | handshake through memory the hart executes | one command at a time, each answered |

Interactions: drivers reach peripherals by loads and stores through the load-store unit and the
bus; the debugger reaches the same devices through its own bus port; the core fetches from RAM and
from the debug memory; timer and UART interrupt the core.

## Modules

| Module | Models | State and actions |
|---|---|---|
| `BoundedQueue` | what an edge does to a FIFO, as its users see it | pure operators |
| `SyncQueue` | the promise of `prim_fifo_sync` | `queue`, `under_rst`; `Edge`, `Reset` |
| `PrimFifoSync` | `prim_fifo_sync`, `prim_fifo_sync_cnt` | pointers, storage; `ClockEdge`, `Reset`; refines `SyncQueue` |
| `SpiTop` | `spi_top`, `spi_host` (CPOL 0, CPHA 1) | registers of both; `ClockEdge` |
| `LcdSpi` | `SpiTop` with the LCD's `spi_write` and `gpio_write`, and the display | driver counter, pins, what the display took |
| `LcdSpi_proofs` | theorems about it | |
| `UartRx`, `UartTx` | the halves of `uart.sv` | registers; `RxEdge`, `TxEdge` |
| `UartReceive` | `UartRx` with a line and `uart_in` | frames, broken frames, glitches at any time, touching or not, each with a clock of its own; what arrived, what of it was kept and what dropped |
| `UartTransmit` | `UartTx` with `uart_out` and a listener | program counter, what was written and heard |
| `UartReceive_proofs` | theorems about `UartReceive` and about `PrimFifoSync` | |
| `UartTransmit_proofs` | theorems about `UartTransmit` | |
| `Bus` | `bus.sv` | `host_sel_resp`, `device_sel_resp`; `BusEdge` |
| `CoreLsu` | `ibex_load_store_unit` and its gating by ID | state machine; `LsuEdge`, `LsuReset` |
| `DmSba` | `dm_sba` and the registers that drive it | state machine, sbcs, sbaddress; `SbaEdge` |
| `SocBus` | `ibex_demo_system` around the bus | the three above, devices, instruction port, what the core has fetched, core reset |
| `SocBus_proofs` | theorems about it | |
| `Timer` | `timer.sv` | `mtime_q`, `mtimecmp_q`, `interrupt_q`; `TimerEdge` |
| `TimerDelay` | `Timer` with `timer.c`, the LCD demo's `timer_delay` and the core's interrupt entry | program counter, enable bits, elapsed time; one action per access |
| `TimerDelay_proofs` | theorems about it | |
| `HelloWorld` | `hello_world/main.c`, `demo_system.c`, and of `uart.c`, `timer.c`, `gpio.c`, `pwm.c` what it calls | where main is, which handler interrupts it, what each has still to send, enables, vectors, FIFOs, lights; one action per access or call |
| `HelloWorld_proofs` | theorems about it | |
| `LcdDemo` | `lcd_st7735/main.c`, `lcd.c`, the two `fractal_*.c` | screen as a set of boxes, pins, time-out, place in the picture; an action per phase, poll and pixel |
| `LcdDemo_proofs` | theorems about it | |
| `Poly1305` | `poly1305.c` and its `main.c` | the context, the rest of a chunk, the tag; an action per call, round and phase of `poly1305ProcessBlock` |
| `Poly1305_proofs` | theorems about it | |
| `MC...` | instances for TLC | |

A definition named after a faulty variant (its comment says so) is the mutated form of the
definition below it; no specification uses it. Each shows that one property notices that mistake.

The FIFOs inside `SpiTop`, `UartRx` and `UartTx` are the queues of `BoundedQueue`; `PrimFifoSync`
justifies that. What it adds, the closed ports in the first cycle after reset, cannot be seen there:
no program writes and no byte arrives in that cycle.

## Runs

| Run | Question | Bounds |
|---|---|---|
| `fifo` | is the ring buffer a bounded queue? | depth 3 (no power of two), two values, no limit on steps |
| `lcd_spi` | do bytes reach the display once, in order, under their DC/CS, and do calls return? | two-bit bytes, FIFO of 2, calls of 1 and 3 bytes, two calls |
| `lcd_spi_shift` | does data move on the rising edge, as the comment says? | as above; violated |
| `uart_rx` | which bytes arrive, and which does the program get? | 4 clocks per bit on both sides, two-bit bytes, FIFO of 1, three frames or glitches, no gap required |
| `uart_sampling` | are bits sampled off their edges, as the comment says? | violated |
| `uart_tx` | are bytes heard as written? | 3 clocks per bit, two-bit bytes, FIFO of 2, four bytes |
| `soc_bus` | does everyone get his own answer, and get it? | five words over three devices, four core operations, two of which the fetched instructions can hold, two fetch words, three sbcs settings, no limit on steps |
| `timer_delay` | is a delay ever too short, too long or endless? | words of 4 bits, ticks of 15 cycles, up to one stall per step, 150 cycles |
| `hello_world` | are lines whole, handlers entered, ticks and characters dealt with? | two characters, FIFOs of 2, one handler linked after its vector and one before it, words of two one-bit digits, two LEDs, two channels on three PWMs, brightness 0 to 2, three times |
| `poly1305` | is the tag right for every cut of the message? | words of two three-bit bytes (P = 2^26 - 5), five keys, chunks of 1, 7, 8, 9 and 17 bytes (a block has 8), three updates, stale bytes in the buffer |
| `lcd_demo` | is each pixel in place and of the right colour, are the menu's texts whole, inside the display and clear of the others, is the time-out kept? | none but the samples: the display, font, numbers, iterations and times of the source |
| `soc_bus_no_sim` | does every device answer, as the bus assumes? | the build without a simulation controller; violated |

Why the bounds are enough: a byte needs a first, an inner and a last bit transition, which two bits
and the start and stop bits give; four clocks per bit tell the tick, the middle and both edges of a
bit apart; the FIFOs are small so that they fill, drain and idle within a run, and depth 3 has the
wrap that 127 has. In `uart_rx` a signal may
follow the one before without a gap (`MinGap` is 0), as the frames of the repository's own transmitter
do, and three of them let a byte that finds the FIFO full come before one that finds room. At
four clocks per bit the sender's bits must be four clocks long too; that the bytes arrive from one with
a faster or slower clock is proved (`OnlySentCorrect`), that they all arrive is checked for the equal
clock only. The bus runs have
no history longer than one operation, so nothing in them is cut off. Their core operations are an access to the
debug memory and the three split ones: an error in the second part, one in the first, and both
parts in the debug memory.

`FetchServed` rests on a bound of the program, which `ahead` models: an operation is an instruction that
was fetched, so while a fetch waits the core can start only as many as the prefetch buffer and the ID stage
hold, then leaves the bus. In the source that is seven (three words of two compressed
instructions, and one in ID); `Ahead` is 2 in the runs, the fewest with which one follows another while a
fetch waits. The arbiter alone would not serve the fetch: without the bound, TLC finds two cycles of a
split access to the debug memory and one of the debugger's in turn for ever. No other property
depends on `Ahead`, and the theorems hold for each.

`hello_world` has as many characters as fill a FIFO of two and make the handler wait behind what
main sent; the texts, whose length does not matter to who may interrupt, are one character each;
digits, LEDs, channels and brightness are few but more than one, so that each loop goes round and
wraps. Between them the two links need every field of the jump, its sign included. `Tick` can come at most
once between two sleeps of main, since a tick is 5000000 cycles and a turn of the loop, which sends
some fifty characters, is far less.

`poly1305` keeps the proportions that the arithmetic needs: P has two bits more than four words, and
there are at least three cleared bits at the top of a word of r. That margin is what makes the columns fit:
the fifth word of the accumulator is up to five when a block has been added, and the code drops the
carry of the highest product. The source clears four. One of the keys has r = 1, with which the
accumulator passes P and the last subtraction is needed. The run may end, as `main` does
(`CHECK_DEADLOCK FALSE`).

`lcd_demo` draws both pictures whole. TLC stops when an integer leaves 32 bits, so the run also
shows that no product of `fractal_fixed.c` overflows. The floating-point picture has the same
points, since all its coordinates are multiples of 1/64 that a float holds exactly; its iteration
counts are any of a small set.

`timer_delay` is a safety run: `DelayNotLong` bounds
the end of a delay in cycles, which says more than that it ends, and needs no fairness. Its ticks
are as short as the assumption `DelayAssumption` allows (the core must get on between two ticks; in
the source a tick is 50000 cycles), since only then a tick can come between the test and `wfi`
without another source of delay; mtime stops at the bound, before it wraps, which in hardware takes
thousands of years.

Fairness: weak fairness of the clock edge in every run that checks liveness, since the clock never
stops; in the driver runs also of each step of a started call, since the core runs on between bus
accesses (hello_world's masked sections and the LCD demo run with no handler that keeps the core
for ever). No fairness is assumed of the line, of a program's wish to call, or of the debugger.
`hello_world` assumes weak fairness of the program (the core goes on, and an interrupt that is due
is taken), of the transmitter's draining its FIFO and of the timer's tick, none of typing: the
handler can be kept busy only as long as somebody types.
In `SocBus` the clock's fairness is written `[]<><<TRUE>>_vars`, which is equal to weak fairness of
`Next` because some step that changes the state is always enabled.

## What the violated runs show

- `uart_sampling`: `uart.sv` gives the tick of the free-running counter priority over a start edge,
  so a frame that begins in the cycle of a tick is sampled at the edges of its bits, against the
  comment above the assignment. What this costs is said by `slipped` in `OnlySentBytes` and `FramesArrive`:
  after such a start edge a faster sender's bits are sampled too late, and of two touching
  frames from a sender as fast the second is missed, its start edge coming before the receiver is back in
  `IDLE`. The repository's own transmitter sends such frames. From then on the two properties say
  nothing; in every other case (a gap of one cycle, a slower clock, another phase) they hold, and
  without the exception TLC finds both violated.
- `lcd_spi_shift`: with CPHA = 1 the outgoing bit changes on the falling edge, not on the rising
  edge as the comment says. The display, which takes bits on the falling edge as the old level is
  still there, is served right (`lcd_spi`).
- `soc_bus_no_sim`: outside Verilator the simulation controller's window is decoded but nobody
  answers it; `sim_halt` never returns from its store.

## Seen while modelling the programs

No property claims otherwise.

- "When LEDs are off cycle through the colors" (`hello_world/main.c:93`) is not quite what is seen: `color`
  moves on after the round that set the dimmest width, and in the next one each module gets its new counter
  before its width becomes zero. For the time between two writes, or of a handler, it shows the new
  colour at that width. `ColourChangesDim` says that it is never more than one module, nor a brighter width.
- The menu's frame is drawn round its second entry, "1. Custom", while the text below says that item
  0 is the default (`lcd.c:12,29`, `lcd_st7735/main.c:103`): the frame marks a fixed row.
- The second line of that text is placed at row 118 and its font is 13 rows high, three more than
  are left; those rows have no ink. It also covers the last row of the first line, which cuts the
  descender of "g" in "Defaulting".
- Two buttons held together match no case of the menu, which is then drawn again.
- `hello_world`: a tick that comes between the test of the elapsed time and `wfi` is printed with
  the next wake-up (`TickPrinted` holds because ticks go on).
- A tick that comes while interrupts are masked, and characters that find both FIFOs full, wait or
  are dropped as the hardware has it; the echo itself loses nothing.

## Proofs

Every theorem holds for every value of the constants that the named assumption of its module allows;
TLC evaluates each assumption on the instances above. Each safety invariant is proved from an inductive
one that was first checked as an invariant of a small instance. What each of these says that the
property does not:

The FIFO, in `UartReceive_proofs` (any depth above zero, any data; `FifoAssumption`):

- `FifoTypeCorrect`, `OrderCorrect`: `PointersOrdered` alone is not inductive, since with unequal wrap
  bits the step from a full buffer must be excluded by `wready_o`; the invariant is `FifoInv`, with the types;
- `FlagsCorrect`, from the lemma `Occupancy`, which reads the number of entries off the pointers;
- `FifoImplementsQueue`: `FifoSpec => Queue!Spec`, where the queue is the `depth_o` entries from the
  read pointer on. `EdgeSimulates` shows a clock edge to be an edge of the queue, entry by entry.

These stand beside the receiver's because its `rx_fifo` is such a queue; neither half uses the
other's variables or constants.

`SocBus_proofs` (any words, windows, devices, core operations, fetches and sbcs settings, with
`BusAssumption`, `SocAssumption`, `SbaAssumption` where they are declared): `TypeCorrect`,
`LoadsCorrect`, `SbaCorrect`, `NoStrayCorrect`, `FetchCorrect`, `NextCycleCorrect`. One invariant carries them: what
a host is given in a cycle is what it was granted in the cycle before. `LoadInv` says which answer the
load-store unit awaits and which it has in each state, `SbaInv` that the debugger's machine waits
only while it is being answered. The invariant also shows that in this SoC the core never waits for
a grant, having priority and no device that refuses, so the states `WAIT_GNT*` are not reached. The
theorems have the hypothesis `Answered`, that each address of the map selects a device that is
there: true of the Verilator build, and of a synthesised one whose core keeps off the simulation
controller's window; without it `NextCycleResponse` fails, as `soc_bus_no_sim` shows.

The receiver, in `UartReceive_proofs` (any frame, FIFO, gap or none, and length of glitch; `UartReceiveAssumption`):

- `OnlySentCorrect`. The invariant `PhaseInv` ties the receiver to the line: either it has seen three
  cycles or more of the signal (`InStep`), and then slot and baud counter are the cycle of the signal, less
  the synchroniser and less half a bit *or nothing* (`Offset`), the two phases the start edge can leave; or
  the signal has ended up to three cycles before the tick of its last slot (`Closing`), which then samples
  what the synchroniser still holds. `SampleTime` shows that the next tick falls into the sender's slot of
  the same number, whatever the phase and the clock, so that it finds that slot's value (`Sampled`), and
  `Ends` that the receiver is back in time for the next signal unless this one slips. `OrderInv`
  adds up what has arrived and what is in the receiver or on the line;
- `ReadCorrect` holds with or without a slip. It needs only that `uart_in` pops a byte that is there
  (`FetchInv`); `BooksOn` enters each byte that arrives as kept or as dropped;
- `TypeCorrect`.

The assumption on the sender's clock is the tolerance of the protocol and no more: the middle of the stop
bit, by the receiver's count, must be within the sender's (`Drift` derives the same for every earlier
slot). A bit is at least four cycles, as the synchroniser takes three. Glitches must be shorter
than a bit less half a bit rounded down: a longer one can still be there when the start bit is confirmed.
A frame whose stop bit is low is followed by an idle cycle at least, else nothing would mark the next start.

`UartTransmit_proofs` (any frame, FIFO and number of bytes): `TypeCorrect`, `HeardCorrect`. The
invariant adds up what was heard, the byte in flight and the FIFO (`OrderInv`), keeps the
listener and the transmitter at the same cycle of the frame (`FrameInv`, with the shift register's
bits), and says that a status that showed room still tells the truth when the byte is written (`RoomInv`).

`LcdSpi_proofs` (any byte width, serial clock, FIFO and strings; `LcdSpiAssumption`): `TypeCorrect`,
`TakenCorrect`, `ReceivedCorrect` and the action property `PinsCorrect`. `FrameInv` relates the two
shift registers, one going out and one coming in, to the byte of the display at each level of
the serial clock; `PinsInv` says that every byte not yet taken was sent under the pins as they are;
`DriverInv` that the driver moves them only once the FIFO is empty and the byte before it out.

`TimerDelay_proofs` (any width, Increment, delays and stalls within `DelayAssumption`):

- `TicksCorrect`, `SleeperCorrect`, `TypeCorrect`, from `DelayInv`: `ReadInv` says what the halves
  read so far tell of mtime, wherever it carries, and `TickInv` how far mtimecmp is from the last
  tick counted. The assumption keeps mtime from wrapping, and two carries out of the low word
  further apart than one `timer_read`;
- `DelayCorrect` by a second layer, `LateInv`, with the time each step of main and of the handler may at most
  have reached. `DelayNotLong` allows for the worst of both: each tick is late by the handler's way to
  its read of mtime, the last by two handlers.

`HelloWorld_proofs` (any place of the handlers within 2^19 bytes, any sizes, digits of one to four
bits as glyphs have; `HelloAssumption`):

- `InterruptsCorrect`. `JumpArrives` shows for all even offsets of 20 bits that the fields of the
  jump add up to the offset again; `VectorInv` says that an interrupt is enabled only when its
  vector is installed or about to be, phase by phase of the start-up;
- `ColoursCorrect`, an action property: by `ColourInv` the modules the loop has reached show the
  colour with the width of the brightness, and the others do too unless the brightness has just become
  zero, when they are at the dimmest width;
- `OutputCorrect`: what has been sent and what is still to send are together main's line or an
  echo, main prints with interrupts off (`HandlerInv`), and room seen in the FIFO is still there
  (`RoomInv`);
- `TypeCorrect`.

`LcdDemo_proofs` (any display, font, time-out and samples; `LcdDemoAssumption`):

- `DefaultCorrect`, by `ScanInv`: what is left of the time-out and what was waited add up to it;
- `PixelsCorrect`: `PictureInv` relates the pixels sent and the running sums to the two loop
  counters (`Raster`), which the property does not mention; `RasterIsPoint` gets the counters back
  from the number of pixels by division;
- `ClampCorrect`, with the hypothesis `Headroom` that a number has three bits above the one of its
  fixed point (15 and 12 in the source) and that the palette has a colour for the last count.
  `PointsInPicture` bounds the samples, `SameStep` shows that a square not yet past the escape radius
  leaves room for the next sum, so that `FpClamp` returns its argument, and `SameIters` that the two
  loops, unrolled, agree round by round;
- `MenuCorrect`, with the hypothesis `MenuFits` that the longest text fits beside its margin, three
  rows of text above row 80, and a row of text between that and both the note and the foot of the
  display (149 of 160 pixels, 39 of 80, and 93 of 106 and of 128, in the source): `MenuInv` says what is
  drawn and lit in each phase, `TextFits` that every text has all its glyphs. The two lines of the note
  are not claimed to keep clear of each other or of the foot of the display: they do not.

`Poly1305_proofs` (words and bytes of any size, any keys, chunks and number of updates;
`PolyAssumption`): `TagIsCorrect`, `ContextCorrect`, `TypeCorrect`. The proof has two halves.

The arithmetic is shown to be that of the integers. `LittleEndian` is what digits are together;
`LittleSplit`, `LittleBound` and `LittleStored` say how such numbers are cut, bounded and taken
apart, `ChainSum` that carrying keeps them as long as no double word overflows (`ChainRoom`). Then:

- `AddRight`: the block, its one and the accumulator add up, and the fifth word is at most 5;
- `ProductWords`, `ProductValue`, `MultiplyRight`: the twenty terms fit their columns and the columns their
  double words, with the carries; this is what `TopClear` and the bound 5 are for;
- `FirstPassRight`, `SecondPassRight`: each pass takes away a multiple of P; after the first at
  most 6 is left in the fifth word, and after the second the value is below 2^130 (in the source), by one subtraction of P
  at most, so the carry out of 130 bits that the code cuts off is none;
- `SelectedValue`: the carry of a + 5 into bit 130 tells whether P goes into a;
- `RoomyDoubles`, `LeastDoubles`: what carries and cuts make of double words is double words again, from
  which `TypeCorrect` has the widths of r and of the accumulator (`WidthInv`);
- `TimesRight`: `TimesModP`, which TLC can evaluate, is multiplication modulo P.

The invariant `Inv` follows the message through them. `CutInv` says that the message is the blocks in the
accumulator, then the bytes in the buffer, then what is left of the chunk; `AccInv` says for each place of
`poly1305ProcessBlock` which number modulo P the accumulator is and within which words; `KeyInv` that r
and s are the key's until they are cleared; `OutInv` what the tag and its digits are. A longer message leaves
its first blocks as they were (`PartialSame`), so an update in the middle of a block disturbs nothing.

The induction theorems of the library take the property as an operator, which the provers here cannot
instantiate. `Induction`, in the proofs of the LCD and of the poly1305 demo, states it of a set of numbers
instead, and follows from the least element of a set (`Least`, from the library's `WFMin`);
`Recursion` makes a function from a step. Both loops of `fractal_fixed.c` are such functions
(`RoundsExist`), and so are `LittleEndian`, `Carried`, `Partial` and `TimesModP`. The library
says nothing of powers either: `PowerNext` and `PowerSum` are counted out on the subsets of a set.

Only model-checked: all liveness (fairness and ENABLED are out of the prover's reach). Every
invariant and action property of the runs that pass is proved. No module declares a recursive operator.

## Not modelled

The processor pipeline and the vendored debug transport (verified or maintained upstream), the
FPGA tops, simulation harness and scripts (wiring and I/O). Of the display driver, command scripts,
addresses and glyphs. `polygen.c` is a program for the host that no build file names. The logo is
data. The data of the debugger's accesses and the contents of memories are abstracted to which
device answered for which word. The texts main prints in the poly1305 demo, and its cycle counts.

Hazards left out of the list because no text of the repository says what should happen, or because
they are out of reach of its programs: a data access to no window goes to the RAM (`bus.sv:72`); a
failed debugger access reads as done (`dm_top.sv:180`); a fetch from a device is never granted
(`ibex_demo_system.sv:221`); `time_elapsed` is read in two loads (`timer.c:46`, 49 days of the
shortest tick); `set_output_bit` is no atomic update (`gpio.c:19`; no handler writes the pins).

## Plan

1. Board: `rst_ctrl` with its debouncer, GPIO, PWM, `myreg` and the expectations of `myreg-test`.
2. Debug run control: `dm_csrs`, `dm_mem` and the hart in the debug ROM.
3. Proofs: the board's components as they come.
