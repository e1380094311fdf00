# Verification of the bare-metal runtime

This directory holds TLA+ models of the code under `src/`: a small freestanding
C library (`libc/`), device support (`libsys/`) and five bootable demos (`os/`):
`rm16` (real mode), `pm32` (protected mode), `lm64`, `vga` and `vesa` (long
mode).  The models are checked with TLC on small instances, and what matters
most is proved with TLAPS for every instance.

## 1. The system

| Component | Source | State | Operations |
|---|---|---|---|
| Heap allocator | `libc/stdlib.c` | `program_break`, `freeptr`, the circular free list in the block headers | `malloc`, `free`, `morecore`, `brk`, `sbrk` |
| Interrupt set-up and delivery | `libc/crt0.c`, `libsys/interrupt.c`, `os/lm64/src/main.c`, `os/lm64/src/isr.asm`, `libc/crt1.asm`, `os/pm32/src/intsetup.c`, `os/pm32/src/handlers.asm` | IDT, the limit in the IDTR, CPU interrupt flag, 8259 mask/request/in-service registers | `PIC_OffsetIRQ`, `PIC_MaskAllIRQ`, `PIC_UnmaskIRQ`, `_init_IDT`, `InstallISRs`, `EnableInterrupts`, the handlers |
| System timer | `libsys/timer.c`, `libc/crt1.asm` | `system_time` | `SetIntervalTimer`, timer handler, `usleep`, `Beep` |
| Keyboard driver | `libsys/conio.c`, `libsys/kbd_US.c` | `vkbd` (modifier bits and prefix state), `keyboard_buffer`, `kbbuf_in`, the controller's output buffer | `ScanKeyboard`, `KeyboardHandlerM`, `ScanCodeToASCII` |
| Text console | `libsys/conio.c` | screen memory, the CRTC's index and cursor registers | `WriteText`, `ScrollText`, `ClearText`, cursor calls |
| Serial port and stdio | `libsys/serial.c`, `libc/stdio.c` | UART line status, FIFOs | `COM_*`, `getc`, `fputc`, `fputs`, `puts` |
| Real-time clock | `libsys/time.c` | CMOS index and time registers | `RTC_GetTime` |
| Drawing and random points | `libsys/vgadraw.c`, `libsys/lfbdraw.c`, `os/vga/src/main.c`, `os/vesa/src/main.c`, `rand_r` of `libc/stdlib.c` | frame buffer, its width, the seed | `DrawLine`, `LFB_DrawLine`, `LFB_Init`, `SetPixel`, `rand_r` |
| Demo programs | `os/*/src/main.c`, `libc/crt0.c` | none of their own | the loop that reads a key and answers it, the commands, the VESA lists, the page table dump |
| Boot and paging | `os/*/src/*.asm`, `include/asm/*.asm` | page tables, GDT, memory map | loaders, mode switch, `_init_page_tables` |
| CPU exceptions | `libc/crt1.asm`, `include/asm/x86_64.asm`, `libsys/x86.c` | the stack frame of the trap | `trap`, `traperr`, register dumps |
| Strings and numbers | `libc/string.c`, `libc/stdlib.c` | none | `itoa`, `ltoa`, `atoi`, `atol`, `memcpy`, ... |

The parts meet in few places.  `main` runs with interrupts on and is
interrupted by the timer handler (which only advances `system_time`) and the
keyboard handler (which reads the controller, moves the `vkbd` machine, stores
a character and writes it to the console).  `usleep` in `main` waits for what
the timer handler does.  `malloc`, the serial port and the drawing code run in
`main` only; the console is written by `main` before the keyboard interrupt is
unmasked and by its handler after.

The behaviours that are hard: the order in which the IDT, its limit, the PIC
masks and the interrupt flag are set up; what an interrupt does to a register
pair `main` is half-way through; interrupts lost because an edge or a byte was
already pending; the free list after arbitrary sequences of `malloc` and
`free`; scan-code prefixes; and the arithmetic edges of lines, times, sizes and
number conversions.

## 2. The heap allocator (`Heap`, `AbstractHeap`, `HeapProofs`)

`Heap.tla` counts memory in units of `sizeof(Header)`.  `nxt` and `size` are the
two fields of a header at each unit; `base` is the static anchor; the C locals
(`nunits`, `prevptr`, `currptr`, `insertp`, `currp`) are variables.  Each
iteration of the loop of `malloc` (`MallocExact`, `MallocSplit`, `MallocNext`,
`MallocGrow`, `MallocNull`) and of `free` (`FreeWalk`, `FreeInsert`) is a step;
`GrowInsert` is the end of the `free` that `morecore` calls, where `malloc`'s
search goes on in a list that has changed.

`AbstractHeap.tla` is the promise: blocks in disjoint memory, the break moves
only when no contiguous run of free memory is long enough, `NULL` only while
there is no heap.  `Heap` implements it (`AbsSpec`).

Bounds: `MaxBreak` caps the break, and `MayAsk` lets the program ask only for
what fits below it.  The C code has no such limit: `sbrk()` cannot fail and would
move the break into the stack, which no program of the repository comes near.  A
heap of nine units with requests of 1, 2, 3 and 5 units and `NALLOC = 3` reaches
every split, every merge with none, one or both neighbours, growth that merges
and growth that does not, and `NULL`.  A program that got `NULL` calls `brk()`
before it tries again.

Fairness: weak fairness of `Step` only, the step of the call under way: the CPU
executes the next instruction of the one program there is.  Nothing is assumed
of the program's calls.

## 3. Interrupts (`Interrupts`, `SharedCode`, `LongMode`, `ProtectedMode`, `RealMode`, `Discipline`, `InterruptsProofs`)

`Interrupts.tla` is the machine: the CPU's interrupt flag and IDT register, the
IDT in memory, the master 8259 (`imr`, `irr`, `isr`, the initialisation word it
waits for), the keyboard controller's one-byte buffer, `system_time` and the
cursor.  The code that runs on it is data: `LongMode.tla`, `ProtectedMode.tla`
and `RealMode.tla` spell `main`, the timer handler, the keyboard handler and the
exception stub of `lm64`, `pm32` and `rm16` as sequences of operations, with the
order of the source (`pm32` sends the EOI before it reads the byte, `lm64`
after; `pm32` unmasks both lines at once, `lm64` raises the limit of the IDT
later; `rm16` finds the PIC and the vectors set up by the BIOS, takes over vector
8 and masks and unmasks the timer's line on the commands `d` and `e`).  Its
keyboard stays with the BIOS.  `SharedCode.tla` holds what the builds share.  Every
operation is one action of `Interrupts`, and an interrupt may be delivered
between any two: `Deliver` is the INTA cycle, with the priority of the 8259 and
the gate's effect on the interrupt flag.  `WriteText` is its read and its write
of the cursor; that is where an interrupt could do harm.

Bounds: three key bytes (a make code that is echoed, a break code that is not,
and one more that comes while they are handled); a sleep of `USEC = 3` with ticks
of `TICK = 2`, of which it is not a multiple, as in the code; ticks and beeps
until `system_time` is 6 (`MaxTime`), and the ticks a sleep still waits for, so
that at least two sleeps follow each other.  The stack of interrupted code is not bounded; it
never holds more than three frames.  `EarlyKeys = FALSE` says that no byte
arrives between the boot loader's `cli` and `ICW1`; `interrupts_early_key` shows
what happens when one does.

`Discipline.tla` says what the properties rest on.  `Disciplined` is a condition on
the code alone: an interrupt handler sends its EOI on every path to its `iret`,
reads the controller once and takes what it read at once; an exception handler
that writes to the console turns interrupts off first; and an abstract
execution of `main`'s set-up (`SetUp`: the masks, gates and limit known before each
operation) finds, wherever interrupts may be on, every line that may be unmasked
with its gate present, within the limit loaded, and not writing to the console
while `main` does.  The code of the three builds is disciplined: TLC evaluates
the condition as part of `IInv`, so a build whose code is changed has to pass it
again.  The theorems are about every code that is.

Fairness: weak, of the code that runs (`Program`), of delivery (`Interrupt`: a
CPU with interrupts on takes a request before its next instruction), of the PIT
(`Tick`) and of the controller's next byte (`LoadByte`).  Nothing is assumed of
the person (`Type`, `MenuBeep`, `MenuFault`).

## 4. Keyboard (`Keyboard`, `KeyboardProofs`)

`KeyboardHandlerM()` takes one byte at a time from `wire`: `TakeControl` is the
cases of its `switch`, `TakeChar` the default case with `ScanCodeToASCII()`, the
ring buffer and the echo.  `Press` and `Release` are the keyboard, which sends
the bytes of scan code set 1, and record what the typist meant: `down`, `locks`,
`text` and, of it, the characters that are `visible`.

Bounds: twelve keys stand for every case of the switch and of the priority
among Shift, Ctrl, Caps Lock and Num Lock; five events are a modifier, a lock, a
prefix and two characters; a buffer of two wraps.  The handler takes the bytes
of one event before the next begins; between interrupts they would only queue.
After the first `E0` the driver is in a state it never leaves (finding
`keyboard_prefix`), so what follows is checked, and proved, for Shift and Caps Lock
only.

## 5. Text console (`Console`, `ConsoleProofs`)

`PutChar` is an iteration of the loop of `WriteText()`, with the look-ahead at
the next character and the call of `ScrollText()`.  The specification it is
compared with is an endless page, the history variable `page`, that `Written`
extends by each character without knowing of rows or of a screen.
`DisplayShowsPage` says that between calls the display is the end of that page,
the cursor included.

Bounds: three columns, three rows, ten strings that end short of, at and past
the end of a line, as long as the page has at most ten cells when a call begins:
up to six lines, so that the display scrolls with full, empty and ended lines.
The proofs have no such bounds.

## 6. Terminal and programs (`Lines`, `Stream`, `Serial`, `Numbers`, `Scripts`, `Rtc`, `Demos`, `DemosProofs`, `StreamProofs`)

All five builds talk to a terminal at the serial port, through stdio.  The
modules build on each other:

* `Stream.tla` is the promise: what is printed arrives at the terminal once and
  in order, each line feed with a carriage return before it (`AsLines` in
  `Lines.tla`), one at a time on the line, and the keys typed are read in order as
  long as no more than `Capacity` wait.
* `Serial.tla` is the 16550 and `serial.c`.  Two of its ports mean two things,
  by the divisor latch bit (`Selects`), so the order of the seven writes of
  `COM_Init()` matters (`SentAsSetUp`).  A polling loop is the guard of what
  follows it.  `stdio.c` adds nothing to the `COM_` calls but the choice of
  stream.  `Demos` implements `StreamSpec` by the mapping `StreamOf`: what a call
  has yet to send is in the queue, and what the transmitter holds is on the line.
* `Numbers.tla` is `itoa`, `ltoa`, `strtr`, `atoi` and `atol`: `IntBits` and
  `LongBits` wide, so that the negation of the smallest number is itself.  `TwoTo`
  and `Digits` are recursive functions, not operators, so that they can be proved
  about; `TwoTo` is `^` for the provers, which know nothing of `^`.
* `Rtc.tla` is `RTC_GetTime()` against a clock that updates.  The clock is
  external: an update raises the flag, changes the registers one by one as far
  as the carry goes, and lowers the flag, at any speed.  `RTC_readTime` and
  `RTC_read` are one register access each.  The register formats are all four.
  Day, month and year are read and converted alike and are one register.
* `Scripts.tla` says what each program calls, from `_start()` to its loop
  (`Opening`), once round the loop (`Loop`) and for each command (`Answers`).
  A call that prints constant text is one item, whose wording does not matter;
  a call that formats a number is another.
* `Demos.tla` composes them: the program takes its script call by call, waits in
  each, is typed at and reads the clock, and the BIOS of `rm16` answers or
  fails, and lists any selection of its modes.

`DemosAssumption` says what the proofs need of the constants: the values an `int`
or a `long` has, a page table entry's address in 40 bits, and an `int` of seven
bits or more, as the clock prints up to 99.

`NumbersPrinted` reads back what was formatted: base 10 through `atoi()` and
`atol()`, sign and padding included, base 16 digit by digit, down to the width
of the field, page table entries with their flags, and the time of day as two
digits each.  `TimeWasShown` says that the time returned was one the clock
showed during the call.  `KeysAnswered`: a key that waits is read, and a key that
was read is answered and the next one asked for, unless an exception was asked
for (`lm64`'s `d` and `p`) or the mode list waits for a key.

Bounds: a FIFO of two instead of sixteen; ints of 16 and longs of 20 bits, with
values at the ends of their ranges and ones that need padding; five video
modes, so that the mode with index 4, where the list pauses, is among them; one
row of each page table; in `rm16` the keys `t` and `v`, since `e` and `d` print
constants and are in `Interrupts`; in the builds whose loop treats all keys alike
one key.  Minutes of three seconds and hours of two minutes, with the real 24
hours, from the last second before ten in the evening and before midnight (the
BCD carry of the hour, the carry into the day).  `MaxUpdates = 1`: a call takes
microseconds and updates are a second apart.  The clock's time and format are chosen when the answer to a key
begins and are not followed outside a call, and no key is typed within one:
it would change nothing before the next `getchar()`.
The loop of `RTC_GetTime()` is not claimed to end: nothing in the code bounds it.

Fairness: weak, of the program (`Program`: the CPU goes on), of the port
(`Port`: what is in the transmitter is sent; there is no flow control) and of a
clock update that has begun (`ClockUpdates`).  Nothing is assumed of who types,
nor of updates to begin.  `CHECK_DEADLOCK FALSE`: after an exception `lm64` halts
for good.

## 7. Lines and where they are stored (`Line`, `Drawing`, `DrawingProofs`)

`DrawLine()` and `LFB_DrawLine()` are the same algorithm; `StepX` and `StepY`
are iterations of its two loops.  `NearLine` compares each pixel with the exact
line, by products the code does not compute; `EndsAtTarget` is why its tests for
equality end the loops at the second point.

`Drawing.tla` adds where the pixels are stored, in the two demos that draw: the
points `vga` scatters with `rand_r()`, and the lines of `vesa`.  Neither
`SetPixel()` nor `LFB_DrawLine()` checks its coordinates.  `rand_r()` is the
composition of its result from the bits of three draws, any of them; which ones
come after which is arithmetic modulo 2^32 that decides no more than that.
`StoresInVideoMemory` is the promise: on the screen for `vga`, in the memory the
boot loader maps for `vesa`, whose lines end one column and one row beyond the
screen.

Bounds: a screen of 7 by 5 for `vga`, of 8 by 6 for `vesa` with one row and
column beyond it, lines between any two of these points, in all octants; three
draws of four, two and two values.  Fairness: weak, of the loop under way.  The
proofs are for every size of the screens, with 320 by 200, 1024 by 768, a window
of 4 M pixels and draws of 2048, 1024 and 1024 among them.

## 8. From the boot loader to a fault (`PageTables`, `EntryStubs`, `Startup`, `StartupProofs`)

`PageTables.tla` is what the loaders of `lm64`, `vga` and `vesa` write to their
page tables, iteration by iteration, in one module since the three share most
lines; `Translate` is the page walk of the CPU and `Meant` the memory map.  An
entry has a low half (frame, present) and a high half, because the code writes
the halves separately and often only one.  Sizes are constants
(`TablesAssumption` holds of the code's: 512 entries, eight tables, frames 4, 8,
0x28 and 0x30); TLC takes five entries and two tables, which keeps every
distance between tables different from every size.

`MapIsMeant` needs memory that held zero when the machine was switched on
(`before = Empty`) for what it says of all addresses: the loaders do not clear
the page tables, write only the low half of their entries and only one entry of
the APIC's table.  Its second part is what holds whatever memory held.
`LoaderInv` says why it holds: how far each loop has come (`Linked`, `Filled`,
`FbFilled`, `FbLinked`), that the registers agree with it (`RegistersOK`), which
builds go which way (`PathOK`), and what every entry of every table holds then
(`TablesOK`), with the high half of memory's first contents where the code writes
the low half only.

`EntryStubs.tla` runs the assembly stubs instruction by instruction, on
registers that hold kinds of values (what `rax` held in the program, an address
on the stack, ...).  A stub is the sequence of instructions its macros expand
to (`Alternately` for the pairs of a load and a store, or of a load and a push);
addresses are bytes, so the offsets of the save area are the code's.  A C
function called leaves scratch in the registers the compiler does not preserve
and below the stack pointer.

`StubsInv` says where the machine can be and what holds there: the program or a
stub before its `cli` (`Interruptible`), instruction `i` of the handler of an
interrupt (`InterruptedAt`), of `trap` or `traperr` (`TrappedAt`) or of a stub of
`pm32` (`FaultedAt`), or halted.  Each names the stack pointer, the registers
still untouched, the register whose value `rax` or `eax` carries, and the fields
of the save area that are filled.  Whatever the stub does, the program's stack
(`StackKept`), the frame of the exception (`FrameKept`) and what was printed
(`DumpKept`) stay.  `Startup.tla` composes the two: the loader runs,
then the program causes exceptions or is interrupted, or uses a null pointer,
which is translated by the tables the loader wrote.

Bounds: one program stack of two words at both alignments (`Homes`), every
vector with a gate.  Interrupts may come while the program runs or inside a
stub before its `cli`, without a limit; a stub begins again where it was.  In
`DumpShowsFault` the registers a stub is known to take wrongly are named
(`Mistaken`) and left out: the stubs of `trap` print their own RBP and, see
finding `startup_rax`, a wrong RAX; those of `pm32` their own ESP, and the
general protection fault's its own EBP.

Fairness: weak, of the loader and of the stub (the CPU goes on), and strong, of
a stub's `cli`: interrupts may delay it, but a handler is done in microseconds
and the next tick is milliseconds away.  Nothing is assumed of interrupts or of
the program.  `CHECK_DEADLOCK FALSE`: after `cli; hlt` the machine really stops.

## 9. The runs

| Run | Distinct states | What it shows |
|---|---|---|
| `heap` | 152 347 | the list is the ordered circle of all free blocks, the blocks tile the heap, no two free blocks touch, payloads fit, the break moves once and only when nothing fits, calls return, `AbstractHeap` is implemented, `IInv` holds |
| `interrupts` | 22 144 | the code of three builds is disciplined and `IInv` holds, every interrupt reaches its ISR, handlers do not nest, service ends, bytes are taken once and in order, nobody writes to the console between another's read and write of the cursor, `usleep()` is at most one tick short, beeps end, keys are handled |
| `interrupts_early_key` | violation of `KeysHandled` | a byte before `ICW1` leaves the keyboard dead |
| `keyboard` | 139 560 | modifier bits follow the keys, the buffer and the echo hold the text typed |
| `keyboard_prefix` | violation of `PrefixEnds` | `E0` is never left |
| `console` | 559 555 | nothing is stored outside the display, which shows the end of the page |
| `demos` | 65 027 | `IInv` holds, nothing is sent before the port is set up, stdio implements `Stream`, numbers and the time read back right, the time returned was shown during the call, every key is answered |
| `rtc_twelve` | violation of `TwelveOClock` | noon and midnight are twelve hours off in the twelve-hour setting |
| `drawing` | 18 791 | every pixel is within half a pixel, the line ends at the second point, every store is to video memory, calls return |
| `startup` | 15 716 | the map is the memory map, interrupted programs resume unchanged, exceptions call C aligned, dumps show the fault, name it, and the machine halts |
| `startup_alignment` | violation of `KeyboardCallAligned` | `lm64`'s keyboard stub calls C eight bytes off |
| `startup_rax` | violation of `DumpShowsRax` | RAX in the dump of a `trap` exception is padding |

Deadlock is checked where the system never stops (heap, console, rtc_twelve,
drawing).  In `interrupts`, `startup` and `demos` an exception halts the CPU, and
in `keyboard` the typist stops after `MaxEvents` events.

`IInv` of heap, console, interrupts, demos and startup includes their type
invariants, which have no run entry of their own.  `rtc_twelve` checks the clock by itself, as its property
fails without any update.

Each property has a mutant of the code in its module (`...NoEOI`, `...NoWrap`,
`...Low`, ...) that breaks it; `PROJECT.json` pairs them.

## 10. What is proved

TLAPS proves, for every value of the constants that satisfies the named
assumptions:

* **Heap** (`HeapAssumption`): `IInv` is inductive.  It is type correctness, which
  locals mean something when (`LocalsOK`), the list closed and in address order
  (`ListOK`), no memory before `brk()` (`NoHeapYet`), every unit in one block
  (`HeapTiled`), no adjacent free blocks (`Coalesced`) and what the search has
  learnt (`SearchOK`: the blocks passed are too small).  The properties checked
  are not inductive by themselves: that inserting a block keeps the tiling needs
  the order of the list, merging needs that neighbours on the list are
  neighbours in memory, and growing only when nothing fits needs `SearchOK`.
  `FreeListOrdered`, `HeapTiled`, `Coalesced`, `GrowOnlyWhenExhausted` and
  `GrowsOnce` follow.
* **Heap implements AbstractHeap**, and payloads fit, if the computation of units
  does not wrap `size_t` (`NoSizeWrap`): a request within `sizeof(Header)` of 2^64
  would.  A step of the allocator is a step of `AbstractHeap` or a stutter; the
  steps of the search stutter.
* **Console** (`ConsoleAssumption`): a line is full only before the line feed that
  ends it, so every store is in a cell of the line the cursor is on, for every
  display and every set of strings.  `DisplayShowsPage` speaks of the states between
  calls; in the middle of a string `IInv` says that the display shows the page from
  some line on, which is the first unless the last row is reached (`ShowsPage`), and
  that page and code agree on which line feed ends a full line (`FullAgrees`).
* **Line** (`LineAssumption`): `IInv` says what the decision variable is, twice the
  distance from the midpoint times the longer side, and bounds it; `NearLine`,
  `EndsAtTarget` and the type of the coordinates follow.  That a step keeps the
  invariant (`LineStep`) and that its pixels are in the box of the two points
  (`InBox`) are lemmas of one step, so that the proofs about `Drawing` can use them.
* **Drawing** (`LineAssumption`, `DrawingAssumption`): every step of `Drawing` is a
  step of `Line` or leaves it alone, so the line's invariant holds of the
  lines drawn; with it the invariant says which coordinates a call may be given and
  what the last store is.  `StoresInVideoMemory` follows for `vga` because a
  result of `rand_r()` is between 0 and `RAND_MAX`, so scaling by it does not
  leave the screen (`ScaledInside`), and for `vesa` because a line does not leave
  the box of its end points and the window is longer than the screen and one
  row and column more.  Were a draw one bit wider, the result could be negative
  (`rand_rWide`).
* **Interrupts** (`InterruptsAssumption`, `Disciplined`): `IInv` is inductive for every
  code that is disciplined, of any length and in any number of builds.  Every step
  leaves the frames below the running one alone and moves, pushes or pops one
  (`Shape`); what the abstract execution knows of `main`'s set-up holds of the
  machine (`SetUpHolds`); a handler runs with interrupts off, and each frame's
  saved flag is what the code below it may expect (`FlagsOK`); what is in service
  is the interrupt of the handler that runs and has not sent its EOI (`ServiceOK`);
  the cursor read is the cursor that is set (`ConsoleOK`); each byte is in one
  place (`BytesOK`); and the ticks since `usleep()` was called account for the time
  counted, with one that is pending or being counted (`SleepOK`).  The properties
  are not inductive without them: that an interrupt finds its gate needs
  `SetUpHolds` and what `SetUpOK` says of every point where interrupts are on;
  `ServiceEnds` needs that handlers are not interrupted, and that needs `FlagsOK`.
* **Clock** (`RtcAssumption`): `RtcInv` is inductive.  Updates change the seconds
  first, and fewer of them begin during a call than a minute has seconds, so two
  readings with the same seconds have none between them that changed the seconds.
  `ReadingOK` says of one reading that what follows the seconds is what they stood
  with, or a carry was on its way; `SameSeconds` says of the second reading that it
  repairs what the first read during a carry.  Neither the flag nor the comparison
  is enough alone.  That reading back a byte the clock wrote gives the number
  (`DecodedFacts`) is proved for all four formats.
* **Terminal and programs** (`SerialAssumption`, `ScriptsAssumption`, `RtcAssumption`,
  `DemosAssumption`): `IInv` is `SetUpInv`, `CallsOK` and `TextOK`.  `SetUpInv` adds to
  the types what the registers of the port hold after each of the seven writes
  (`UartOK`) and what a program's calls to come tell (`ScriptOK`: a script that still
  begins with `COM_Init()` has printed nothing, and the clock is read only between
  the call of `RTC_GetTime()` and its use).  `CallsOK`: a script asks for a key at most
  once, and only when the last one has been answered.  `TextOK`: what has been
  printed is the value of its formatting function, for a width and a base that
  function is called with.  The scripts are sequences built by concatenation;
  `Joined`, `Repeated` and `TailOpens` say that the parts keep their shape.
  `SentAsSetUp` follows for all builds, and `TimeWasShown` for the clock as one of the
  things the program does.
* **stdio implements Stream**, its safety part `StreamSafe`: a step of `Demos` is a
  step of `Stream` or a stutter under `StreamOf`.  A call that prints finds the queue
  empty, since the program waits in it until all is sent, and fills it with
  `AsLines(text)`; `COM_WriteString()` takes the first character of what is left, or
  the carriage return before it, which is the head of the queue in either case;
  `getchar()` reads a key only when none is being answered (`CallsOK`).
* **Printed numbers read back** (`PrintedNumbersReadBack`), for every width of an `int`
  and a `long`, every width of a field and every number in it.  A text is taken
  apart into its places, counted from the right.  The digit formatted at place `k` is
  the number divided by the base `k` times, modulo the base; a reader multiplies
  what it has by the base and adds the next place, so it has the number divided by
  the base as many times as there are places left, and at the end the number.  In
  base 10 the places above the highest are blanks and a sign, which `atoi()` skips
  and applies; in base 16 the field cuts the number, and what is read is the number
  modulo a power of 16 (of 16 to the tenth for an address in 40 bits).
* The library's induction theorem has an operator for its parameter, which the
  installed provers cannot instantiate.  `StreamProofs` gets by with sets: every
  non-empty set of natural numbers has a least element (`LeastNatural`, from the
  theorems on well-founded relations), so a set with 0 and all successors is all of
  them (`Induction`), and a function defined by a recursive equation satisfies it
  (`RecursionAgrees` and what follows it).
* **Keyboard** (`KeyboardAssumption`), for every set of keys of the model, every size
  of the buffer and any number of events: `KInv` says what may be on the wire, and that
  each bit follows its key unless the byte that will move it is waiting (`Held`,
  `Locked`).  `ModifiersFollowKeys` speaks of an empty wire only and needs it, and
  `StateOK` with it: that Pause moves neither Ctrl nor Num Lock is what the prefix
  state after each of its six bytes is for.  `TInv` adds the buffer: a character whose
  code waits is the last of the text and not yet stored, and what the driver will
  make of the code is what the key meant (`CharMeans`).  `TextArrives` follows with
  the arithmetic of an index that wraps (`RingIndex`).
* **Page tables** (`TablesAssumption`): `LoaderInv` is inductive, for any number of
  tables and of entries in one, any frames that leave room for them, any memory
  before, and every step of `Startup`.  Each store is at an address of one table
  (`Order`: the tables lie one after the other), so the others stay as they are
  (`Outside`); the store that a loop makes next finds what the invariant says was
  there, which decides what the half of the entry it does not write holds
  (`LowEntries`).  `MapIsMeant` is not inductive: it says nothing before paging is
  on.  From the finished tables it follows by the page walk, with an address
  divided into its index in the directory and in a table (`Below`), in four parts:
  the identity map, the window of the frame buffer, the APIC's page and the rest.
* **Entry stubs** (`StubsAssumption`), for every stack pointer of the program and every
  size of its stack: `StubsInv` is inductive (`StubStepPreserves`,
  `InterruptPreserves`, `RaisePreserves`), and with the page tables it is `IInv` of
  `Startup`.  First the text: which instruction is the `i`-th of a stub
  (`StubIs`, `FaultIs`, `IrqIs`), from the macros it is put together from.  Then one
  lemma for each kind of instruction, and one for each stretch of a stub with the
  same kind: a store or a push changes one address, which is below everything
  saved so far (`KeepsAbove`) or the field of the save area meant for it, since no
  two fields overlap.  `ProgramResumes`, `ExceptionCallsAligned`, `DumpShowsFault`
  and `PanicNamesException` say nothing before the end of a stub and are not
  inductive.  That an interrupt taken before a stub's `cli` leaves no trace is the same
  invariant once more: its handler returns to `Interruptible`, for the stub as for
  the program (`Before`).

Only model-checked: what is about liveness (`CallReturns`, `KeysHandled`,
`BeepEnds`, `KeysAnswered`, `LineEnds`, `FaultHalts`, the fairness of
`StreamSpec`), which is outside the prover's reach.

## 11. What the models say about the code

The five violations above are findings in `PROJECT.json`, each with the line it
contradicts.  Met on the way, and stated by no run:

* `malloc()` of nearly 2^64 bytes wraps and hands out a short block; `sbrk()` has
  no limit; a second `malloc()` before `brk()` would start the heap at a low
  address.  The comment of `morecore()` that the new memory is found "next" is
  right only when `freeptr` ends before it.
* Right Alt is taken for left Alt; with Num Lock, Shift with a digit of the top
  row gives the digit.
* A full line leaves no blank row when the line feed that ends it is in the same
  string.  In a string of its own, like the echo of the Enter key, it does: the
  end of the string has ended the line already (`Written` has both cases).
* The page tables' high halves and the APIC's table are never cleared.
* `_init_IDT()` stores the IDTR over the first ten bytes of the GDT, which the
  loaders put at 0x2000 although the memory maps say 0x3000; the CPU does not
  look at them again.
* `os/vesa/README.md` gives the frame buffer at 0x04000000 in its text and at
  0x01000000 in its memory map; the loader maps the latter.
* `os/vesa` draws to column 1024 and row 768, outside the screen.  The stores are
  in the memory mapped behind the frame buffer (`StoresInVideoMemory`); the pixel
  of column 1024 is the first of the next row.
* `pm32` says "bang on keyboard to show scan codes", but nothing calls
  `DumpKeyboardScan()`.
* `getc()` and `getchar()` return a `char`, which is signed: the byte 0xFF is -1.
  No caller compares the result with an end of file.
* `COM_SendChar()` and `COM_ReadChar()` wait without a time limit.  The transmitter
  empties by itself, as nothing sets up flow control, so prints end
  (`StreamSpec`); a read waits for its key.
* The mode list of `rm16` waits for a key only at modes it prints: when the mode with
  index 4 modulo 16 is left out, the list does not stop there.
* `ShowVesaModes()` uses `VideoModePtr`, a far pointer, as a linear one whose upper
  half is the segment; the memory size in bytes is an `int` and negative from
  2 GB on.
* Fields of a fixed width cut what does not fit: in base 16 `itoa()` and `ltoa()`
  show the low digits.  Ten digits of an address in `DumpPTE()` are enough below
  1 TB.  In base 10 the number is longer than its field instead.
* `CreateColorPalette()` of `vga` has ramps of 64 entries, masked with 0x3F, but the
  green one ends at 196 instead of 192; the palette is not used.

## 12. Not modelled

* `memcpy`, `memset` and the `str` functions but `strtr`: loops that copy or compare
  bytes, with no state between calls; where their effect matters (`ScrollText`,
  the strings that are printed) it is modelled with the caller.
* The products of `rand_r()`: 32-bit arithmetic that decides only which draws come.
* `SetColorPalette()`, the shape of the cursor and the blink bit: registers of the
  display that no other code reads.  `LocateText()`, the reads of IRR and ISR and
  the NMI switch: no build calls them.
* The BIOS calls of the loaders, the descriptor tables `gdtcpy` copies, the contents
  of the image that is loaded, and the slave 8259, all of whose lines stay masked.
* `sbrk()` at the end of memory and a second `malloc()` without `brk()`: hazards of
  `PROJECT.json` without a property.  The code has no limit and no claim there.
* Keys of `rm16` at the BIOS keyboard: the build does not read it.

## 13. Plan

Done: the modules above, in the order heap (core), interrupts, keyboard,
console, clock, lines, start-up, then the terminal with the five programs, real
mode and the stores of the drawing code.

Proved: the heap and its refinement, the console, lines and drawing,
interrupts, the clock, the set-up of the port, the page tables, the keyboard, the
terminal, the numbers printed and the entry stubs: every invariant the passing
runs check.
