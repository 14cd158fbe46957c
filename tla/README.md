# pika-os in TLA+

pika-os is a small 32-bit x86 kernel: it boots from a multiboot loader, prints a
banner, finds the ACPI tables, programs the local APIC and the I/O APIC, and from
then on does nothing but serve two interrupts, the timer and the keyboard, whose
handlers print to a VGA text screen with scroll-back. This directory holds TLA+
modules of that kernel, the TLC runs that check them on small instances, and
TLAPS proofs of what holds for every instance. `PROJECT.json` lists the runs, the
properties, the mutants that show each property can fail, the source lines each
definition stands for, the hazards and the theorems.

## Inventory

| component | state it keeps | operations | talks to | modules |
|---|---|---|---|---|
| terminal (`terminal.c`) | a ring of 125 rows, the row being written, the first row shown, the column, the color, the screen memory | `terminal_initialize`, `_putchar`, `set_color`, `terminal_cursor_up/down` | called by `printf_` and by `keyboard_isr` | `Terminal`, `Scrollback`, `TerminalProofs` |
| interrupt handling (`isr.c`, `interrupts.c`, `apic_eoi`) | `milliseconds`; the CPU's IF flag and stack; the APIC's request and service registers | `timer_isr`, `keyboard_isr`, `spurious_isr`, `dummy_isr`, `syscall_entry` | entered by the CPU through the IDT; end with `apic_eoi` | `Interrupts`, `KernelProofs` |
| keyboard decoder (`isr.c`, `kbd.h`) | `shift`: modifier, lock and E0-prefix bits | `getchar_from_keyboard` | reads the 8042; its result goes to the terminal | `Keyboard`, `KeyEvents`, `KeyboardProofs` |
| the kernel as a whole | all of the above | typing, ticking, printing | the three components together | `Kernel`, `Console`, `KernelProofs` |
| ACPI tables (`acpi.c`, the MADT walk of `apic.c`) | `lapic_ptr`, `ioapic_ptr` | `acpi_find_rsdt`, `acpi_find_sdt`, the verifications, the walk | reads low memory; may `panic` | `Acpi`, `AcpiProofs` |
| boot (`kernel.c`, `interrupts.c`, `apic.c`, `panic.c`) | how far boot has come; device registers | `kernel_main`, `init_gdt`, `init_idt`, `apic_init`, `panic` | everything above | `Boot` (and the end of it in `Interrupts`), `BootProofs` |
| descriptor tables (`gdt.c`, `interrupts.c`, `boot.s`) | GDT, TSS, IDT | `gdt_register`, `idt_register`, `load_gdt` | read by the CPU at every load, interrupt and `iret` | `Descriptors`, `BootProofs` |
| timer calibration (`apic.c`) | the PIT, port 0x61, the APIC timer | `calibrate_timer` | sets the period of `timer_isr` | `Calibration`, `BootProofs` |
| memory map (`memory_map.c`) | `mmap_entries`, `entry_count` | `detect_memory` | the loader's list; prints | `MemoryMap`, `MemoryMapProofs` (its panic in `Boot`) |
| formatted output (`utils/printf.c`) | none between calls; a 32-byte buffer within one | `printf_` and its kin | everything that prints; calls `_putchar` | `Scanner`, `Printf`, `Output`, `Format`, `PrintfProofs` |
| string routines (`utils/string.c`) | `strtok`'s static pointer | `memmove`, `memcmp` and the others | the terminal, the ACPI search | `Strings`, `Copying`, `Strtok`, `StringsProofs` |

How they interact: `kernel_main` calls each initialisation in turn with interrupts
off and ends in a loop of `hlt`; from `sti` on everything happens in handlers.
There are no threads and no locks. What keeps two handlers apart is that each gate
is an interrupt gate (entry clears IF), that each handler starts with `cli`, and
that its `sti` comes after its body and its end-of-interrupt; between that `sti`
and the `iret` another handler can nest.

What is hard here, and what would make it correct:

- handlers nesting in each other's epilogues, with a shared counter, terminal and
  decoder: no two bodies overlap, every EOI acknowledges the handler's own
  interrupt, no tick is lost or counted twice, bytes are acted on in order;
- an edge-triggered keyboard line and a one-byte buffer: a byte in the buffer
  always has an interrupt on its way, and is shown in the end;
- the device running before the kernel listens: bytes sent during boot, one of
  which may be thrown away and spoils one key event and no more;
- a decoder whose state outlives the interrupt, over codes of one to four bytes:
  it does what the keys mean, and no modifier or prefix sticks;
- all of these at once: whatever nests, events and minute lines come out whole, in
  order and once;
- a timer of unknown speed measured against another one: the wait ends, and the
  period is a millisecond;
- addresses and limits cut up and scattered over descriptors, selectors in force
  before and after the new tables: each leads where it should;
- index arithmetic on a ring: no index leaves it, old text never reappears, the
  screen is always a window of the present contents;
- tables written by someone else: nothing is used unverified, every search ends,
  the machine boots exactly if the tables allow it;
- registers as the firmware left them: after boot nothing is blocked and nothing
  the code programs arrives that no handler acknowledges (the rest is left as it was);
- a list walked by sizes it contains itself: every step lands on an entry, none is
  missed, and the array that takes them is not overrun;
- numbers formatted back to front in a small buffer, with flags that interact: the
  buffer always holds, and what is printed is the number; a format read character
  by character, and its output cut off at a count: each part is found as what it
  was written as, and no byte is written from the count on;
- memory copied onto itself, strings without a length, a static between calls.

## The modules

### Terminal and Scrollback

`Terminal` has one variable per static of `terminal.c` (`terminal_column`,
`scroll_buffer`, `scroll_buffer_row`, `scroll_buffer_cursor`, `default_color`) and
`screen` for the memory at 0xB8000. One action is one call from outside:
`putchar` (`_putchar` → `terminal_putchar_color`, with `next_row`, the clearing of
the row and the copy to the screen that follow inside it), `set_color`,
`terminal_cursor_up`, `terminal_cursor_down`. `Init` is the state after
`terminal_initialize`, which `kernel_main` calls once before anything is printed.
Calls are atomic because handler bodies never overlap, which is
`Interrupts!OneBodyAtATime`.

`Scrollback` is the promise: a plain list of the last `Capacity` lines, without a
ring. `Terminal` implements it with `lines` read off the ring from the row after
the cursor round to the cursor.

The first Up after output moves two rows and the first Down none: output copies
the window from `scroll_buffer_row + 1` (terminal.c:92-93), the keys from
`scroll_buffer_row`. `ScrollKeepsPlace` and `Scrollback!Scroll` allow exactly that.

### Interrupts

The handlers are data: `timer_isr`, `keyboard_isr` and `spurious_isr` are
sequences of labels, and a step of the CPU executes the label that the newest
frame of `frames` has reached. A label stands for the instructions between two
points at which a device or a nested handler could make a difference; the status
read, the data read and the use of the key are three labels. `main` is where
`kernel_main` is, from the delay read of `calibrate_timer` on: from there the
timer starts, the keyboard's entry is unmasked and routed in two writes, and
interrupts are turned on. Which gate leads where, and that each clears IF, is from
`init_idt`.

External, modelled as the code programs it: the local APIC (`irr`, `isr`: delivers
the highest vector requested if its class is above every one in service; EOI
retires the highest in service), the I/O APIC entry, the timer, the keyboard
controller with its one-byte buffer, and spurious interrupts, which put nothing in
service. Byte *n* of the keyboard is the number *n*; what bytes mean is
`Keyboard`.

Ghost variables record what the invariants count: `sent`, `unheard`, `discarded`,
`ticks`, `merged`, `spurious`.

Left out: `syscall_entry` (only `userspace_fn` executes `int $0x80`, and nothing
calls `jump_userspace`) and `dummy_isr` (CPU exceptions, which no code modelled
here raises). The firmware is taken to have left nothing requested or in service
once `apic_init` has written its EOI (see `Boot`), and the keyboard's entry masked.

### Keyboard and KeyEvents

`Keyboard` decodes byte by byte: `EscapeByte`, `ReleaseByte` and `PressByte` are
the three paths of `getchar_from_keyboard`, each with what `keyboard_isr` does to
its result. The tables of `kbd.h` are there as functions on all 256 indices with
the entries of the codes in use, each with and without E0 before it (a lost E0 turns
Home into the `7` of the number block); characters are names. The keyboard is external:
it sends scan code set 1, extended codes as two bytes, repeats the last key while
it is held, and puts false shift codes (E0 AA, E0 2A) around an arrow key pressed
with shift held. Keys may be held down when the kernel starts. Bytes arrive in
order and one at a time, which is `Interrupts!KeysInOrder`.

`KeyEvents` says the same in keys: an event is a key going down or up, handled
whole. `Keyboard` implements it with the queue of events not yet read to their
last byte, and the flags without the escape bit. In it, as in the code, releasing
one of two held shift keys ends SHIFT.

`boot` is for the byte that the delay read of `calibrate_timer` throws away: up to
`DelayTakesByte` or `DelayFindsNothing` nothing is read, and if a byte was lost, the
event it belonged to is `garbled`. `KeyEvents!Spoil` says what that may do: that one
event may have any effect a key can have and may set the modifiers of its own key,
and every later event is decoded as if nothing had happened.

### Kernel and Console

`Kernel` composes `Interrupts` and `Keyboard`: the bytes that `Interrupts` numbers
are those `Keyboard` has queued, `UseKey` performs the decoder's step, and the body
of `timer_isr` prints its line in two parts, the text and its end (`todo`, parallel
to the stack of handlers), with anything the CPU allows in between. `screen` is what
the terminal was given.

`Console` is the promise to the user: typing, handling an event with its one
effect, and announcing a minute with a whole line are each a single step. `Kernel`
implements it with the line still being printed taken off the end of the screen.
That its bodies do not overlap is what carries it: with the timer's body after its
`sti` the refinement fails at once.

### Acpi

One action is one loop iteration or call: the byte-by-byte search for the RSDP in
two regions, its two checks, the recursion of `acpi_verify_sdt` with its stack
`calls`, the search for the MADT, and the walk that picks the I/O APIC. A layout of
tables is a record `fw`, chosen at the start from `Firmwares` and never changed. A
table is its signature, whether its sum is right, and the fields read.
`WellFormed` is what the code relies on: RSDPs lie on multiples of 16 inside the
region and point at a table signed RSDT, and tables list only tables after
themselves (no cycle; on one the code recurses until the stack is gone). MADT
entries are a sequence, so none has length 0, on which the walk would not end.

`Verdict` is the reference: what a layout means, without searching. It takes the
RSDP at the lowest place, the first MADT and the last I/O APIC, as the code does;
on a machine with several I/O APICs the last need not be the one the keyboard is
wired to.

### Boot

`kernel_main` is data again, a sequence of steps, and so are the writes to the local
APIC; `lapic_write` (external) says what a register write does, in particular that a
mask cannot be cleared while the APIC is disabled. The firmware may have left the
old PIC open or masked, the local APIC on or off, its table entries and the I/O
APIC's pins open or masked each, its priority high or low and one interrupt in
service.

Some of that the code never writes: `APIC_LVT_ERR` and any further entry of the table
(entry `"ERR"` stands for them) and every pin but 1, the keyboard's. Whatever is open
there stays open, and would reach a vector that only `dummy_isr` serves, which writes
no EOI. `others_closed` says whether all of it was masked, and `SourcesHaveHandlers`
is in two parts: what the code programs (`OpenVectors`) has handlers from any state,
everything else (`LeftOpen`) if it was masked. That the firmware does mask it is an
assumption the code makes without saying so (the hazard at apic.c:179); both
controllers mask all of it at reset. An interrupt that was already requested in the local APIC before `sti`
is assumed to be of an open source; `dummy_isr` would not acknowledge another.

Not modelled here: the bits of descriptors and segment registers (`Descriptors`), the
wait inside `calibrate_timer` (`Calibration`); nor the writes to TMRDIV, DFR and LDR,
which open and block nothing (the keyboard's entry names a physical APIC id).

### Descriptors

`gdt_register` (which `init_gdt` uses for the TSS, too) and `idt_register` are
functions from an address, a limit and an access to the fields of the entry, cut and
shifted as the code does it, with half a byte of `Nibble` values instead of 16 so that every address can be tried.
The state is what the CPU holds: its tables, the selector and descriptor in CS, in
the data registers and in TR. `load_gdt` is a sequence of loads; `Load` (external)
is what the CPU does with a selector, taking it from the table then in force or
refusing it. After that, `Interrupt` goes through a gate and `iret` takes CS from
the stack again. The addresses of the TSS and of the handlers, and the loader's
selectors, are arbitrary. The stack the TSS names is used on entry from ring 3
only, and nothing goes there.

### Calibration

`calibrate_timer` from the set-up of the PIT to the start of the periodic timer,
with time, in units of the PIT's clock, passing between its steps (`Pass`), never
more than one unit between two steps since interrupts are off. The two counters and
port 0x61 are external. `CountingHigh` says whether the PIT's output is high while
mode 1 counts: in QEMU it is, on an 8254 it is low.

### MemoryMap

One action, `Record`, is one round of the loop of `detect_memory`: the entry copied,
its line printed, the step to the next one by the size found in it. The loader's
list `map` is chosen at the start and has the entries and the address of each;
`IsMap` states what the multiboot loader promises and the code relies on without a
test: no gaps, no entry shorter than what is copied, not more than `ENTRY_SIZE`, no
type without a label, no address that wraps. What is read anywhere else is
`NotAnEntry`. An entry's base and length are one value, `region`.

### Scanner, Printf and Output

The three parts of `_vsnprintf`, each for all the other two can give it: `Scanner`
turns characters into pieces, `Printf` pieces and arguments into text, `Output` text
into bytes.

`Scanner` reads a format one piece a step: text, or a directive with its flags,
width, precision and size. The formats, `Formats`, are given as pieces and their way
of being written; `FormatAssumption` states what C says of that way: a numeral has the
value it is given by positional notation and fits an unsigned int (of `IntValues`
values), a width does not begin with a 0, and a conversion is no character that could
stand before it. A format that ends inside a directive is not among them (see below).
`After` is where a loop over flags or digits stops, `atoi` what `_atoi` adds up on the
way. For TLC they are two pieces, with neighbours that could be taken for a part of
them. `Format` holds what `Scanner` and `Printf` share.

A call of `printf_` is a sequence of pieces, runs of text and directives, each
with its own arguments; the code sees the pieces and the flattened arguments `va`,
the reference `Printed` each piece with its own. So an argument taken by the wrong
directive shows. `StartNumber` is
the part of `_vsnprintf` that settles the flags and the sign, `Digit` and `PadZero`
are one round each of the loops of `_ntoa_long` and `_ntoa_format`, `Prefix` is
what `_ntoa_format` adds, and `out_rev` the output. `buf` holds the characters last
first, as the array does. The build is the Makefile's, without floats and without
long long, whose directives do nothing and leave their argument (`SkipLongLong`).
Negating the least int is undefined in C; the model takes the wrap that gcc's code
for it produces.

`AsC` says where the code agrees with C and what it has of its own: a precision is
ignored after a minus; a negative precision for a star is 0; a `#` may cut leading
digits off (hazard at printf.c:244) and counts differently in base 2 and 8; `%p` has
a width of its own, so that a minus, also the one of a negative width for a star,
takes its zeros away; and what does not fit 32 characters is cut. None of this touches
the kernel's own formats.

`Output` has the five functions characters go to and the functions of `printf.h`
that choose one, with its limit. A text may contain a 0 (`%c` can print one). What
`printf_` and `fctprintf` return counts the zeros they do not pass on, while
printf.h:107 speaks of the characters sent; no property is about it.

### Strings, Copying and Strtok

`Strings` has the routines that only read, as functions of the memory. A loop that
counts up is `Until(places, stop)`: of the places it may come to, such as the addresses
from which a 0 is in reach (`StringsIn`), the one in `stop` at which it ends; `strlen`,
`strrchr` and `strstr`, which calls `strchr` again and again, have a recursive function
of their own. `ScansAgree` says what C says of them. `Copying` has those that write, a
byte a step, because what they read may be what they have just written; a call can
follow another on the same memory. `Strtok` is one call a step, with its static
`ssave`; the caller gives a string, then NULL, and may turn to another string at any
time. The fields of a string, which its tokens should be, are the runs of characters
that are no separators, numbered by where they begin (`FieldStarts`, `FieldsTo`).
Calls that C leaves undefined are not made.

### The MC modules

A module `MC...` gives a run its values. Three of them are sums: `MCBoot` (`Boot`,
`Descriptors`, `Calibration`), `MCPrintf` (`Scanner`, `Printf`, `Output`) and
`MCStrings` (`Copying`, `Strtok`) choose in their initial state which `part` a
behaviour is about; only that part moves, under its own next-state relation and its
own fairness, and each property is the part's own. The parts share no state in the
code either, or only what one hands to the next.

## The runs

| run | instance | states | what it asks |
|---|---|---|---|
| `terminal` | 3×2 screen, ring of 5, one glyph in two colors | 46 thousand | indices in range, no stale text, screen is a window, scroll keys keep the place, implements `Scrollback` |
| `interrupts` | 4 ticks, 3 bytes, 1 spurious; int up to 2; a minute of 2 ms | 95 thousand | exclusion of bodies, own EOI, conservation of ticks and bytes, service of every heard byte, return to rest |
| `interrupts_delay` | 1 tick, 1 byte | violation | the "delay" of apic.c:98 takes a byte |
| `keyboard` | A, both shifts, right control, Caps Lock, Up; 2 events unread | 74 thousand | implements `KeyEvents`, a byte lost at boot included; no stuck modifier |
| `keyboard_home` | A and Home | violation | Home, none of its bytes lost, does not give KEY_HOME |
| `kernel` | A and right control, 3 bytes, 2 ticks, 1 spurious; a minute of 1 ms | 354 thousand | implements `Console`; everything typed is handled in the end |
| `acpi` | regions of 8 and 7 bytes, up to 3 RSDPs, up to 4 tables: 3,453 layouts | 37 thousand | verdict, nothing unverified, termination |
| `boot` | every state `Init` lists of the controllers, two pins; every place of the kernel in 256 addresses; two timers | 145 thousand | handlers for what the code programs, and for all that can arrive if the rest was masked; nothing printed blind, the idle loop is served; descriptors; calibration with QEMU's PIT |
| `calibration_8254` | the same timers with an 8254's output | violation | the wait does not last as long as the PIT counts |
| `memory_map` | up to 3 entries of 3 lengths in an array of 3: 1,885 lists | 7 thousand | reads entries only, array not overrun, all of the list kept and shown |
| `printf` | int of 5 bits, buffer of 5 characters, 27,173 calls; 29,120 formats; texts of up to 5 characters | 293 thousand | prints what C prints (where `AsC`), buffer not overrun; formats found as written; counts kept, cuts told, devices given the text |
| `strings` | every memory of 6 bytes of 3 values | 977 thousand | every routine leaves or returns what C says |

Why the bounds are enough. *terminal*: the ring is recycled several times, its
size is not a multiple of the screen's, the width makes text both wrap and stop
short; the proofs remove the bound. *interrupts*: two ticks and a byte already nest
three deep; four ticks merge and wrap the int, three bytes can be discarded,
stranded and in order; all five invariants are proved for every bound, so the run
decides liveness only. *keyboard*: the six keys cover each kind of code (plain and
extended, modifier, twin modifier, lock, character, arrow with false shift codes),
and two events allow every overlap of a press with the release before it. *kernel*:
three bytes are an extended modifier and the letter it changes, or a letter after a
lost byte; two ticks let one minute's line nest after another's. *acpi*: the two
legal places of a region are its first and its last, tables are nested three deep,
listed twice, missing and corrupt in every position. *boot* is exhaustive but for
the count and the number of pins the code leaves alone, of which one stands for all; for the descriptors a half byte has two values, so that an address has
eight bits and all places of the kernel, with each field's carry, are tried; the
reload value has two different bytes and the clocks of the two timers differ.
*memory_map*: the full array is among the lists, and entries as long as the struct,
longer by one and by more than the size field. *printf*: as with 32 bits and 32
characters, the longest binary numeral just fills the buffer; widths and precisions
lie below, at and above it, and all 32 sets of flags meet all bases; texts are
shorter than, as long as and longer than each count. *strings*: six bytes allow
regions of three to overlap by one or two in either direction, and two strings of
two characters with their zeros; two non-zero values give a character and a
separator.

`CHECK_DEADLOCK FALSE` stands where the system may stop: in `hlt` with no device
left to act (the device bounds), and after a panic or at the end of the modelled
part.

### Fairness

`Interrupts` assumes weak fairness of the CPU's steps (it executes instructions)
and of delivery by the local APIC when it is continuously possible. No device is
forced to act. `KeyServed` and `ComesToRest` rest on these two. `Kernel` adds the
keyboard controller, which sends what it holds as soon as its buffer is free; nobody
has to type. `Acpi` assumes weak fairness of its one thread: interrupts are off.
`Calibration` assumes that the CPU runs and that time passes. The other modules have
no fairness and no liveness property.

## Findings

- `interrupts_delay`: apic.c:98 reads port 0x60 "as a delay", but that port is the
  keyboard's data port (kbd.h:8). A byte sent earlier in boot is thrown away. It
  also frees the buffer: a byte still in it when `ioapic_enable` is over has lost
  its edge for good, no further byte is ever sent, and the keyboard is silent.
  `ByteMeansInterrupt` and `KeyServed` except exactly these bytes (`unheard`).
- `calibration_8254`: apic.c:110 waits while the PIT's output is high, but on an
  8254 mode 1, selected at apic.c:94, holds it low while it counts, so that the
  "PIT-supported sleep" (apic.c:109) is over at once and the period programmed at
  apic.c:118 is far too short. In QEMU the output is the other way round and the
  period right (run `boot`).
- `keyboard_home`: kbd.h:72 has KEY_HOME at 0x97; the key's index is 0xC7.

Two texts are merely out of date: README.md:8 of the kernel says there are no
interrupts yet, and apic.c:117 speaks of the number of ticks counted where a tenth
of it is programmed (a timer interrupt per millisecond).

## The proofs

Each module of proofs is about the modules it extends; the second column names the
property of the runs that the theorem states, for every value of the constants.

| module | theorem | property | argument |
|---|---|---|---|
| `TerminalProofs` | `TypeCorrect` | `TypeOK` | inductive; arithmetic of the ring in lemmas |
| | `TailStaysBlank` | `TailBlank` | inductive with `TypeOK` |
| | `ScreenStaysWindow` | `ScreenIsWindow` | inductive with `TypeOK` |
| | `ScrollingKeepsPlace` | `ScrollKeepsPlace` | from `ScreenIsWindow`: the two offsets it allows are the two the property allows |
| | `TerminalImplementsScrollback` | `ImplementsScrollback` | step by step; a `putchar` is an `EndLine` or a `Type`, a key a `Scroll` |
| `KernelProofs` | `TypeCorrect`, `BodiesExclude`, `EoiStaysOwn` | (types), `OneBodyAtATime`, `EoiIsOwn` | one inductive invariant, `TypeOK /\ Bounds /\ Stack` |
| | `TicksAllCounted` | `TicksCounted` | inductive with `TypeOK /\ Stack`: `TimerAccount` |
| | `KeysStayInOrder`, `ByteAlwaysMeansInterrupt` | `KeysInOrder`, `ByteMeansInterrupt` | inductive with `TypeOK /\ Stack`: `KeyAccount` |
| | `KernelImplementsConsole` | `ImplementsConsole` | step by step under the inductive invariant `Running /\ K!Decoding` |
| | `KernelIsItsParts` | (the safety of `Interrupts` and `Keyboard`) | step by step |
| `KeyboardProofs` | `DecoderInStep` | (the invariant `Decoding`) | inductive |
| | `KeyboardImplementsKeyEvents` | `ImplementsKeyEvents` | step by step under `Decoding` |
| | `ModifiersNeverStick` | `NoStuckModifier` | inductive with `Decoding`: `StillDown /\ Unstuck` |
| | `HomeIsNotDecoded` | (why run `keyboard_home` fails) | from `Decoding` |
| `AcpiProofs` | `TypeCorrect`, `TablesVerified` | (types), `UsesOnlyVerified` | one inductive invariant, `IInv` |
| | `DecisionAlwaysRight` | `DecidesRightly` | inductive with `IInv`: `Deciding` |
| `BootProofs` | `NothingPrintedBlind`, `SourcesAlwaysHandled`, `IdleAlwaysServes` | `NothingBlind`, `SourcesHaveHandlers`, `IdleServes` | one inductive invariant, `Booting` |
| | `LoadsAlwaysSucceed`, `EntriesAlwaysReach` | `LoadsSucceed`, `EntriesReach` | one inductive invariant, `Loaded`; the arithmetic of a descriptor's fields in lemmas |
| | `TimerAlwaysMillisecond` | `MillisecondTimer` | inductive: `Calibrating`; for QEMU's PIT |
| `MemoryMapProofs` | `TypeCorrect`, `WalkReadsEntries`, `WalkRecordsMap` | `TypeOK`, `ReadsEntries`, `RecordsMap` | one inductive invariant, `IInv` |
| `PrintfProofs` | `BufferIsEnough` | `BufferHolds` | inductive once it says that a digit is only written with room for it |
| | `AlwaysAsC` | `PrintsAsC` | an inductive invariant, `PInv`, which says what the buffer holds in each stage of a conversion; positional notation in lemmas |
| | `BufferAlwaysKept`, `ReturnAlwaysTells` | `BufferKeepsCount`, `ReturnTellsCut` | one inductive invariant, `Inv`, for every text, count and size |
| | `DeviceAlwaysGetsText` | `DeviceGetsText` | inductive with `Inv`: `Sent` |
| | `ScannerFinds` | `FindsWhatIsWritten` | inductive once the format is one of `Formats`; a lemma for each routine |
| `StringsProofs` | `MemmoveAlwaysMoves` | `MemmoveMoves` | one inductive invariant, `Inv`, for every memory, overlap and count |
| | `OthersAlwaysWrite` | `OthersWrite` | inductive with `Inv`: `Writing`; what `strlen` computes is a lemma |
| | `ScansAlwaysFind` | `ScansFind` | a lemma for each routine (`MemoryScans`), for a memory of bytes, which `Bytes` keeps |
| | `TokensAlwaysFields`, `AlwaysOnlySeparators` | `TokensAreFields`, `CutsSeparators` | one inductive invariant, `StrtokInv`, with the lemmas for `strspn` and `strcspn` |

*Interrupts.* `OneBodyAtATime` is not inductive: that interrupts are on only in the
newest frame's epilogue is kept by `Iret` only if the frame below is in its
epilogue too, and `EoiIsOwn` only if nothing is in service when a handler is
entered. `Stack` therefore fixes where every frame is: those below the newest at
their `iret`, the newest at or before it, IF on only if the newest is at its `iret`
or there is none, and in service exactly the vector of the newest until its EOI.

The accounts build on it: since only the newest frame is outside its epilogue, only
it can have something in hand, and the sets that `TicksCounted` and `KeysInOrder`
count have one element or none. `TimerAccount` says that the counter is what the
timer raised, less what was merged, is requested or is in hand, and some number of
wraps. `KeyAccount` says of each byte where it is (`Numbered`), that a byte heard
has its interrupt requested or its reader under way, and not both (`Called`: this is
why the status bit the handler reads is never stale), and that nothing arrives
before `sti` (`Booting`).

*Keyboard.* The decoder keeps no more of an event half read than one flag. `Decoding`
says what it would have to remember: the oldest event's bytes are those of a key,
the number of them read is the number of escape bytes behind it, E0ESC is set
exactly after an escape byte, and before boot is over nothing is read but the byte
the delay took. Each read is then either a byte in the middle, which changes no
modifier, or the last one, and `ByteStep` computes what each last byte does for each
of the keys; that is `KeyEvents!HandleDown`, `HandleUp` or, after a lost byte,
`Spoil`. The theorem excepts Home because there it fails: `HomeIsNotDecoded` proves
that Home, pressed with any modifiers, does nothing. `NoStuckModifier` needs to know what is
still in the queue: `StillDown` says that a press not yet read is of a key held, or
is followed by its release.

*The kernel.* `KernelImplementsConsole` puts both together. `Running` is the state of
the interrupts (`Stack`), and four facts about output: every handler but the newest has
printed all of its text (`Stacked`); the counter has not wrapped (`Unwrapped`), and
(`Lines`) the screen announces every minute counted, or the newest handler is the
timer's, still before its EOI, with the line of the last minute or its end left to
print and, in the second case, the line's text the last thing on the screen. That
nothing nests there is `Stack`: interrupts are on only in epilogues. So a character
printed is the text of a line, which `Complete` leaves off the screen, or its end, which
completes that line and announces one minute more. The decoder's half is
`KeyboardProofs` itself, instantiated (`K`); lemmas show that the decoder of `Kernel`
is the one it is about. Two hypotheses: no Home among the keys, as above, and no
more ticks than an int holds, which at one a millisecond is 24.8 days; then the
counter wraps, and the numbers of the minutes are no longer 1, 2, 3 ...

*Acpi.* `UsesOnlyVerified` speaks about the end of the recursion; `Summed` says
what holds during it: an entry of a verified table is verified, or waits in a call
for its sum, or will still be reached by the call running on its table. With no
call left, only the first remains.

`DecidesRightly` compares each search with its result in one look. `Deciding` says
for each stage what has been ruled out: `Searched` that no RSDP lies before the place
being looked at, `Descended` that under a sound root only sound tables are being
verified, `Looked` that no MADT was passed and that `ioapic_ptr` is the last
I/O APIC's of those passed. A table is sound if it is in a set that contains with a table
everything it lists, and all of whose members have a right sum; stated with sets
and not by recursion, this is what makes the reference fit for a proof.

*Boot.* `Booting` says of the controllers what is known after each step of
`kernel_main` (`Prepared`), how many writes to the local APIC that makes (`Written`)
and what each of them leaves for good (`Programmed`), whatever the firmware had left
there; `Untouched` says that what is not written stays masked if it was, on which the
second half of `SourcesAlwaysHandled` rests. For the descriptors, `Loaded` says which descriptor is in each register after each load; that an address or a limit
cut into its fields and put together again is what it was is a lemma of arithmetic,
for every size of a half byte. `Calibrating` bounds what the APIC timer has counted:
while waiting, at most one unit of the PIT's clock lies between the PIT's count and
the poll, so the period is right to within the APIC's counts of one unit (and the
rounding of a division). The hypothesis `CountingHigh = TRUE` is QEMU's PIT; without
it the theorem is false, which is run `calibration_8254`.

*MemoryMap.* `IInv` ties the two halves of the walk together: the address is that
of entry number `entry_count + 1`, and the array holds those before it. That the
address lies below the end exactly while entries are left is then a matter of
addresses growing. `IsMap` states that for every pair of entries, not only for
neighbours: it follows from the sizes by induction, and TLC confirms it on every list
of the run.

*Printf.* `BufferIsEnough` needs nothing of the calls, not even that arguments are
numbers: only the tests in front of each write matter.

`AlwaysAsC` needs the conversion step by step. `PInv` says that, as long as the pieces so
far are such as `AsC` describes, the arguments used are exactly theirs (`Taken`) and what
is printed is what C prints of them (`SoFar`). In the middle of a number it says what the
buffer holds (`Converts`): the last digits of the numeral, backwards, with what is left of
the number being the quotient by that power of the base (`InDigits`); then all the digits
and zeros, never more of them than `Target` (`InZeros`); and after prefix and sign
characters that read backwards are `Body`, what C prints between the blanks. `Target` is
where C's zeros end, and two characters further exactly when the code is about to cut two
for a `0x` (`Eats`, `TargetIs`): for these calls its cutting and C's counting agree, which
is what `AsC` excludes the others for. Before that, the arguments are those of the directive
(`NumbersOfFields`), the flags mean what the directive says (`FlagsOfNumber`), and the casts
leave C's value with a magnitude that fits the type (`CastIs`). Rests and quotients are
proved from division alone (`DivTwice`, `QuotientsAre`), and that a number of B bits has at
most B digits from the growth of powers (`LengthExists`).

*Scanner.* `FindsWhatIsWritten` is inductive. `PiecesStand` says where in the format
each piece is (a fold put together piece by piece, `FlattenIs`), `Layout` where each
part of a directive is; then one lemma for each routine says that it takes its part
and stops where the next part begins, because what comes next is no character of its
own: `AfterIs`, `AtoiIs`, `FieldIs`, `PrecisionIs`, `LengthIs`. `atoi` is a recursive
function with a closed form, the leading digits of the number (`DivTen`); where there
is none (`Power`), `Iterated` shows that the function exists. The induction is over
sets of numbers (`LeastOf`, from well-foundedness), not over data, which is why the
prover can follow it.

*Output.* Once a character did not fit, the rest of the text and the 0 do not either:
`Inv` says for each place whether it holds the text's character, the 0 or what it
held before, by its position against `idx` and the count. `Sent` says that what the
device was given is the text without its zeros, up to `idx`.

*Strings.* `Moving` divides the memory into what has been moved, which holds what
was to move there, and the rest, which is as it was; what is still to be read lies
in the rest because of the direction chosen, which is the whole point of `memmove`.

For the other six, `Writing` says that some number `k` of bytes is written, that the
memory is the one the call found with just these changed (`After`), and that pointers,
count and loop are those of byte `k`; `Byte` gives each byte without saying how the
routine comes by it. Since the regions do not overlap, what is read next is still what
the call found (`ReadsBefore`). Where a string ends and what `Str`, the reference, says
of it rests on what `strlen` computes, a recursive function of the memory.

The routines that read are proved one by one. `Least`, that every set of naturals has a
least member, follows from the library's theorem that finite sets are well-founded; from
it `Backwards`, that what holds of a place when it holds of all the places after it holds
of all places. With that, `UntilEnds` shows that such a loop ends at the first place of
`stop`, and `StrlenEnds` that `strlen` counts the way to the 0. What is left for each
routine is that the first place where its loop stops is the one C speaks of, or none
(`FirstStop`, `FirstNone`); for two strings at once, that the first place where they
differ is the same whether they are followed to a 0 or padded with zeros
(`PaddedCompared`); for `strstr`, that the places it passes over hold no match
(`StrstrRound`). `strchr` cuts the character it is given to a byte, so that `strstr` finds
anything at all needs memories of bytes: `Bytes` is part of the invariant.

*Strtok.* `StrtokInv` compares the memory with that of the session's first call. It differs
from it only where a separator of the string became a 0 (`OnlyCut`), and from the place
kept on not at all (`Ahead`), so that `strspn` and `strcspn` still find there what they would
have found in the whole string; and the tokens are the fields that begin before that
place, each once (`FoundFields`, `FieldsBefore`). That the place is behind a separator, at
the string's start or at its end makes a token begin where a field does, and the place
behind the 0 just written, but not behind the string's own, keeps it so (`Kept`).
`NextField` and `NoFieldMissed` count the fields over one call: exactly one begins in the
part it leaves behind, and none if it returns NULL.

The proofs assume what the modules' ASSUMEs say: the ring is larger than the screen
(`SizeAssumption`), the bounds are naturals and a minute is not empty
(`BoundAssumption`), keys are keys of the table and the queue of events is not empty
of room (`KeysAssumption`, `KeyboardAssumption`), a newline is no glyph
(`CharAssumption`), counts are naturals (`CountAssumption`), a half byte has at least
two values and the clocks run (`PartsAssumption`), the keyboard's pin is one of the pins
(`PinsAssumption`), the buffer is not empty
(`BufferAssumption`), the memory and a byte's values are not empty
(`MemoryAssumption`), calls are sequences of text and directives with their arguments,
of types that have a size (`CallsAssumption`), texts are sequences of characters and counts stay within the
buffer (`OutputAssumption`), formats are written as C writes them
(`FormatAssumption`), loader's lists are as described (`MapAssumption`), and
layouts are well-formed and an RSDP is longer than its signature
(`FirmwareAssumption`).

Only model-checked:

- liveness (`KeyServed`, `ComesToRest`, `EventsHandled`, `Decides`, `WaitEnds`), which
  is out of the prover's reach. Every safety property of a passing run has a theorem.

## Not modelled

- `linker.ld`, the Makefile and the multiboot header: layout and build. boot.s:19
  declares `multiboot_info` with a `.long` without operand, which reserves no bytes,
  so that boot.s:26 stores over what follows the section; no model has a layout.
- `inb`, `outb`, `cli`, `sti` and `hlt` as such: single instructions, whose effects
  are in the actions that use them.
- `jump_userspace`, `userspace_fn` and with them `syscall_entry`: nothing calls them.
- `dummy_isr` under an exception that pushes an error code: it would return with the
  code on the stack, but no code modelled raises one.
- Floats and `long long` in `printf.c`: the Makefile leaves them out of the build.
- A format that ends in a lone `%`: printf.c:846 then steps over its terminating 0
  and reads on (the kernel has none).
- How deep handlers may nest on a stack of 16 KB: the code sets no limit, and the
  hardware's rates are in no model.

## Plan

Done: every component above with its state-changing operations, the composition of
handlers, decoder and output with its abstraction, the byte lost at boot, the
calibration, the descriptors, the string routines, formats and their output; proofs
of all safety invariants of the terminal, the interrupts, the decoder, the ACPI
search, the boot, the descriptors, the calibration, the memory map, the routines of
`string.c`, the scanner and the conversions of `printf_` and the output of `snprintf_`
and of devices; and of the three refinements.

Left: the terminal itself as the screen of `Kernel`; `Scanner`, `Printf` and `Output` put
together as one `_vsnprintf`.
