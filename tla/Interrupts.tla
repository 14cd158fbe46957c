----------------------------- MODULE Interrupts -----------------------------
(***************************************************************************)
(* The one CPU of pika-os serving the timer, the keyboard and spurious     *)
(* interrupts: isr.c, the gates interrupts.c installs, apic_eoi, and the   *)
(* last steps of kernel_main, from the calibration of the timer (apic.c)   *)
(* on, during which the devices already run while interrupts are off.      *)
(*                                                                         *)
(* The handlers are programs, one label for each instruction group at      *)
(* which the devices or a nested interrupt can make a difference; a step   *)
(* of the CPU runs the label the newest frame of the stack has reached.    *)
(* The local APIC, the I/O APIC and the keyboard controller are external:  *)
(* they are what the code programs them to be and nothing more.            *)
(***************************************************************************)
EXTENDS Integers, Sequences, FiniteSets

CONSTANTS
  MaxTicks,     \* bound: how often the APIC timer fires
  MaxBytes,     \* bound: how many bytes the keyboard sends
  MaxSpurious,  \* bound: how many spurious interrupts there are
  IntMax,       \* the largest int; milliseconds wraps round past it
  MinuteLength  \* milliseconds in a minute, 60 * 1000 in the code

ASSUME BoundAssumption ==
  /\ {MaxTicks, MaxBytes, MaxSpurious, IntMax} \subseteq Nat
  /\ MinuteLength \in Nat \ {0}

VARIABLES
  main,             \* the label kernel_main has reached
  frames,           \* the interrupted handlers and the running one, newest last
  interrupts_on,    \* the IF flag
  milliseconds,     \* isr.c's counter
  minutes_shown,    \* the numbers of the "minutes elapsed" lines printed
  keys_shown,       \* the bytes keyboard_isr acted on, in order
  irr, isr,         \* local APIC: vectors requested, vectors in service
  unmasked, routed, \* I/O APIC, the keyboard's entry: enabled, sent to this CPU
  buffer,           \* keyboard controller: the byte at port 0x60, Empty if none
  sent,             \* bytes the keyboard has sent so far; the n-th is byte n
  unheard,          \* of these, the last whose interrupt was lost, 0 if none
  discarded,        \* how many the delay of calibrate_timer read
  ticks, merged,    \* timer expiries, and those that met one still pending
  spurious          \* spurious interrupts so far

cpu     == <<main, frames, interrupts_on>>
counted == <<milliseconds, minutes_shown>>
apic    == <<irr, isr>>
entry   == <<unmasked, routed>>
kbc     == <<buffer, sent, unheard, discarded>>
clock   == <<ticks, merged>>
vars    == <<cpu, counted, keys_shown, apic, entry, kbc, clock, spurious>>

Empty == 0

(* The vectors init_idt gives a handler of their own and a device raises. *)
TIMER    == 32
SPURIOUS == 39
KEYBOARD == 40
Vectors  == {TIMER, SPURIOUS, KEYBOARD}

-----------------------------------------------------------------------------
(* The handlers.  "iret" stands for the epilogue the compiler generates.   *)

(* Mutants of timer_isr: the interrupt is never acknowledged; interrupts   *)
(* are allowed again before the body, or before the acknowledgement.       *)
timer_isr_no_eoi        == <<"cli", "count", "sti", "iret">>
timer_isr_late_body     == <<"cli", "eoi", "sti", "count", "iret">>
timer_isr_sti_first     == <<"cli", "count", "sti", "eoi", "iret">>

timer_isr == <<"cli", "count", "eoi", "sti", "iret">>

(* Mutants of keyboard_isr: the key is used after interrupts are allowed   *)
(* again; no acknowledgement; a character made up without reading it.      *)
keyboard_isr_late_use == <<"cli", "status", "data", "eoi", "sti", "use", "iret">>
keyboard_isr_no_eoi   == <<"cli", "status", "data", "use", "sti", "iret">>
keyboard_isr_no_read  == <<"cli", "status", "use", "eoi", "sti", "iret">>

keyboard_isr == <<"cli", "status", "data", "use", "eoi", "sti", "iret">>

spurious_isr == <<"cli", "eoi", "sti", "iret">>

Code == [v \in Vectors |-> CASE v = TIMER    -> timer_isr
                             [] v = KEYBOARD -> keyboard_isr
                             [] v = SPURIOUS -> spurious_isr]

(* vec, the label it is at (an index of its code), the IF flag saved when  *)
(* it was entered, and keyboard_isr's local: what it read.                 *)
Frame == [vec : Vectors, pc : Nat \ {0}, flags : BOOLEAN, c : 0 .. MaxBytes]

LabelOf(f) == Code[f.vec][f.pc]

Top == frames[Len(frames)]

At(label) == frames # <<>> /\ LabelOf(Top) = label

(* The running handler goes on to its next label, holding c. *)
AdvanceWith(c) ==
  frames' = [frames EXCEPT ![Len(frames)] = [Top EXCEPT !.pc = Top.pc + 1, !.c = c]]

Advance == AdvanceWith(Top.c)

-----------------------------------------------------------------------------
(* kernel_main, from the middle of calibrate_timer on.  It runs when no    *)
(* handler does.                                                           *)

MainLabels == {"delay", "start_timer", "unmask", "route", "sti", "idle"}

Init ==
  /\ main = "delay"
  /\ frames = <<>>
  /\ interrupts_on = FALSE                \* cli() of kernel_main
  /\ milliseconds = 0 /\ minutes_shown = <<>> /\ keys_shown = <<>>
  /\ irr = {} /\ isr = {}
  /\ unmasked = FALSE /\ routed \in BOOLEAN  \* as the firmware left the entry
  /\ buffer = Empty /\ sent = 0 /\ unheard = 0 /\ discarded = 0
  /\ ticks = 0 /\ merged = 0 /\ spurious = 0

MainAt(label, next) ==
  /\ frames = <<>>
  /\ main = label
  /\ main' = next
  /\ UNCHANGED <<frames, counted, keys_shown, clock, spurious>>

(* inb(0x60), meant as a delay between two writes to the PIT, reads the    *)
(* keyboard controller's buffer all the same.                              *)
DelayRead ==
  /\ MainAt("delay", "start_timer")
  /\ buffer' = Empty
  /\ discarded' = IF buffer = Empty THEN discarded ELSE discarded + 1
  /\ UNCHANGED <<interrupts_on, apic, entry, sent, unheard>>

StartTimer ==
  /\ MainAt("start_timer", "unmask")
  /\ UNCHANGED <<interrupts_on, apic, entry, kbc>>

(* ioapic_enable(1, 40) writes the half of the entry with the mask bit     *)
(* first and the half with the destination second.                         *)
Unmask ==
  /\ MainAt("unmask", "route")
  /\ unmasked' = TRUE
  /\ UNCHANGED <<interrupts_on, apic, routed, kbc>>

Route ==
  /\ MainAt("route", "sti")
  /\ routed' = TRUE
  /\ UNCHANGED <<interrupts_on, apic, unmasked, kbc>>

EnableInterrupts ==
  /\ MainAt("sti", "idle")
  /\ interrupts_on' = TRUE
  /\ UNCHANGED <<apic, entry, kbc>>

MainStep == DelayRead \/ StartTimer \/ Unmask \/ Route \/ EnableInterrupts

-----------------------------------------------------------------------------
(* The steps of the handlers. *)

Cli ==
  /\ At("cli")
  /\ interrupts_on' = FALSE
  /\ Advance
  /\ UNCHANGED <<main, counted, keys_shown, apic, entry, kbc, clock, spurious>>

Sti ==
  /\ At("sti")
  /\ interrupts_on' = TRUE
  /\ Advance
  /\ UNCHANGED <<main, counted, keys_shown, apic, entry, kbc, clock, spurious>>

Modulus == 2 * (IntMax + 1)

(* Mutant of incremented: a counter that stays at its end.                 *)
incremented_saturating == IF milliseconds = IntMax THEN IntMax ELSE milliseconds + 1

(* ++milliseconds, an int. *)
incremented == IF milliseconds = IntMax THEN -IntMax - 1 ELSE milliseconds + 1

(* The body of timer_isr. *)
Count ==
  /\ At("count")
  /\ milliseconds' = incremented
  /\ minutes_shown' = IF milliseconds' % MinuteLength = 0
                        THEN Append(minutes_shown, milliseconds' \div MinuteLength)
                        ELSE minutes_shown
  /\ Advance
  /\ UNCHANGED <<main, interrupts_on, keys_shown, apic, entry, kbc, clock, spurious>>

(* getchar_from_keyboard looks at the status port, then at the data port.  *)
(* The frame's c is what it goes on with: Empty ends in "no character".    *)
ReadStatus ==
  /\ At("status")
  /\ AdvanceWith(buffer)
  /\ UNCHANGED <<main, interrupts_on, counted, keys_shown, apic, entry, kbc,
                 clock, spurious>>

ReadData ==
  /\ At("data")
  /\ IF Top.c = Empty
       THEN Advance /\ UNCHANGED buffer
       ELSE AdvanceWith(buffer) /\ buffer' = Empty
  /\ UNCHANGED <<main, interrupts_on, counted, keys_shown, apic, entry, sent,
                 unheard, discarded, clock, spurious>>

(* The key is decoded and printed or scrolls the screen. *)
UseKey ==
  /\ At("use")
  /\ keys_shown' = IF Top.c = Empty THEN keys_shown ELSE Append(keys_shown, Top.c)
  /\ Advance
  /\ UNCHANGED <<main, interrupts_on, counted, apic, entry, kbc, clock, spurious>>

(* apic_eoi retires the highest vector in service, whoever wrote it. *)
Eoi ==
  /\ At("eoi")
  /\ isr' = {v \in isr : \E w \in isr : w > v}
  /\ Advance
  /\ UNCHANGED <<main, interrupts_on, counted, keys_shown, irr, entry, kbc,
                 clock, spurious>>

(* The epilogue ends: the frame is popped and the saved IF restored. *)
Iret ==
  /\ At("iret")
  /\ interrupts_on' = Top.flags
  /\ frames' = SubSeq(frames, 1, Len(frames) - 1)
  /\ UNCHANGED <<main, counted, keys_shown, apic, entry, kbc, clock, spurious>>

HandlerStep ==
  Cli \/ Sti \/ Count \/ ReadStatus \/ ReadData \/ UseKey \/ Eoi \/ Iret

-----------------------------------------------------------------------------
(* Entering a handler.  Every gate init_idt installs is an interrupt gate  *)
(* (flags 0x8E): entering it clears IF.                                    *)
Enter(vec) ==
  /\ frames' = Append(frames, [vec |-> vec, pc |-> 1, flags |-> interrupts_on,
                               c |-> Empty])
  /\ interrupts_on' = FALSE

PriorityClass(v) == v \div 16

(* The local APIC hands over the highest vector requested, if its class is *)
(* above that of every vector in service.                                  *)
Deliver ==
  /\ interrupts_on
  /\ \E v \in irr :
       /\ \A w \in irr : w <= v
       /\ \A w \in isr : PriorityClass(w) < PriorityClass(v)
       /\ irr' = irr \ {v}
       /\ isr' = isr \cup {v}
       /\ Enter(v)
  /\ UNCHANGED <<main, counted, keys_shown, entry, kbc, clock, spurious>>

(* A request withdrawn too late: the spurious vector is not put in service. *)
DeliverSpurious ==
  /\ interrupts_on
  /\ spurious < MaxSpurious
  /\ spurious' = spurious + 1
  /\ Enter(SPURIOUS)
  /\ UNCHANGED <<main, counted, keys_shown, apic, entry, kbc, clock>>

-----------------------------------------------------------------------------
(* The devices. *)

TimerRuns == main \in MainLabels \ {"delay", "start_timer"}

(* A second expiry before the first is delivered leaves one request. *)
Tick ==
  /\ TimerRuns
  /\ ticks < MaxTicks
  /\ ticks' = ticks + 1
  /\ irr' = irr \cup {TIMER}
  /\ merged' = IF TIMER \in irr THEN merged + 1 ELSE merged
  /\ UNCHANGED <<cpu, counted, keys_shown, isr, entry, kbc, spurious>>

(* The controller takes the next byte when its buffer is free and raises   *)
(* its line: an edge, lost unless the I/O APIC entry lets it through.      *)
KeyboardSends ==
  /\ sent < MaxBytes
  /\ buffer = Empty
  /\ sent' = sent + 1
  /\ buffer' = sent'
  /\ IF unmasked /\ routed
       THEN irr' = irr \cup {KEYBOARD} /\ UNCHANGED unheard
       ELSE unheard' = sent' /\ UNCHANGED irr
  /\ UNCHANGED <<cpu, counted, keys_shown, isr, entry, discarded, clock, spurious>>

-----------------------------------------------------------------------------
CpuStep == MainStep \/ HandlerStep

Next == CpuStep \/ Deliver \/ DeliverSpurious \/ Tick \/ KeyboardSends

(* The CPU executes instructions and the local APIC delivers; no device    *)
(* has to do anything.                                                     *)
Spec == Init /\ [][Next]_vars /\ WF_vars(CpuStep) /\ WF_vars(Deliver)

-----------------------------------------------------------------------------
TypeOK ==
  /\ main \in MainLabels
  /\ frames \in Seq(Frame)
  /\ interrupts_on \in BOOLEAN
  /\ milliseconds \in -IntMax - 1 .. IntMax
  /\ minutes_shown \in Seq(Int)
  /\ keys_shown \in Seq(1 .. MaxBytes)
  /\ irr \subseteq {TIMER, KEYBOARD} /\ isr \subseteq {TIMER, KEYBOARD}
  /\ {unmasked, routed} \subseteq BOOLEAN
  /\ {buffer, sent, unheard, discarded} \subseteq 0 .. MaxBytes
  /\ {ticks, merged} \subseteq 0 .. MaxTicks
  /\ spurious \in 0 .. MaxSpurious

(* What a frame still has to do. *)
StillTo(label, f) == \E j \in f.pc .. Len(Code[f.vec]) : Code[f.vec][j] = label

FramesStillTo(label) == {i \in 1 .. Len(frames) : StillTo(label, frames[i])}

(* The counter, the terminal and the decoder have no lock.  What protects  *)
(* them: of all handlers on the stack, however deep, only the newest is    *)
(* not in its epilogue, and interrupts are on only when it is too.         *)
OneBodyAtATime ==
  /\ \A i \in 1 .. Len(frames) - 1 : LabelOf(frames[i]) = "iret"
  /\ interrupts_on => \/ frames = <<>>
                      \/ LabelOf(Top) = "iret"

(* The vector in service is that of the running handler until its own EOI, *)
(* and then none: an EOI, spurious_isr's included, never acknowledges an   *)
(* interrupt some other handler is still working on.                       *)
EoiIsOwn ==
  isr = {frames[i].vec : i \in FramesStillTo("eoi")} \ {SPURIOUS}

(* Every expiry of the timer is counted exactly once, apart from those     *)
(* that found one pending; in the arithmetic of int.                       *)
ToCount == Cardinality(irr \cap {TIMER}) + Cardinality(FramesStillTo("count"))
Counts  == ticks - merged - ToCount

TicksCounted == (milliseconds - Counts) % Modulus = 0

(* keyboard_isr acts on the bytes in the order they were sent, none twice, *)
(* none left out but the one the delay of calibrate_timer may take: every  *)
(* byte sent is acted on, discarded, held by the handler or in the buffer. *)
Held == {i \in FramesStillTo("use") : ~ StillTo("data", frames[i]) /\ frames[i].c # Empty}

KeysInOrder ==
  /\ keys_shown = [n \in 1 .. Len(keys_shown) |-> discarded + n]
  /\ sent = discarded + Len(keys_shown) + Cardinality(Held)
              + (IF buffer = Empty THEN 0 ELSE 1)

(* A byte waits in the buffer exactly when an interrupt to fetch it is on  *)
(* its way or keyboard_isr has not read it yet: no byte is stranded and no *)
(* interrupt is in vain.  Only a byte that came before ioapic_enable was   *)
(* over can be stranded, and then keeps the keyboard silent.               *)
ByteMeansInterrupt ==
  buffer > unheard <=> KEYBOARD \in irr \/ FramesStillTo("data") # {}

(* apic.c:98 calls inb(0x60) a "delay" between two writes to the PIT; a    *)
(* delay takes nothing from the keyboard.                                  *)
DelayTakesNoKey == discarded = 0

(* Every byte whose interrupt was not lost is acted on in the end.         *)
KeyServed ==
  \A b \in 1 .. MaxBytes :
    (sent >= b /\ b > unheard) ~> (\E n \in 1 .. Len(keys_shown) : keys_shown[n] = b)

(* However the interrupts nest, the stack unwinds and the machine is back  *)
(* in the idle loop with nothing requested or in service.                  *)
AtRest == main = "idle" /\ frames = <<>> /\ interrupts_on /\ irr = {} /\ isr = {}

ComesToRest == []<>AtRest
=============================================================================
