-------------------------------- MODULE Boot --------------------------------
(***************************************************************************)
(* kernel_main from the loader's jump to the idle loop: the descriptor     *)
(* tables, the screen, the memory map and the ACPI tables (found as module *)
(* Acpi says), the old PIC, and the registers of the local APIC in the     *)
(* order in which apic_init and calibrate_timer write them, on hardware in *)
(* any of the states Init says the firmware may leave it in.  What the     *)
(* devices do from the calibration on is module Interrupts.                *)
(***************************************************************************)
EXTENDS Integers, Sequences

CONSTANTS
  Pins,        \* the pins of the I/O APICs
  FullCount,   \* 0xFFFFFFFF
  TimerCounts  \* what calibrate_timer may count in its 10 ms

(* The pin the keyboard is wired to: ioapic_enable(1, 40).                 *)
KEYBOARD_PIN == 1

ASSUME PinsAssumption == KEYBOARD_PIN \in Pins

ASSUME CountAssumption == FullCount \in Nat /\ TimerCounts \subseteq 0 .. FullCount

VARIABLES
  done,          \* how many steps of kernel_main are over
  panicked,      \* panic has been called
  interrupts_on, \* the IF flag
  gdt_loaded,    \* the kernel's GDT and TSS are in use
  idt,           \* the handler of each vector, NoGate before lidt
  screen_ready,  \* terminal_initialize has run
  blind,         \* something was printed before it had
  pic_open,      \* the old interrupt controllers not masked
  lapic,         \* local APIC: enabled, priority, vectors in service
  lvt,           \* its local vector table
  count,         \* the initial count of its timer
  pins,          \* the I/O APIC's entry of each pin
  writes,        \* how many local APIC registers have been written
  memory_info, tables,  \* given: a memory map, the way to both controllers
  ticksIn10ms,          \* given: what calibrate_timer counts
  others_closed         \* given: what the code never writes was left masked

cpu   == <<interrupts_on, gdt_loaded, idt>>
out   == <<screen_ready, blind>>
apic  == <<lapic, lvt, count>>
given == <<memory_info, tables, ticksIn10ms, others_closed>>
vars  == <<done, panicked, cpu, out, pic_open, apic, pins, writes, given>>

(* Vectors: that of an NMI; the old PIC's first one, as the firmware set   *)
(* it; and those init_idt gives a handler of their own.                    *)
NMI      == 2
PIC      == 8
TIMER    == 32
SPURIOUS == 39
KEYBOARD == 40
SYSCALL  == 128
Vectors  == {NMI, PIC, TIMER, SPURIOUS, KEYBOARD, SYSCALL}
NoGate   == [v \in Vectors |-> "none"]

(* Mutant of kernel_main: the memory map is printed before there is a      *)
(* screen.                                                                 *)
kernel_main_memory_first ==
  <<"cli", "init_gdt", "init_idt", "detect_memory", "terminal_initialize", "banner",
    "acpi", "mask_pic", "lapic", "ioapic_enable", "sti">>

kernel_main ==
  <<"cli", "init_gdt", "init_idt", "terminal_initialize", "banner", "detect_memory",
    "acpi", "mask_pic", "lapic", "ioapic_enable", "sti">>

Idle == ~ panicked /\ done = Len(kernel_main)

At(step) == ~ panicked /\ done < Len(kernel_main) /\ kernel_main[done + 1] = step

Step == done' = done + 1 /\ UNCHANGED panicked

-----------------------------------------------------------------------------
(* The writes to the local APIC but those to LDR, DFR and TMRDIV, which    *)
(* neither open nor block anything.                                        *)
Masked          == [masked |-> TRUE, vector |-> 0, periodic |-> FALSE]
To(v, periodic) == [masked |-> FALSE, vector |-> v, periodic |-> periodic]

Write(reg, value) == [reg |-> reg, value |-> value]

(* Mutant of apic_init: the local APIC is not told that earlier interrupts *)
(* are over.                                                               *)
apic_init_no_eoi ==
  <<Write("TMR", Masked), Write("PERF", To(NMI, FALSE)), Write("LINT0", Masked),
    Write("LINT1", Masked), Write("TASKPRIOR", 0), Write("TMR", To(TIMER, FALSE)),
    Write("SPURIOUS", SPURIOUS)>>

apic_init ==
  <<Write("TMR", Masked), Write("PERF", To(NMI, FALSE)), Write("LINT0", Masked),
    Write("LINT1", Masked), Write("TASKPRIOR", 0), Write("EOI", 0),
    Write("TMR", To(TIMER, FALSE)), Write("SPURIOUS", SPURIOUS)>>

calibrate_timer ==
  <<Write("TMRINITCNT", FullCount), Write("TMR", Masked),
    Write("TMRINITCNT", ticksIn10ms \div 10), Write("TMR", To(TIMER, TRUE))>>

LapicWrites == apic_init \o calibrate_timer

(* What a write does: while the local APIC is disabled, a mask stays on.   *)
lapic_write(w) ==
  /\ IF w.reg \in DOMAIN lvt
       THEN lvt' = [lvt EXCEPT ![w.reg] = [w.value EXCEPT
                      !.masked = w.value.masked \/ ~ lapic.enabled]]
       ELSE UNCHANGED lvt
  /\ count' = IF w.reg = "TMRINITCNT" THEN w.value ELSE count
  /\ lapic' = CASE w.reg = "SPURIOUS"  -> [lapic EXCEPT !.enabled = TRUE]
                [] w.reg = "TASKPRIOR" -> [lapic EXCEPT !.priority = w.value]
                [] w.reg = "EOI"       -> [lapic EXCEPT !.in_service =
                                             {v \in lapic.in_service :
                                               \E u \in lapic.in_service : u > v}]
                [] OTHER               -> lapic

-----------------------------------------------------------------------------
(* What an entry delivers, and what those do that the code never writes.   *)
Delivers(e) == IF e.masked THEN {} ELSE {e.vector}

LeftOpen ==
  Delivers(lvt["ERR"]) \cup UNION {Delivers(pins[p]) : p \in Pins \ {KEYBOARD_PIN}}

(* The loader jumps to the kernel with interrupts off, and the firmware    *)
(* has left at most one interrupt unacknowledged; each source may be open  *)
(* or masked.  "ERR" is APIC_LVT_ERR and any further entry of the table    *)
(* (thermal, machine check): like all pins but the keyboard's, the code    *)
(* never writes it.                                                        *)
Firmware == {Masked, To(PIC, FALSE)}

Init ==
  /\ done = 0 /\ panicked = FALSE /\ writes = 0
  /\ interrupts_on = FALSE /\ gdt_loaded = FALSE /\ idt = NoGate
  /\ screen_ready = FALSE /\ blind = FALSE
  /\ pic_open \in SUBSET {"master", "slave"}
  /\ lapic \in [enabled : BOOLEAN, priority : {0, 255}, in_service : {{}, {TIMER}}]
  /\ lvt \in [{"TMR", "PERF", "LINT0", "LINT1", "ERR"} -> Firmware]
  /\ ~ lapic.enabled => \A r \in DOMAIN lvt : lvt[r].masked
  /\ count = 0
  /\ pins \in [Pins -> Firmware]
  /\ memory_info \in BOOLEAN /\ tables \in BOOLEAN
  /\ ticksIn10ms \in TimerCounts
  /\ others_closed = (LeftOpen = {})

(* Whatever is printed goes to the screen, ready or not. *)
Prints == blind' = (blind \/ ~ screen_ready) /\ UNCHANGED screen_ready

Cli ==
  /\ At("cli") /\ Step
  /\ interrupts_on' = FALSE
  /\ UNCHANGED <<gdt_loaded, idt, out, pic_open, apic, pins, writes, given>>

init_gdt ==
  /\ At("init_gdt") /\ Step
  /\ gdt_loaded' = TRUE
  /\ UNCHANGED <<interrupts_on, idt, out, pic_open, apic, pins, writes, given>>

init_idt ==
  /\ At("init_idt") /\ Step
  /\ idt' = [v \in Vectors |->
               CASE v = SYSCALL  -> "syscall_entry"
                 [] v = TIMER    -> "timer_isr"
                 [] v = KEYBOARD -> "keyboard_isr"
                 [] v = SPURIOUS -> "spurious_isr"
                 [] OTHER        -> "dummy_isr"]
  /\ UNCHANGED <<interrupts_on, gdt_loaded, out, pic_open, apic, pins, writes, given>>

terminal_initialize ==
  /\ At("terminal_initialize") /\ Step
  /\ screen_ready' = TRUE
  /\ UNCHANGED <<cpu, blind, pic_open, apic, pins, writes, given>>

Banner ==
  /\ At("banner") /\ Step
  /\ Prints
  /\ UNCHANGED <<cpu, pic_open, apic, pins, writes, given>>

(* panic never returns: interrupts off, a message, and hlt for ever. *)
panic ==
  /\ panicked' = TRUE
  /\ interrupts_on' = FALSE
  /\ Prints
  /\ UNCHANGED <<done, gdt_loaded, idt, pic_open, apic, pins, writes, given>>

(* The two steps that print, and may find that they cannot go on. *)
NeedsGiven(step, given_) ==
  /\ At(step)
  /\ \/ ~ given_ /\ panic
     \/ /\ given_ /\ Step
        /\ Prints
        /\ UNCHANGED <<cpu, pic_open, apic, pins, writes, given>>

detect_memory == NeedsGiven("detect_memory", memory_info)

FindControllers == NeedsGiven("acpi", tables)

(* Mutant of MaskPic: the second controller is forgotten. *)
MaskPic_master_only ==
  /\ At("mask_pic") /\ Step
  /\ pic_open' = pic_open \ {"master"}
  /\ UNCHANGED <<cpu, out, apic, pins, writes, given>>

MaskPic ==
  /\ At("mask_pic") /\ Step
  /\ pic_open' = {}
  /\ UNCHANGED <<cpu, out, apic, pins, writes, given>>

WriteLapic ==
  /\ At("lapic")
  /\ lapic_write(LapicWrites[writes + 1])
  /\ writes' = writes + 1
  /\ IF writes' = Len(LapicWrites) THEN Step ELSE UNCHANGED <<done, panicked>>
  /\ UNCHANGED <<cpu, out, pic_open, pins, given>>

ioapic_enable ==
  /\ At("ioapic_enable") /\ Step
  /\ pins' = [pins EXCEPT ![KEYBOARD_PIN] = To(KEYBOARD, FALSE)]
  /\ Prints
  /\ UNCHANGED <<cpu, pic_open, apic, writes, given>>

Sti ==
  /\ At("sti") /\ Step
  /\ interrupts_on' = TRUE
  /\ UNCHANGED <<gdt_loaded, idt, out, pic_open, apic, pins, writes, given>>

Next ==
  \/ Cli \/ init_gdt \/ init_idt \/ terminal_initialize \/ Banner \/ detect_memory
  \/ FindControllers \/ MaskPic \/ WriteLapic \/ ioapic_enable \/ Sti

Spec == Init /\ [][Next]_vars

-----------------------------------------------------------------------------
(* The vectors an interrupt could arrive on, as the controllers stand,     *)
(* from what the code programs.                                            *)
OpenVectors ==
  (IF pic_open # {} THEN {PIC} ELSE {})
    \cup (IF lapic.enabled THEN {SPURIOUS} ELSE {})
    \cup Delivers(pins[KEYBOARD_PIN])
    \cup UNION {Delivers(lvt[r]) : r \in DOMAIN lvt \ {"ERR"}}

(* A handler of its own acknowledges the interrupt.  dummy_isr, which      *)
(* acknowledges nothing, is left for exceptions and will do for an NMI.    *)
HasHandler(v) ==
  idt[v] # "none" /\ (v # NMI => idt[v] # "dummy_isr")

(* Once interrupts are on, each that can arrive has a handler.  What the   *)
(* code programs is so whatever the firmware left; with everything else    *)
(* the code relies on the firmware: if that was masked, nothing at all     *)
(* arrives without a handler.                                              *)
SourcesHaveHandlers ==
  interrupts_on =>
    /\ gdt_loaded
    /\ \A v \in OpenVectors : HasHandler(v)
    /\ others_closed => \A v \in LeftOpen : HasHandler(v)

(* Nothing is printed, by a panic either, before there is a screen.        *)
NothingBlind == ~ blind

(* The idle loop is served: whatever state the local APIC was found in, it *)
(* is on, blocks no priority, has nothing in service, runs the timer at a  *)
(* tenth of what was counted in 10 ms, and the keyboard's entry is open.   *)
IdleServes ==
  Idle =>
    /\ interrupts_on
    /\ lapic = [enabled |-> TRUE, priority |-> 0, in_service |-> {}]
    /\ lvt["TMR"] = To(TIMER, TRUE) /\ count = ticksIn10ms \div 10
    /\ pins[KEYBOARD_PIN] = To(KEYBOARD, FALSE)
=============================================================================
