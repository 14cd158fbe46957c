---------------------------- MODULE Calibration ----------------------------
(***************************************************************************)
(* calibrate_timer of apic.c: the APIC timer's clock is unknown, so it is  *)
(* counted during a wait timed by channel 2 of the PIT, and a tenth of the *)
(* count becomes the period.  Time passes in units of the PIT's clock, and *)
(* never more than one of them between two instruction groups: interrupts  *)
(* are off.  The PIT, port 0x61 and the APIC timer are external.           *)
(***************************************************************************)
EXTENDS Integers, Sequences

CONSTANTS
  Base,          \* how many values a byte has, 256
  Reload,        \* units in 10 ms: 0x2e9b
  MaxCount,      \* what the APIC timer counts down from, 0xFFFFFFFF
  Rates,         \* the APIC timer's ticks per unit, on different machines
  CountingHigh   \* whether the PIT's output is high while it counts; see Out

CalibrationAssumption ==
  /\ Base \in Nat \ {0} /\ Reload \in 2 .. Base * Base - 1 /\ MaxCount \in Nat
  /\ \A r \in Rates : r \in Nat /\ r * (Reload - 1) >= 10 /\ r * (Reload + 2) <= MaxCount
  /\ CountingHigh \in BOOLEAN

VARIABLES
  pc,            \* the label calibrate_timer has reached
  gate, others,  \* port 0x61: bit 0; bits 1 to 3
  written,       \* the bytes written to port 0x42
  left,          \* units until the PIT's one-shot is over, 0 when it is not counting
  rate,          \* of this machine
  counted,       \* 0xFFFFFFFF less APIC_TMRCURRCNT once it is started, -1 before
  period,        \* the count the periodic timer starts from
  lag            \* units since the last step of the code, 0 or 1

pit  == <<gate, others, written>>
vars == <<pc, pit, left, rate, counted, period, lag>>

Init ==
  /\ pc = "init_pit"
  /\ gate \in {0, 1} /\ others \in 0 .. 7      \* as the firmware left them
  /\ written = <<>> /\ left = 0
  /\ rate \in Rates
  /\ counted = -1 /\ period = 0 /\ lag = 0

Goto(from, to) == pc = from /\ pc' = to /\ lag' = 0 /\ UNCHANGED rate

(* The gate goes up: the one-shot of mode 1 starts, from the reload value. *)
SetGate(level) ==
  /\ gate' = level
  /\ left' = IF gate = 0 /\ level = 1 /\ Len(written) = 2
               THEN written[1] + Base * written[2] ELSE left

(* Bit 5 of port 0x61.  The PIT of QEMU, which the kernel is run on        *)
(* (README.md:5), holds it high while mode 1 counts; the 8254 of a PC does *)
(* the opposite.                                                           *)
Out == (left > 0) <=> CountingHigh

(* inb(0x61): bit 4 toggles with the memory refresh; bits 6 and 7 report   *)
(* hardware errors, and there are none.                                    *)
Port61(refresh) ==
  gate + 2 * others + (IF refresh THEN 16 ELSE 0) + (IF Out THEN 32 ELSE 0)

InitPit ==
  /\ Goto("init_pit", "lsb")
  /\ SetGate(1) /\ others' = (others \div 2) * 2   \* & 0xfd: speaker off
  /\ UNCHANGED <<written, counted, period>>

WriteReload ==
  /\ \/ Goto("lsb", "msb") /\ written' = <<Reload % Base>>
     \/ Goto("msb", "gate_low") /\ written' = Append(written, Reload \div Base)
  /\ UNCHANGED <<gate, others, left, counted, period>>

(* Mutant: the gate is already up, so this starts nothing. *)
GateLow_dropped ==
  /\ Goto("gate_low", "gate_high") /\ SetGate(1)
  /\ UNCHANGED <<others, written, counted, period>>

GateLow ==
  /\ Goto("gate_low", "gate_high") /\ SetGate(0)
  /\ UNCHANGED <<others, written, counted, period>>

GateHigh ==
  /\ Goto("gate_high", "start") /\ SetGate(1)
  /\ UNCHANGED <<others, written, counted, period>>

StartCounting ==
  /\ Goto("start", "wait")
  /\ counted' = 0
  /\ UNCHANGED <<pit, left, period>>

(* Mutant: the wait is for all bits of the port to be 0. *)
Wait_whole_port ==
  /\ \E refresh \in BOOLEAN :
       Goto("wait", IF Port61(refresh) > 0 THEN "wait" ELSE "program")
  /\ UNCHANGED <<pit, left, counted, period>>

(* while (inb(0x61) > 0x20), one round. *)
Wait ==
  /\ \E refresh \in BOOLEAN :
       Goto("wait", IF Port61(refresh) > 32 THEN "wait" ELSE "program")
  /\ UNCHANGED <<pit, left, counted, period>>

Program ==
  /\ Goto("program", "done")
  /\ period' = counted \div 10
  /\ UNCHANGED <<pit, left, counted>>

Pass ==
  /\ pc # "done" /\ lag = 0 /\ lag' = 1
  /\ left' = IF left = 0 THEN 0 ELSE left - 1
  /\ counted' = IF counted = -1 THEN -1
                ELSE IF counted + rate > MaxCount THEN MaxCount ELSE counted + rate
  /\ UNCHANGED <<pc, pit, rate, period>>

Step == InitPit \/ WriteReload \/ GateLow \/ GateHigh \/ StartCounting \/ Wait \/ Program

Next == Step \/ Pass

(* The CPU runs, and time passes. *)
Fairness == WF_vars(Step) /\ WF_vars(Pass)
Spec == Init /\ [][Next]_vars /\ Fairness

-----------------------------------------------------------------------------
Distance(x, y) == IF x > y THEN x - y ELSE y - x

(* A timer interrupt comes once a millisecond, up to the one unit that     *)
(* the steps around the wait can take and the rounding of the division,    *)
(* and it does come: a period of 0 would mean never.                       *)
MillisecondTimer ==
  pc = "done" => /\ period > 0
                 /\ Distance(10 * period, rate * Reload) <= rate + 9

(* The wait is over some day; nothing but the PIT ends it.                 *)
WaitEnds == <>(pc = "done")

(* "Perform PIT-supported sleep", apic.c:109, of the 10 ms of apic.c:89:   *)
(* the wait goes on for as long as the PIT counts.                         *)
SleepsTenMs == pc = "program" => left = 0
=============================================================================
