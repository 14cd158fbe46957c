------------------------------- MODULE MCBoot -------------------------------
(***************************************************************************)
(* The boot and, more closely, two of its steps, each from every state the *)
(* steps before may leave: the descriptor tables, with the loader's        *)
(* selectors, GRUB's 0x10 and 0x18 and any other one of the first entries, *)
(* and the calibration of the timer.                                       *)
(***************************************************************************)
EXTENDS Boot

CONSTANTS
  Nibble, TssSize,                             \* of module Descriptors
  Base, Reload, MaxCount, Rates, CountingHigh  \* of module Calibration

VARIABLES
  part,  \* what is looked at
  step, at, gdt, gates, seg, frames, ip, fault,                  \* of Descriptors
  pc, gate, others, written, left, rate, counted, period, lag    \* of Calibration

descriptors == <<step, at, gdt, gates, seg, frames, ip, fault>>
calibration == <<pc, gate, others, written, left, rate, counted, period, lag>>

D == INSTANCE Descriptors WITH
       idt <- gates, Selectors <- {[index |-> i, ring |-> 0] : i \in 1 .. 4}
C == INSTANCE Calibration

ASSUME PartsAssumption == D!SizesAssumption /\ C!CalibrationAssumption

NoBoot ==
  /\ Init
  /\ pic_open = {} /\ lapic = [enabled |-> FALSE, priority |-> 0, in_service |-> {}]
  /\ pins = [p \in Pins |-> Masked]
  /\ ~ memory_info /\ ~ tables /\ ticksIn10ms = CHOOSE n \in TimerCounts : TRUE

NoDescriptors ==
  /\ step = 0 /\ at = <<>> /\ gdt = <<>> /\ gates = <<>> /\ seg = <<>>
  /\ frames = <<>> /\ ip = D!Kernel /\ fault = FALSE

NoCalibration ==
  /\ pc = "none" /\ gate = 0 /\ others = 0 /\ written = <<>> /\ left = 0
  /\ rate = 0 /\ counted = 0 /\ period = 0 /\ lag = 0

MCInit ==
  \/ part = "boot"        /\ Init   /\ NoDescriptors /\ NoCalibration
  \/ part = "descriptors" /\ NoBoot /\ D!Init        /\ NoCalibration
  \/ part = "calibration" /\ NoBoot /\ NoDescriptors /\ C!Init

MCNext ==
  /\ UNCHANGED part
  /\ \/ part = "boot"        /\ Next   /\ UNCHANGED <<descriptors, calibration>>
     \/ part = "descriptors" /\ D!Next /\ UNCHANGED <<vars, calibration>>
     \/ part = "calibration" /\ C!Next /\ UNCHANGED <<vars, descriptors>>

MCSpec ==
  /\ MCInit /\ [][MCNext]_<<part, vars, descriptors, calibration>>
  /\ part = "calibration" => C!Fairness

-----------------------------------------------------------------------------
(* Descriptors!LoadsSucceed: the CPU refuses no selector load_gdt, a gate  *)
(* or an iret gives it.                                                    *)
LoadsSucceed == part = "descriptors" => D!LoadsSucceed

(* Descriptors!EntriesReach: segments, task and gates lead where they      *)
(* should, wherever the kernel lies.                                       *)
EntriesReach == part = "descriptors" => D!EntriesReach

(* Calibration!MillisecondTimer: the timer is started with a period of one *)
(* millisecond, up to what the steps around the wait can take.             *)
MillisecondTimer == part = "calibration" => C!MillisecondTimer

(* Calibration!WaitEnds: the wait for the PIT is over some day.            *)
WaitEnds == part = "calibration" => C!WaitEnds
=============================================================================
