-------------------------- MODULE KernelProofs --------------------------
(***************************************************************************)
(* Theorems about interrupt handling, for any number of interrupts of any  *)
(* device and handlers nested to any depth, and about the running kernel,  *)
(* for any keys and any keyboard queue: it implements module Console.      *)
(***************************************************************************)
EXTENDS Kernel, SequenceTheorems, FiniteSetTheorems, TLAPS

USE BoundAssumption DEF BoundAssumption

-----------------------------------------------------------------------------
(* The handlers as programs: every one ends in eoi, sti, iret, and has     *)
(* none of these before.                                                   *)

EoiPlace(v) == IF v = TIMER THEN 3 ELSE IF v = KEYBOARD THEN 5 ELSE 2

LEMMA CodeEnds ==
  ASSUME NEW v \in Vectors
  PROVE  /\ EoiPlace(v) \in Nat \ {0, 1}
         /\ Len(Code[v]) = EoiPlace(v) + 2
         /\ Code[v][EoiPlace(v)] = "eoi"
         /\ Code[v][EoiPlace(v) + 1] = "sti"
         /\ Code[v][EoiPlace(v) + 2] = "iret"
         /\ \A j \in 1 .. EoiPlace(v) - 1 : Code[v][j] \notin {"eoi", "sti", "iret"}
<1>1. CASE v = TIMER
  <2>1. Code[v] = timer_isr /\ EoiPlace(v) = 3
    BY <1>1 DEF Code, EoiPlace, TIMER, KEYBOARD, SPURIOUS
  <2>2. QED
    BY <2>1 DEF timer_isr
<1>2. CASE v = KEYBOARD
  <2>1. Code[v] = keyboard_isr /\ EoiPlace(v) = 5
    BY <1>2 DEF Code, EoiPlace, TIMER, KEYBOARD, SPURIOUS
  <2>2. QED
    BY <2>1 DEF keyboard_isr
<1>3. CASE v = SPURIOUS
  <2>1. Code[v] = spurious_isr /\ EoiPlace(v) = 2
    BY <1>3 DEF Code, EoiPlace, TIMER, KEYBOARD, SPURIOUS
  <2>2. QED
    BY <2>1 DEF spurious_isr
<1>4. QED
  BY <1>1, <1>2, <1>3 DEF Vectors

LEMMA CodeLabels ==
  ASSUME NEW v \in Vectors, NEW p \in Nat \ {0}, p <= EoiPlace(v) + 2
  PROVE  /\ Code[v][p] = "eoi" <=> p = EoiPlace(v)
         /\ Code[v][p] = "sti" <=> p = EoiPlace(v) + 1
         /\ Code[v][p] = "iret" <=> p = EoiPlace(v) + 2
         /\ (\E j \in p .. Len(Code[v]) : Code[v][j] = "eoi") <=> p <= EoiPlace(v)
<1> DEFINE e == EoiPlace(v)
           code == Code[v]
<1>1. /\ e \in Nat \ {0, 1}
      /\ Len(code) = e + 2
      /\ code[e] = "eoi" /\ code[e + 1] = "sti" /\ code[e + 2] = "iret"
      /\ \A j \in 1 .. e - 1 : code[j] \notin {"eoi", "sti", "iret"}
  BY CodeEnds
<1>2. p <= e + 2
  OBVIOUS
<1> HIDE DEF e, code
<1>3. p \in 1 .. e - 1 \/ p = e \/ p = e + 1 \/ p = e + 2
  BY <1>1, <1>2
<1>4. /\ code[p] = "eoi" <=> p = e
      /\ code[p] = "sti" <=> p = e + 1
      /\ code[p] = "iret" <=> p = e + 2
  BY <1>1, <1>3
<1>5. (\E j \in p .. Len(code) : code[j] = "eoi") <=> p <= e
  <2>1. ASSUME p <= e PROVE \E j \in p .. Len(code) : code[j] = "eoi"
    <3>1. e \in p .. Len(code)
      BY <1>1, <2>1
    <3>2. QED
      BY <1>1, <3>1
  <2>2. ASSUME ~ (p <= e), NEW j \in p .. Len(code) PROVE code[j] # "eoi"
    <3>1. j = e + 1 \/ j = e + 2
      BY <1>1, <2>2
    <3>2. QED
      BY <1>1, <3>1
  <2>3. QED
    BY <2>1, <2>2
<1>6. QED
  BY <1>4, <1>5 DEF e, code

LEMMA LabelPlaces ==
  ASSUME NEW f \in Frame, f.pc <= EoiPlace(f.vec) + 2
  PROVE  /\ LabelOf(f) = "eoi" <=> f.pc = EoiPlace(f.vec)
         /\ LabelOf(f) = "sti" <=> f.pc = EoiPlace(f.vec) + 1
         /\ LabelOf(f) = "iret" <=> f.pc = EoiPlace(f.vec) + 2
         /\ StillTo("eoi", f) <=> f.pc <= EoiPlace(f.vec)
<1>1. f.vec \in Vectors /\ f.pc \in Nat \ {0}
  BY DEF Frame
<1>2. QED
  BY <1>1, CodeLabels DEF LabelOf, StillTo

-----------------------------------------------------------------------------
(* The inductive invariant.  Every frame below the newest waits at the end *)
(* of its epilogue; interrupts are on only when the newest does too; so an *)
(* interrupt taken finds nothing in service, and its vector stays the only *)
(* one in service until the handler's own EOI.                             *)
Shape ==
  /\ frames \in Seq(Frame)
  /\ \A i \in 1 .. Len(frames) : frames[i].pc <= EoiPlace(frames[i].vec) + 2

Below ==
  \A i \in 1 .. Len(frames) - 1 : frames[i].pc = EoiPlace(frames[i].vec) + 2

OnlyInEpilogue ==
  interrupts_on => frames = <<>> \/ Top.pc = EoiPlace(Top.vec) + 2

InService ==
  /\ frames = <<>> => isr = {}
  /\ frames # <<>> => isr = IF Top.pc <= EoiPlace(Top.vec) THEN {Top.vec} \ {SPURIOUS}
                                                         ELSE {}

Stack == Shape /\ Below /\ OnlyInEpilogue /\ InService

Bounds ==
  /\ main = "delay" => discarded = 0
  /\ merged <= ticks

-----------------------------------------------------------------------------
(* Where the running handler is, from the label it is at.                  *)
LEMMA TopFacts ==
  ASSUME Shape, frames # <<>>
  PROVE  /\ Len(frames) \in Nat \ {0}
         /\ Top \in Frame
         /\ Top.vec \in Vectors
         /\ EoiPlace(Top.vec) \in Nat \ {0, 1}
         /\ Top.pc \in 1 .. EoiPlace(Top.vec) + 2
         /\ At("eoi") <=> Top.pc = EoiPlace(Top.vec)
         /\ At("sti") <=> Top.pc = EoiPlace(Top.vec) + 1
         /\ At("iret") <=> Top.pc = EoiPlace(Top.vec) + 2
<1>1. Len(frames) \in Nat \ {0} /\ Top \in Frame
  BY EmptySeq, LenProperties, ElementOfSeq DEF Shape, Top
<1>2. Top.pc <= EoiPlace(Top.vec) + 2
  BY <1>1 DEF Shape, Top
<1>3. Top.vec \in Vectors /\ Top.pc \in Nat \ {0}
  BY <1>1 DEF Frame
<1>4. EoiPlace(Top.vec) \in Nat \ {0, 1}
  BY <1>3, CodeEnds
<1>5. QED
  BY <1>1, <1>2, <1>3, <1>4, LabelPlaces DEF At

(* Going on to the next label changes the newest frame only.               *)
LEMMA AdvanceFrames ==
  ASSUME Shape, Below, frames # <<>>, Top.pc # EoiPlace(Top.vec) + 2,
         NEW c \in 0 .. MaxBytes, AdvanceWith(c)
  PROVE  /\ Shape' /\ Below'
         /\ frames' # <<>>
         /\ Top'.vec = Top.vec /\ Top'.pc = Top.pc + 1 /\ Top'.c = c
<1> DEFINE n == Len(frames)
           t == [Top EXCEPT !.pc = Top.pc + 1, !.c = c]
<1>1. n \in Nat \ {0} /\ Top \in Frame /\ Top.pc \in 1 .. EoiPlace(Top.vec) + 2
      /\ EoiPlace(Top.vec) \in Nat
  BY TopFacts
<1>2. frames' = [frames EXCEPT ![n] = t]
  BY DEF AdvanceWith, Top
<1>3. t \in Frame /\ t.vec = Top.vec /\ t.pc = Top.pc + 1 /\ t.c = c
  <2>1. PICK top \in Frame : top = Top
    BY <1>1
  <2>2. top.pc + 1 \in Nat \ {0}
    BY <2>1 DEF Frame
  <2>3. [top EXCEPT !.pc = top.pc + 1, !.c = c] \in Frame
    BY <2>2 DEF Frame
  <2>4. QED
    BY <2>1, <2>3 DEF Frame
<1> HIDE DEF t
<1>4. /\ frames' \in Seq(Frame) /\ Len(frames') = n
      /\ \A i \in 1 .. n : frames'[i] = IF i = n THEN t ELSE frames[i]
  BY <1>1, <1>2, <1>3, ExceptSeq DEF Shape
<1>5. frames' # <<>>
  BY <1>1, <1>4, EmptySeq
<1>6. Top' = t
  BY <1>1, <1>4 DEF Top
<1>7. Shape'
  BY <1>1, <1>3, <1>4 DEF Shape
<1>8. Below'
  BY <1>1, <1>4 DEF Below
<1>9. QED
  BY <1>3, <1>5, <1>6, <1>7, <1>8

(* A label before the EOI: nothing but the newest frame moves on.          *)
LEMMA BodyStep ==
  ASSUME Stack, NEW label, label \notin {"eoi", "sti", "iret"}, At(label),
         NEW c \in 0 .. MaxBytes, AdvanceWith(c),
         isr' = isr, interrupts_on' = FALSE \/ interrupts_on' = interrupts_on
  PROVE  Stack'
<1>1. frames # <<>> /\ LabelOf(Top) = label
  BY DEF At
<1>2. Top.pc < EoiPlace(Top.vec)
  <2>1. ~ At("eoi") /\ ~ At("sti") /\ ~ At("iret")
    BY <1>1 DEF At
  <2>2. QED
    BY <1>1, <2>1, TopFacts DEF Stack
<1>3. EoiPlace(Top.vec) \in Nat /\ Top.pc \in Nat
  BY <1>1, TopFacts DEF Stack
<1>4. /\ Shape' /\ Below'
      /\ frames' # <<>>
      /\ Top'.vec = Top.vec /\ Top'.pc = Top.pc + 1
  BY <1>1, <1>2, <1>3, AdvanceFrames DEF Stack
<1>5. ~ interrupts_on'
  <2>1. Top.pc # EoiPlace(Top.vec) + 2
    BY <1>2, <1>3
  <2>2. ~ interrupts_on
    BY <1>1, <2>1 DEF Stack, OnlyInEpilogue
  <2>3. QED
    BY <2>2
<1>6. OnlyInEpilogue'
  BY <1>5 DEF OnlyInEpilogue
<1>7. InService'
  BY <1>1, <1>2, <1>3, <1>4 DEF Stack, InService
<1>8. QED
  BY <1>4, <1>6, <1>7 DEF Stack

LEMMA EoiStep == Stack /\ TypeOK /\ Eoi => Stack'
<1> SUFFICES ASSUME Stack, TypeOK, Eoi PROVE Stack'
  OBVIOUS
<1>1. frames # <<>> /\ At("eoi") /\ AdvanceWith(Top.c) /\ interrupts_on' = interrupts_on
      /\ isr' = {v \in isr : \E w \in isr : w > v}
  BY DEF Eoi, At, Advance
<1>2. /\ Top.pc = EoiPlace(Top.vec)
      /\ EoiPlace(Top.vec) \in Nat
      /\ Top.vec \in Vectors
      /\ Top.c \in 0 .. MaxBytes
  BY <1>1, TopFacts DEF Stack, Frame
<1>3. /\ Shape' /\ Below'
      /\ frames' # <<>>
      /\ Top'.vec = Top.vec /\ Top'.pc = Top.pc + 1
  BY <1>1, <1>2, AdvanceFrames DEF Stack
<1>4. isr \subseteq {Top.vec} /\ Top.vec \in Nat
  BY <1>1, <1>2 DEF Stack, InService, Vectors, TIMER, KEYBOARD, SPURIOUS
<1>5. isr' = {}
  BY <1>1, <1>4
<1>6. OnlyInEpilogue'
  BY <1>1, <1>2 DEF Stack, OnlyInEpilogue
<1>7. InService'
  BY <1>2, <1>3, <1>5 DEF InService
<1>8. QED
  BY <1>3, <1>6, <1>7 DEF Stack

LEMMA StiStep == Stack /\ TypeOK /\ Sti => Stack'
<1> SUFFICES ASSUME Stack, TypeOK, Sti PROVE Stack'
  OBVIOUS
<1>1. frames # <<>> /\ At("sti") /\ AdvanceWith(Top.c) /\ isr' = isr
  BY DEF Sti, At, Advance, apic
<1>2. /\ Top.pc = EoiPlace(Top.vec) + 1
      /\ EoiPlace(Top.vec) \in Nat
      /\ Top.c \in 0 .. MaxBytes
  BY <1>1, TopFacts DEF Stack, Frame
<1>3. /\ Shape' /\ Below'
      /\ frames' # <<>>
      /\ Top'.vec = Top.vec /\ Top'.pc = Top.pc + 1
  BY <1>1, <1>2, AdvanceFrames DEF Stack
<1>4. isr' = {}
  BY <1>1, <1>2 DEF Stack, InService
<1>5. OnlyInEpilogue' /\ InService'
  BY <1>2, <1>3, <1>4 DEF OnlyInEpilogue, InService
<1>6. QED
  BY <1>3, <1>5 DEF Stack

(* The frame returned to has been waiting in its epilogue.                 *)
LEMMA IretStep == Stack /\ TypeOK /\ Iret => Stack'
<1> SUFFICES ASSUME Stack, TypeOK, Iret PROVE Stack'
  OBVIOUS
<1> DEFINE n == Len(frames)
<1>1. /\ frames # <<>> /\ At("iret")
      /\ frames' = SubSeq(frames, 1, n - 1)
      /\ isr' = isr
  BY DEF Iret, At, apic
<1>2. /\ n \in Nat \ {0}
      /\ Top.pc = EoiPlace(Top.vec) + 2
      /\ EoiPlace(Top.vec) \in Nat
  BY <1>1, TopFacts DEF Stack
<1>3. /\ frames' \in Seq(Frame) /\ Len(frames') = n - 1
      /\ \A i \in 1 .. n - 1 : frames'[i] = frames[i]
  <2>1. \A i \in 1 .. n - 1 : frames[i] \in Frame
    BY <1>2, ElementOfSeq DEF Stack, Shape
  <2>2. /\ frames' \in Seq(Frame)
        /\ Len(frames') = IF 1 <= n - 1 THEN (n - 1) - 1 + 1 ELSE 0
        /\ \A i \in 1 .. (n - 1) - 1 + 1 : frames'[i] = frames[1 + i - 1]
    <3>1. n - 1 \in Int
      BY <1>2
    <3>2. QED
      BY <1>1, <2>1, <3>1, SubSeqProperties
  <2>3. Len(frames') = n - 1
    <3>1. \A m \in Nat \ {0} : (IF 1 <= m - 1 THEN (m - 1) - 1 + 1 ELSE 0) = m - 1
      OBVIOUS
    <3>2. QED
      BY <1>2, <2>2, <3>1
  <2>4. ASSUME NEW i \in 1 .. n - 1 PROVE frames'[i] = frames[i]
    <3>1. i \in 1 .. (n - 1) - 1 + 1 /\ 1 + i - 1 = i
      BY <1>2
    <3>2. QED
      BY <2>2, <3>1
  <2>5. QED
    BY <2>2, <2>3, <2>4
<1>4. Shape' /\ Below'
  <2>1. ASSUME NEW i \in 1 .. n - 1
        PROVE  frames'[i].pc = EoiPlace(frames'[i].vec) + 2
    BY <1>3 DEF Stack, Below
  <2>2. ASSUME NEW i \in 1 .. n - 1
        PROVE  frames'[i].pc <= EoiPlace(frames'[i].vec) + 2
    <3>1. i \in 1 .. n
      BY <1>2
    <3>2. QED
      BY <1>3, <3>1 DEF Stack, Shape
  <2>3. Shape'
    BY <1>3, <2>2 DEF Shape
  <2>4. \A i \in 1 .. (n - 1) - 1 : i \in 1 .. n - 1
    BY <1>2
  <2>5. Below'
    BY <1>3, <2>1, <2>4 DEF Below
  <2>6. QED
    BY <2>3, <2>5
<1>5. frames' # <<>> => Top'.pc = EoiPlace(Top'.vec) + 2
  <2>1. frames' # <<>> => n - 1 \in 1 .. n - 1
    BY <1>2, <1>3, EmptySeq
  <2>2. frames' # <<>> => Top' = frames[n - 1]
    BY <1>3, <2>1 DEF Top
  <2>3. QED
    BY <2>1, <2>2 DEF Stack, Below
<1>6. isr = {}
  BY <1>1, <1>2 DEF Stack, InService
<1>7. frames' # <<>> => EoiPlace(Top'.vec) \in Nat
  BY DEF EoiPlace
<1>8. OnlyInEpilogue' /\ InService'
  BY <1>1, <1>5, <1>6, <1>7 DEF OnlyInEpilogue, InService
<1>9. QED
  BY <1>4, <1>8 DEF Stack

(* With interrupts on, nothing is in service.                              *)
LEMMA NothingInService ==
  ASSUME Stack, interrupts_on
  PROVE  isr = {}
<1>1. CASE frames = <<>>
  BY <1>1 DEF Stack, InService
<1>2. CASE frames # <<>>
  <2>1. Top.pc = EoiPlace(Top.vec) + 2 /\ EoiPlace(Top.vec) \in Nat
    BY <1>2, TopFacts DEF Stack, OnlyInEpilogue
  <2>2. QED
    BY <1>2, <2>1 DEF Stack, InService
<1>3. QED
  BY <1>1, <1>2

(* An interrupt taken in an epilogue buries only that epilogue.            *)
LEMMA EnterStep ==
  ASSUME Stack, TypeOK, interrupts_on, NEW vec \in Vectors, Enter(vec),
         isr' = {vec} \ {SPURIOUS}
  PROVE  Stack'
<1> DEFINE n == Len(frames)
           f == [vec |-> vec, pc |-> 1, flags |-> interrupts_on, c |-> Empty]
<1>1. f \in Frame
  BY DEF TypeOK, Frame, Empty
<1>2. /\ frames' \in Seq(Frame) /\ frames' # <<>>
      /\ Len(frames') = n + 1
      /\ \A i \in 1 .. n : frames'[i] = frames[i]
      /\ frames'[n + 1] = f
  BY <1>1, AppendProperties DEF Enter, Stack, Shape
<1>3. n \in Nat
  BY LenProperties DEF Stack, Shape
<1>4. EoiPlace(vec) \in Nat \ {0, 1}
  BY CodeEnds
<1>5. \A i \in 1 .. n : frames[i].pc = EoiPlace(frames[i].vec) + 2
  <2>1. CASE frames = <<>>
    <3>1. n = 0
      BY <2>1
    <3>2. QED
      BY <3>1
  <2>2. CASE frames # <<>>
    <3>1. frames[n].pc = EoiPlace(frames[n].vec) + 2
      BY <2>2 DEF Stack, OnlyInEpilogue, Top
    <3>2. \A i \in 1 .. n : i = n \/ i \in 1 .. n - 1
      BY <1>3
    <3>3. QED
      BY <3>1, <3>2 DEF Stack, Below
  <2>3. QED
    BY <2>1, <2>2
<1>6. Shape'
  <2>1. ASSUME NEW i \in 1 .. n PROVE frames'[i].pc <= EoiPlace(frames'[i].vec) + 2
    <3>1. frames'[i].pc = EoiPlace(frames'[i].vec) + 2 /\ EoiPlace(frames'[i].vec) \in Nat
      BY <1>2, <1>5 DEF EoiPlace
    <3>2. QED
      BY <3>1
  <2>2. frames'[n + 1].pc <= EoiPlace(frames'[n + 1].vec) + 2
    <3>1. frames'[n + 1].pc = 1 /\ frames'[n + 1].vec = vec
      BY <1>2
    <3>2. QED
      BY <1>4, <3>1
  <2>3. \A i \in 1 .. n + 1 : i \in 1 .. n \/ i = n + 1
    BY <1>3
  <2>4. QED
    BY <1>2, <2>1, <2>2, <2>3 DEF Shape
<1>7. Below'
  <2>1. (n + 1) - 1 = n
    BY <1>3
  <2>2. QED
    BY <1>2, <1>5, <2>1 DEF Below
<1>8. Top'.vec = vec /\ Top'.pc = 1
  BY <1>2 DEF Top
<1>9. OnlyInEpilogue'
  <2>1. interrupts_on' = FALSE
    BY DEF Enter
  <2>2. QED
    BY <2>1 DEF OnlyInEpilogue
<1>10. InService'
  BY <1>2, <1>4, <1>8 DEF InService
<1>11. QED
  BY <1>6, <1>7, <1>9, <1>10 DEF Stack

(* A step that leaves frames and the vectors in service alone, and turns   *)
(* interrupts on only on an empty stack.                                   *)
LEMMA OutsideStep ==
  ASSUME Stack, frames' = frames, isr' = isr,
         frames = <<>> \/ interrupts_on' = interrupts_on
  PROVE  Stack'
<1>1. Shape' /\ Below' /\ InService'
  BY DEF Stack, Shape, Below, InService, Top
<1>2. OnlyInEpilogue'
  BY DEF Stack, OnlyInEpilogue, Top
<1>3. QED
  BY <1>1, <1>2 DEF Stack

LEMMA StackStep == Stack /\ TypeOK /\ [Next]_vars => Stack'
<1> SUFFICES ASSUME Stack, TypeOK, [Next]_vars PROVE Stack'
  OBVIOUS
<1> USE DEF cpu, apic, entry, kbc, clock, counted
<1>1. CASE MainStep
  BY <1>1, OutsideStep
  DEF MainStep, MainAt, DelayRead, StartTimer, Unmask, Route, EnableInterrupts
<1>2. ASSUME frames # <<>> PROVE Top.c \in 0 .. MaxBytes
  BY <1>2, TopFacts DEF Stack, Frame
<1>3. CASE Cli \/ Count \/ UseKey
  <2>1. PICK label : /\ label \in {"cli", "count", "use"} /\ At(label)
                     /\ AdvanceWith(Top.c)
                     /\ isr' = isr
                     /\ interrupts_on' = FALSE \/ interrupts_on' = interrupts_on
    BY <1>3 DEF Cli, Count, UseKey, Advance
  <2>2. label \notin {"eoi", "sti", "iret"}
    BY <2>1
  <2>3. QED
    BY <1>2, <2>1, <2>2, BodyStep DEF At
<1>4. CASE ReadStatus \/ ReadData
  <2>1. PICK label, c : /\ label \in {"status", "data"} /\ At(label)
                        /\ c \in {Top.c, buffer} /\ AdvanceWith(c)
                        /\ isr' = isr /\ interrupts_on' = interrupts_on
    BY <1>4 DEF ReadStatus, ReadData, Advance
  <2>2. label \notin {"eoi", "sti", "iret"} /\ c \in 0 .. MaxBytes
    BY <1>2, <2>1 DEF At, TypeOK
  <2>3. QED
    BY <2>1, <2>2, BodyStep
<1>5. CASE Deliver
  <2>1. PICK v \in irr : isr' = isr \cup {v} /\ Enter(v)
    BY <1>5 DEF Deliver
  <2>2. v \in Vectors /\ v # SPURIOUS
    <3>1. v \in {TIMER, KEYBOARD}
      BY DEF TypeOK
    <3>2. QED
      BY <3>1 DEF Vectors, TIMER, KEYBOARD, SPURIOUS
  <2>3. isr = {} /\ interrupts_on
    BY <1>5, NothingInService DEF Deliver
  <2>4. isr' = {v} \ {SPURIOUS}
    BY <2>1, <2>2, <2>3
  <2>5. QED
    BY <2>1, <2>2, <2>3, <2>4, EnterStep
<1>6. CASE DeliverSpurious
  <2>1. isr = {} /\ isr' = isr /\ interrupts_on /\ Enter(SPURIOUS)
    BY <1>6, NothingInService DEF DeliverSpurious
  <2>2. isr' = {SPURIOUS} \ {SPURIOUS} /\ SPURIOUS \in Vectors
    BY <2>1 DEF Vectors
  <2>3. QED
    BY <2>1, <2>2, EnterStep
<1>7. CASE Tick \/ KeyboardSends
  BY <1>7, OutsideStep DEF Tick, KeyboardSends
<1>8. CASE UNCHANGED vars
  BY <1>8, OutsideStep DEF vars
<1>9. QED
  BY <1>1, <1>3, <1>4, <1>5, <1>6, <1>7, <1>8, EoiStep, StiStep, IretStep
  DEF Next, CpuStep, HandlerStep

-----------------------------------------------------------------------------
(* Type correctness.  Bounds keeps the two counters without a guard of     *)
(* their own inside their range.                                           *)

LEMMA TypeStep ==
  TypeOK /\ Bounds /\ Stack /\ [Next]_vars => TypeOK' /\ Bounds'
<1> SUFFICES ASSUME TypeOK, Bounds, Stack, [Next]_vars PROVE TypeOK' /\ Bounds'
  OBVIOUS
<1> USE DEF cpu, apic, entry, kbc, clock, counted
<1>0. /\ buffer \in 0 .. MaxBytes /\ sent \in 0 .. MaxBytes /\ unheard \in 0 .. MaxBytes
      /\ discarded \in 0 .. MaxBytes
      /\ ticks \in 0 .. MaxTicks /\ merged \in 0 .. MaxTicks
      /\ MaxBytes \in Nat /\ MaxTicks \in Nat /\ MaxSpurious \in Nat /\ IntMax \in Nat
  BY DEF TypeOK
<1>1. CASE DelayRead
  <2>1. discarded' \in 0 .. MaxBytes
    BY <1>0, <1>1 DEF DelayRead, MainAt, Bounds, Empty
  <2>2. QED
    BY <1>0, <1>1, <2>1 DEF TypeOK, Bounds, DelayRead, MainAt, MainLabels, Empty
<1>2. CASE StartTimer \/ Unmask \/ Route \/ EnableInterrupts
  BY <1>2 DEF TypeOK, Bounds, StartTimer, Unmask, Route, EnableInterrupts, MainAt,
              MainLabels
<1>3. ASSUME frames # <<>>, NEW c \in 0 .. MaxBytes, AdvanceWith(c)
      PROVE  frames' \in Seq(Frame)
  <2>1. Top \in Frame /\ Len(frames) \in 1 .. Len(frames)
    BY <1>3, TopFacts DEF Stack
  <2>2. PICK top \in Frame : top = Top
    BY <2>1
  <2>3. top.pc + 1 \in Nat \ {0}
    BY <2>2 DEF Frame
  <2>4. [top EXCEPT !.pc = top.pc + 1, !.c = c] \in Frame
    BY <2>3 DEF Frame
  <2>5. [Top EXCEPT !.pc = Top.pc + 1, !.c = c] \in Frame
    BY <2>2, <2>4
  <2>6. QED
    BY <1>3, <2>1, <2>5, ExceptSeq DEF Stack, Shape, AdvanceWith
<1>4. ASSUME frames # <<>> PROVE Top.c \in 0 .. MaxBytes
  BY <1>4, TopFacts DEF Stack, Frame
<1>5. CASE Cli \/ Sti
  BY <1>3, <1>4, <1>5 DEF TypeOK, Bounds, Cli, Sti, At, Advance
<1>6. CASE Count
  <2>1. milliseconds' \in -IntMax - 1 .. IntMax
    BY <1>0, <1>6 DEF TypeOK, Count, incremented
  <2>2. minutes_shown' \in Seq(Int)
    BY <1>0, <1>6, <2>1 DEF TypeOK, Count
  <2>3. QED
    BY <1>3, <1>4, <1>6, <2>1, <2>2 DEF TypeOK, Bounds, Count, At, Advance
<1>7. CASE ReadStatus \/ ReadData
  <2>1. frames # <<>>
    BY <1>7 DEF ReadStatus, ReadData, At
  <2>2. AdvanceWith(Top.c) \/ AdvanceWith(buffer)
    BY <1>7 DEF ReadStatus, ReadData, Advance
  <2>3. frames' \in Seq(Frame)
    BY <1>0, <1>3, <1>4, <2>1, <2>2
  <2>4. buffer' \in 0 .. MaxBytes
    BY <1>0, <1>7 DEF ReadStatus, ReadData, Empty
  <2>5. QED
    BY <1>0, <1>7, <2>3, <2>4 DEF TypeOK, Bounds, ReadStatus, ReadData
<1>8. CASE UseKey
  <2>1. keys_shown' \in Seq(1 .. MaxBytes)
    <3>1. Top.c # Empty => Top.c \in 1 .. MaxBytes
      BY <1>0, <1>4, <1>8 DEF UseKey, At, Empty
    <3>2. Top.c # Empty => Append(keys_shown, Top.c) \in Seq(1 .. MaxBytes)
      BY <3>1, AppendProperties DEF TypeOK
    <3>3. QED
      BY <1>8, <3>2 DEF TypeOK, UseKey
  <2>2. QED
    BY <1>3, <1>4, <1>8, <2>1 DEF TypeOK, Bounds, UseKey, At, Advance
<1>9. CASE Eoi
  BY <1>3, <1>4, <1>9 DEF TypeOK, Bounds, Eoi, At, Advance
<1>10. CASE Iret
  <2>1. Top.flags \in BOOLEAN
    BY <1>10, TopFacts DEF Stack, Iret, At, Frame
  <2>2. frames' \in Seq(Frame)
    BY <1>10, StackStep DEF Stack, Shape, Next, CpuStep, HandlerStep
  <2>3. QED
    BY <1>10, <2>1, <2>2 DEF TypeOK, Bounds, Iret
<1>11. CASE Deliver \/ DeliverSpurious
  <2>1. frames' \in Seq(Frame)
    BY StackStep DEF Stack, Shape
  <2>2. interrupts_on' \in BOOLEAN
    BY <1>11 DEF Deliver, DeliverSpurious, Enter
  <2>3. irr' \subseteq {TIMER, KEYBOARD} /\ isr' \subseteq {TIMER, KEYBOARD}
    BY <1>11 DEF TypeOK, Deliver, DeliverSpurious
  <2>4. spurious' \in 0 .. MaxSpurious
    BY <1>0, <1>11 DEF TypeOK, Deliver, DeliverSpurious
  <2>5. QED
    BY <1>11, <2>1, <2>2, <2>3, <2>4 DEF TypeOK, Bounds, Deliver, DeliverSpurious
<1>12. CASE Tick
  <2>1. ticks' \in 0 .. MaxTicks /\ merged' \in 0 .. MaxTicks /\ merged' <= ticks'
    BY <1>0, <1>12 DEF Tick, Bounds
  <2>2. QED
    BY <1>12, <2>1 DEF TypeOK, Bounds, Tick
<1>13. CASE KeyboardSends
  <2>1. sent' \in 0 .. MaxBytes
    BY <1>0, <1>13 DEF KeyboardSends
  <2>2. QED
    BY <1>0, <1>13, <2>1 DEF TypeOK, Bounds, KeyboardSends
<1>14. CASE UNCHANGED vars
  BY <1>14 DEF TypeOK, Bounds, vars
<1>15. QED
  BY <1>1, <1>2, <1>5, <1>6, <1>7, <1>8, <1>9, <1>10, <1>11, <1>12, <1>13, <1>14
  DEF Next, CpuStep, MainStep, HandlerStep

LEMMA Starts == Init => TypeOK /\ Bounds /\ Stack
<1> SUFFICES ASSUME Init PROVE TypeOK /\ Bounds /\ Stack
  OBVIOUS
<1>1. TypeOK
  <2>1. /\ 0 \in 0 .. MaxBytes /\ 0 \in 0 .. MaxTicks /\ 0 \in 0 .. MaxSpurious
        /\ 0 \in -IntMax - 1 .. IntMax
    OBVIOUS
  <2>2. /\ frames \in Seq(Frame) /\ minutes_shown \in Seq(Int)
        /\ keys_shown \in Seq(1 .. MaxBytes)
    BY DEF Init
  <2>3. QED
    BY <2>1, <2>2 DEF Init, TypeOK, MainLabels, Empty
<1>2. Bounds /\ Stack
  BY DEF Init, Bounds, Stack, Shape, Below, OnlyInEpilogue, InService
<1>3. QED
  BY <1>1, <1>2

LEMMA Inductive == Spec => [](TypeOK /\ Bounds /\ Stack)
<1>1. TypeOK /\ Bounds /\ Stack /\ [Next]_vars => (TypeOK /\ Bounds /\ Stack)'
  BY TypeStep, StackStep
<1>2. QED
  BY <1>1, Starts, PTL DEF Spec

(* The state of the machine stays well-formed; milliseconds in particular  *)
(* stays an int.                                                           *)
THEOREM TypeCorrect == Spec => []TypeOK
BY Inductive, PTL

(* However deep interrupts nest, only the newest handler is outside its    *)
(* epilogue: bodies never interleave, so the terminal, the decoder and the *)
(* counter need no lock.                                                   *)
THEOREM BodiesExclude == Spec => []OneBodyAtATime
<1>1. TypeOK /\ Bounds /\ Stack => OneBodyAtATime
  <2> SUFFICES ASSUME Stack PROVE OneBodyAtATime
    OBVIOUS
  <2>1. ASSUME NEW i \in 1 .. Len(frames) - 1 PROVE LabelOf(frames[i]) = "iret"
    <3>1. frames[i] \in Frame
      BY LenProperties, ElementOfSeq DEF Stack, Shape
    <3>2. frames[i].pc = EoiPlace(frames[i].vec) + 2 /\ EoiPlace(frames[i].vec) \in Nat
      BY DEF Stack, Below, EoiPlace
    <3>3. QED
      BY <3>1, <3>2, LabelPlaces
  <2>2. interrupts_on /\ frames # <<>> => LabelOf(Top) = "iret"
    BY TopFacts DEF Stack, OnlyInEpilogue, At
  <2>3. QED
    BY <2>1, <2>2 DEF OneBodyAtATime
<1>2. QED
  BY <1>1, Inductive, PTL

(* At every moment the vectors in service are those of the handlers that   *)
(* have not written their EOI yet, and there is at most one: no handler,   *)
(* spurious_isr included, acknowledges another one's interrupt.            *)
THEOREM EoiStaysOwn == Spec => []EoiIsOwn
<1>1. TypeOK /\ Bounds /\ Stack => EoiIsOwn
  <2> SUFFICES ASSUME Stack PROVE EoiIsOwn
    OBVIOUS
  <2>1. CASE frames = <<>>
    BY <2>1 DEF Stack, InService, EoiIsOwn, FramesStillTo
  <2>2. CASE frames # <<>>
    <3> DEFINE n == Len(frames)
    <3>1. n \in Nat \ {0}
      BY <2>2, TopFacts DEF Stack
    <3>2. ASSUME NEW i \in 1 .. n
          PROVE  StillTo("eoi", frames[i]) <=> frames[i].pc <= EoiPlace(frames[i].vec)
      <4>1. frames[i] \in Frame /\ frames[i].pc <= EoiPlace(frames[i].vec) + 2
        BY ElementOfSeq DEF Stack, Shape
      <4>2. QED
        BY <4>1, LabelPlaces
    <3>3. ASSUME NEW i \in 1 .. n, i # n PROVE ~ StillTo("eoi", frames[i])
      <4>1. frames[i].pc = EoiPlace(frames[i].vec) + 2 /\ EoiPlace(frames[i].vec) \in Nat
        BY <3>1, <3>3 DEF Stack, Below, EoiPlace
      <4>2. QED
        BY <3>2, <4>1
    <3>4. FramesStillTo("eoi") = IF Top.pc <= EoiPlace(Top.vec) THEN {n} ELSE {}
      BY <3>1, <3>2, <3>3 DEF FramesStillTo, Top
    <3>5. QED
      BY <2>2, <3>4 DEF Stack, InService, EoiIsOwn, Top
  <2>3. QED
    BY <2>1, <2>2
<1>2. QED
  BY <1>1, Inductive, PTL

-----------------------------------------------------------------------------
(* What the newest frame has in hand: a tick it has not counted, a byte it *)
(* has not read, a byte it has not used.                                   *)
Counting == frames # <<>> /\ Top.vec = TIMER /\ Top.pc <= 2
Reading  == frames # <<>> /\ Top.vec = KEYBOARD /\ Top.pc <= 3
Using    == frames # <<>> /\ Top.vec = KEYBOARD /\ Top.pc = 4

(* The labels of the bodies, by their places.                              *)
LEMMA BodyPlaces ==
  ASSUME NEW v \in Vectors, NEW p \in Nat \ {0}, p <= EoiPlace(v) + 2
  PROVE  /\ Code[v][p] = "cli" <=> p = 1
         /\ Code[v][p] = "count"  <=> v = TIMER /\ p = 2
         /\ Code[v][p] = "status" <=> v = KEYBOARD /\ p = 2
         /\ Code[v][p] = "data"   <=> v = KEYBOARD /\ p = 3
         /\ Code[v][p] = "use"    <=> v = KEYBOARD /\ p = 4
         /\ (\E j \in p .. Len(Code[v]) : Code[v][j] = "count") <=> v = TIMER /\ p <= 2
         /\ (\E j \in p .. Len(Code[v]) : Code[v][j] = "data") <=> v = KEYBOARD /\ p <= 3
         /\ (\E j \in p .. Len(Code[v]) : Code[v][j] = "use") <=> v = KEYBOARD /\ p <= 4
<1> USE DEF TIMER, KEYBOARD, SPURIOUS
<1>1. CASE v = TIMER
  <2>1. Code[v] = timer_isr /\ EoiPlace(v) = 3
    BY <1>1 DEF Code, EoiPlace
  <2>2. /\ Len(Code[v]) = 5 /\ Code[v][1] = "cli" /\ Code[v][2] = "count"
        /\ Code[v][3] = "eoi" /\ Code[v][4] = "sti" /\ Code[v][5] = "iret"
    BY <2>1 DEF timer_isr
  <2>3. p \in {1, 2, 3, 4, 5} /\ p .. 5 \subseteq {1, 2, 3, 4, 5}
    BY <2>1
  <2>4. \A j \in p .. 5 : j \in {1, 2, 3, 4, 5} /\ j >= p
    BY <2>1
  <2>5. p <= 2 => 2 \in p .. 5
    BY <2>1
  <2>6. QED
    BY <1>1, <2>2, <2>3, <2>4, <2>5
<1>2. CASE v = KEYBOARD
  <2>1. Code[v] = keyboard_isr /\ EoiPlace(v) = 5
    BY <1>2 DEF Code, EoiPlace
  <2>2. /\ Len(Code[v]) = 7 /\ Code[v][1] = "cli" /\ Code[v][2] = "status"
        /\ Code[v][3] = "data" /\ Code[v][4] = "use" /\ Code[v][5] = "eoi"
        /\ Code[v][6] = "sti" /\ Code[v][7] = "iret"
    BY <2>1 DEF keyboard_isr
  <2>3. p \in {1, 2, 3, 4, 5, 6, 7}
    BY <2>1
  <2>4. \A j \in p .. 7 : j \in {1, 2, 3, 4, 5, 6, 7} /\ j >= p
    BY <2>1
  <2>5. (p <= 3 => 3 \in p .. 7) /\ (p <= 4 => 4 \in p .. 7)
    BY <2>1
  <2>6. QED
    BY <1>2, <2>2, <2>3, <2>4, <2>5
<1>3. CASE v = SPURIOUS
  <2>1. Code[v] = spurious_isr /\ EoiPlace(v) = 2
    BY <1>3 DEF Code, EoiPlace
  <2>2. /\ Len(Code[v]) = 4 /\ Code[v][1] = "cli" /\ Code[v][2] = "eoi"
        /\ Code[v][3] = "sti" /\ Code[v][4] = "iret"
    BY <2>1 DEF spurious_isr
  <2>3. p \in {1, 2, 3, 4} /\ \A j \in p .. 4 : j \in {1, 2, 3, 4}
    BY <2>1
  <2>4. QED
    BY <1>3, <2>2, <2>3
<1>4. QED
  BY <1>1, <1>2, <1>3 DEF Vectors

(* With nothing in service, no handler has anything in hand.               *)
LEMMA NothingInHand ==
  ASSUME Stack, isr = {}
  PROVE  ~ Counting /\ ~ Reading /\ ~ Using
<1>1. ASSUME frames # <<>>, Top.vec = TIMER \/ Top.vec = KEYBOARD
      PROVE  ~ (Top.pc <= EoiPlace(Top.vec))
  BY <1>1 DEF Stack, InService, TIMER, KEYBOARD, SPURIOUS
<1>2. ASSUME frames # <<>> PROVE Top.pc \in Nat
  BY <1>2, TopFacts DEF Stack
<1>3. EoiPlace(TIMER) = 3 /\ EoiPlace(KEYBOARD) = 5
  BY DEF EoiPlace, TIMER, KEYBOARD
<1>4. QED
  BY <1>1, <1>2, <1>3 DEF Counting, Reading, Using

(* Only the newest frame has anything in hand.                             *)
LEMMA StillToTop ==
  ASSUME Stack
  PROVE  /\ FramesStillTo("count") = IF Counting THEN {Len(frames)} ELSE {}
         /\ FramesStillTo("data") = IF Reading THEN {Len(frames)} ELSE {}
         /\ FramesStillTo("use") = IF Reading \/ Using THEN {Len(frames)} ELSE {}
<1> DEFINE n == Len(frames)
<1>1. n \in Nat
  BY LenProperties DEF Stack, Shape
<1>2. ASSUME NEW i \in 1 .. n
      PROVE  /\ StillTo("count", frames[i]) <=> frames[i].vec = TIMER /\ frames[i].pc <= 2
             /\ StillTo("data", frames[i]) <=> frames[i].vec = KEYBOARD /\ frames[i].pc <= 3
             /\ StillTo("use", frames[i]) <=> frames[i].vec = KEYBOARD /\ frames[i].pc <= 4
             /\ frames[i].pc \in Nat
  <2>1. frames[i] \in Frame /\ frames[i].pc <= EoiPlace(frames[i].vec) + 2
    BY ElementOfSeq DEF Stack, Shape
  <2>2. frames[i].vec \in Vectors /\ frames[i].pc \in Nat \ {0}
    BY <2>1 DEF Frame
  <2> DEFINE v == frames[i].vec
             p == frames[i].pc
  <2>3. /\ (\E j \in p .. Len(Code[v]) : Code[v][j] = "count") <=> v = TIMER /\ p <= 2
        /\ (\E j \in p .. Len(Code[v]) : Code[v][j] = "data") <=> v = KEYBOARD /\ p <= 3
        /\ (\E j \in p .. Len(Code[v]) : Code[v][j] = "use") <=> v = KEYBOARD /\ p <= 4
    <3> HIDE DEF v, p
    <3>1. v \in Vectors /\ p \in Nat \ {0} /\ p <= EoiPlace(v) + 2
      BY <2>1, <2>2 DEF v, p
    <3>2. QED
      BY <3>1, BodyPlaces
  <2>4. QED
    BY <2>2, <2>3 DEF StillTo
<1>3. ASSUME NEW i \in 1 .. n, i # n
      PROVE  \A label \in {"count", "data", "use"} : ~ StillTo(label, frames[i])
  <2>1. i \in 1 .. n - 1
    BY <1>1, <1>3
  <2>2. frames[i].pc = EoiPlace(frames[i].vec) + 2
    BY <2>1 DEF Stack, Below
  <2>3. /\ frames[i].vec = TIMER => frames[i].pc = 5
        /\ frames[i].vec = KEYBOARD => frames[i].pc = 7
    BY <2>2 DEF EoiPlace, TIMER, KEYBOARD
  <2>4. QED
    BY <1>2, <2>3
<1>4. n # 0 => n \in 1 .. n /\ Top = frames[n]
  BY <1>1 DEF Top
<1>5. frames = <<>> <=> n = 0
  BY EmptySeq DEF Stack, Shape
<1>6. FramesStillTo("count") = IF Counting THEN {n} ELSE {}
  BY <1>2, <1>3, <1>4, <1>5 DEF FramesStillTo, Counting
<1>7. FramesStillTo("data") = IF Reading THEN {n} ELSE {}
  BY <1>2, <1>3, <1>4, <1>5 DEF FramesStillTo, Reading
<1>8. frames # <<>> => (Top.pc <= 4 <=> Top.pc <= 3 \/ Top.pc = 4)
  BY <1>2, <1>4, <1>5
<1>9. FramesStillTo("use") = IF Reading \/ Using THEN {n} ELSE {}
  BY <1>2, <1>3, <1>4, <1>5, <1>8 DEF FramesStillTo, Reading, Using
<1>10. QED
  BY <1>6, <1>7, <1>9

(* What each label does to what is in hand.                                *)
LEMMA BodyAt ==
  ASSUME Stack, NEW label, At(label)
  PROVE  /\ Top.vec \in Vectors /\ Top.pc \in Nat \ {0} /\ Top.c \in 0 .. MaxBytes
         /\ label = "cli" => Top.pc = 1
         /\ label = "count" => Top.vec = TIMER /\ Top.pc = 2
         /\ label = "status" => Top.vec = KEYBOARD /\ Top.pc = 2
         /\ label = "data" => Top.vec = KEYBOARD /\ Top.pc = 3
         /\ label = "use" => Top.vec = KEYBOARD /\ Top.pc = 4
         /\ label \in {"eoi", "sti"} => Top.pc \in EoiPlace(Top.vec) .. EoiPlace(Top.vec) + 1
         /\ label # "iret" => Top.pc # EoiPlace(Top.vec) + 2
<1>1. frames # <<>> /\ LabelOf(Top) = label
  BY DEF At
<1>2. /\ Top \in Frame /\ Top.vec \in Vectors /\ EoiPlace(Top.vec) \in Nat
      /\ Top.pc \in 1 .. EoiPlace(Top.vec) + 2
      /\ At("eoi") <=> Top.pc = EoiPlace(Top.vec)
      /\ At("sti") <=> Top.pc = EoiPlace(Top.vec) + 1
      /\ At("iret") <=> Top.pc = EoiPlace(Top.vec) + 2
  BY <1>1, TopFacts DEF Stack
<1>3. Top.c \in 0 .. MaxBytes /\ Top.pc \in Nat \ {0} /\ Top.pc <= EoiPlace(Top.vec) + 2
  BY <1>2 DEF Frame
<1>4. Code[Top.vec][Top.pc] = label
  BY <1>1 DEF LabelOf
<1>5. label \in {"eoi", "sti"} => Top.pc \in EoiPlace(Top.vec) .. EoiPlace(Top.vec) + 1
  BY <1>2
<1>6. label # "iret" => Top.pc # EoiPlace(Top.vec) + 2
  BY <1>1, <1>2 DEF At
<1> DEFINE v == Top.vec
           p == Top.pc
<1> HIDE DEF v, p
<1>7. v \in Vectors /\ p \in Nat \ {0} /\ p <= EoiPlace(v) + 2 /\ Code[v][p] = label
  BY <1>2, <1>3, <1>4 DEF v, p
<1>8. /\ label = "cli" => p = 1
      /\ label = "count" => v = TIMER /\ p = 2
      /\ label = "status" => v = KEYBOARD /\ p = 2
      /\ label = "data" => v = KEYBOARD /\ p = 3
      /\ label = "use" => v = KEYBOARD /\ p = 4
  BY <1>7, BodyPlaces
<1>9. QED
  BY <1>2, <1>3, <1>5, <1>6, <1>8 DEF v, p

LEMMA AdvanceMoves ==
  ASSUME Stack, NEW label, At(label), label # "iret", NEW c \in 0 .. MaxBytes,
         AdvanceWith(c)
  PROVE  /\ frames # <<>> /\ frames' # <<>>
         /\ Top'.vec = Top.vec /\ Top'.pc = Top.pc + 1 /\ Top'.c = c
<1>1. frames # <<>> /\ Top.pc # EoiPlace(Top.vec) + 2
  BY BodyAt DEF At
<1>2. QED
  BY <1>1, AdvanceFrames DEF Stack

LEMMA CliMoves ==
  ASSUME Stack, Cli
  PROVE  /\ Counting' <=> Counting
         /\ Reading' <=> Reading
         /\ ~ Using /\ ~ Using' /\ frames # <<>>
         /\ frames' # <<>> => Top'.pc = 2
<1>1. At("cli") /\ AdvanceWith(Top.c)
  BY DEF Cli, Advance
<1>2. Top.pc = 1 /\ Top.c \in 0 .. MaxBytes
  BY <1>1, BodyAt
<1>3. /\ frames # <<>> /\ frames' # <<>>
      /\ Top'.vec = Top.vec /\ Top'.pc = Top.pc + 1
  BY <1>1, <1>2, AdvanceMoves
<1>4. QED
  BY <1>2, <1>3 DEF Counting, Reading, Using

LEMMA CountMoves ==
  ASSUME Stack, Count
  PROVE  /\ Counting /\ ~ Counting'
         /\ ~ Reading /\ ~ Reading' /\ ~ Using /\ ~ Using' /\ frames # <<>>
<1>1. At("count") /\ AdvanceWith(Top.c)
  BY DEF Count, Advance
<1>2. Top.vec = TIMER /\ Top.pc = 2 /\ Top.c \in 0 .. MaxBytes
  BY <1>1, BodyAt
<1>3. /\ frames # <<>> /\ frames' # <<>>
      /\ Top'.vec = Top.vec /\ Top'.pc = Top.pc + 1
  BY <1>1, <1>2, AdvanceMoves
<1>4. QED
  BY <1>2, <1>3 DEF Counting, Reading, Using, TIMER, KEYBOARD

LEMMA StatusMoves ==
  ASSUME Stack, TypeOK, ReadStatus
  PROVE  /\ ~ Counting /\ ~ Counting' /\ ~ Using /\ ~ Using'
         /\ Reading /\ Reading' /\ Top'.c = buffer /\ frames # <<>>
<1>1. At("status") /\ AdvanceWith(buffer) /\ buffer \in 0 .. MaxBytes
  BY DEF ReadStatus, TypeOK
<1>2. Top.vec = KEYBOARD /\ Top.pc = 2
  BY <1>1, BodyAt
<1>3. /\ frames # <<>> /\ frames' # <<>>
      /\ Top'.vec = Top.vec /\ Top'.pc = Top.pc + 1 /\ Top'.c = buffer
  BY <1>1, AdvanceMoves
<1>4. QED
  BY <1>2, <1>3 DEF Counting, Reading, Using, TIMER, KEYBOARD

LEMMA DataMoves ==
  ASSUME Stack, TypeOK, ReadData
  PROVE  /\ ~ Counting /\ ~ Counting' /\ ~ Using /\ Using'
         /\ Reading /\ ~ Reading' /\ Top.pc = 3 /\ frames # <<>>
         /\ Top'.c = IF Top.c = Empty THEN Empty ELSE buffer
<1> DEFINE c == IF Top.c = Empty THEN Top.c ELSE buffer
<1>1. At("data") /\ AdvanceWith(c)
  BY DEF ReadData, Advance
<1>2. Top.vec = KEYBOARD /\ Top.pc = 3 /\ Top.c \in 0 .. MaxBytes
  BY <1>1, BodyAt
<1>3. c \in 0 .. MaxBytes /\ c = IF Top.c = Empty THEN Empty ELSE buffer
  BY <1>2 DEF TypeOK
<1> HIDE DEF c
<1>4. /\ frames # <<>> /\ frames' # <<>>
      /\ Top'.vec = Top.vec /\ Top'.pc = Top.pc + 1 /\ Top'.c = c
  BY <1>1, <1>3, AdvanceMoves
<1>5. QED
  BY <1>2, <1>3, <1>4 DEF Counting, Reading, Using, TIMER, KEYBOARD

LEMMA UseMoves ==
  ASSUME Stack, UseKey
  PROVE  /\ ~ Counting /\ ~ Counting' /\ ~ Reading /\ ~ Reading'
         /\ Using /\ ~ Using' /\ frames # <<>> /\ Top.c \in 0 .. MaxBytes
<1>1. At("use") /\ AdvanceWith(Top.c)
  BY DEF UseKey, Advance
<1>2. Top.vec = KEYBOARD /\ Top.pc = 4 /\ Top.c \in 0 .. MaxBytes
  BY <1>1, BodyAt
<1>3. /\ frames # <<>> /\ frames' # <<>>
      /\ Top'.vec = Top.vec /\ Top'.pc = Top.pc + 1
  BY <1>1, <1>2, AdvanceMoves
<1>4. QED
  BY <1>2, <1>3 DEF Counting, Reading, Using, TIMER, KEYBOARD

LEMMA EpilogueMoves ==
  ASSUME Stack, Eoi \/ Sti
  PROVE  /\ ~ Counting /\ ~ Counting' /\ ~ Reading /\ ~ Reading'
         /\ ~ Using /\ ~ Using' /\ frames # <<>>
<1>1. PICK label : label \in {"eoi", "sti"} /\ At(label) /\ AdvanceWith(Top.c)
  BY DEF Eoi, Sti, Advance
<1>2. /\ Top.vec \in Vectors /\ Top.pc \in Nat /\ Top.c \in 0 .. MaxBytes
      /\ Top.pc \in EoiPlace(Top.vec) .. EoiPlace(Top.vec) + 1
  BY <1>1, BodyAt
<1>3. label # "iret"
  BY <1>1
<1>4. /\ frames # <<>> /\ frames' # <<>>
      /\ Top'.vec = Top.vec /\ Top'.pc = Top.pc + 1
  BY <1>1, <1>2, <1>3, AdvanceMoves
<1>5. (Top.vec = TIMER => Top.pc >= 3) /\ (Top.vec = KEYBOARD => Top.pc >= 5)
  BY <1>2 DEF EoiPlace, TIMER, KEYBOARD
<1>6. QED
  BY <1>2, <1>4, <1>5 DEF Counting, Reading, Using

LEMMA LastFrame ==
  ASSUME NEW s \in Seq(Frame), s # <<>>
  PROVE  s[Len(s)].pc \in Nat
<1>1. Len(s) \in 1 .. Len(s)
  BY EmptySeq, LenProperties
<1>2. s[Len(s)] \in Frame
  BY <1>1, ElementOfSeq
<1>3. QED
  BY <1>2 DEF Frame

LEMMA IretMoves ==
  ASSUME Stack, Stack', Iret
  PROVE  /\ ~ Counting /\ ~ Counting' /\ ~ Reading /\ ~ Reading'
         /\ ~ Using /\ ~ Using' /\ frames # <<>>
<1>1. frames # <<>> /\ At("iret") /\ isr' = isr
  BY DEF Iret, At, apic
<1>2. Top.pc = EoiPlace(Top.vec) + 2 /\ EoiPlace(Top.vec) \in Nat
  BY <1>1, TopFacts DEF Stack
<1>3. isr = {}
  BY <1>1, <1>2 DEF Stack, InService
<1>4. ~ Counting /\ ~ Reading /\ ~ Using
  BY <1>3, NothingInHand
<1>5. ~ Counting' /\ ~ Reading' /\ ~ Using'
  <2>1. /\ frames' # <<>> => isr' = IF Top'.pc <= EoiPlace(Top'.vec)
                                     THEN {Top'.vec} \ {SPURIOUS} ELSE {}
        /\ isr' = {}
    BY <1>1, <1>3 DEF Stack, InService
  <2>2. frames' # <<>> => Top'.pc \in Nat
    <3>1. frames' \in Seq(Frame)
      BY DEF Stack, Shape
    <3>2. frames' # <<>> => frames'[Len(frames')].pc \in Nat
      BY <3>1, LastFrame
    <3>3. QED
      BY <3>2 DEF Top
  <2>3. EoiPlace(TIMER) = 3 /\ EoiPlace(KEYBOARD) = 5
    BY DEF EoiPlace, TIMER, KEYBOARD
  <2>4. QED
    BY <2>1, <2>2, <2>3 DEF Counting, Reading, Using, TIMER, KEYBOARD, SPURIOUS
<1>6. QED
  BY <1>1, <1>4, <1>5

LEMMA EnterMoves ==
  ASSUME Stack, interrupts_on, NEW vec \in Vectors, Enter(vec)
  PROVE  /\ ~ Counting /\ ~ Reading /\ ~ Using
         /\ Counting' <=> vec = TIMER
         /\ Reading' <=> vec = KEYBOARD
         /\ ~ Using' /\ Top'.pc = 1
<1>1. ~ Counting /\ ~ Reading /\ ~ Using
  BY NothingInService, NothingInHand
<1> DEFINE f == [vec |-> vec, pc |-> 1, flags |-> interrupts_on, c |-> Empty]
<1>2. frames \in Seq(Frame) /\ frames' = Append(frames, f)
  BY DEF Stack, Shape, Enter
<1>3. frames' # <<>> /\ Top' = f
  BY <1>2 DEF Top
<1>4. QED
  BY <1>1, <1>3 DEF Counting, Reading, Using

-----------------------------------------------------------------------------
(* Every expiry of the timer is merged, requested, in the hand of the      *)
(* newest handler, or counted; the counter may have wrapped.               *)
Due == (IF TIMER \in irr THEN 1 ELSE 0) + (IF Counting THEN 1 ELSE 0)

TimerAccount ==
  \E wraps \in Int : milliseconds = ticks - merged - Due + wraps * Modulus

LEMMA ModulusType == Modulus \in Nat \ {0}
BY DEF Modulus

LEMMA MultipleMod ==
  ASSUME NEW m \in Nat \ {0}, NEW k \in Int
  PROVE  (k * m) % m = 0
OBVIOUS

LEMMA TimerSame ==
  ASSUME TimerAccount, UNCHANGED <<milliseconds, clock>>, Due' = Due
  PROVE  TimerAccount'
BY DEF TimerAccount, clock, Modulus

LEMMA TimerCount ==
  ASSUME TypeOK, TimerAccount, Count, Due' = Due - 1
  PROVE  TimerAccount'
<1>1. milliseconds \in Int /\ {ticks, merged} \subseteq Int /\ Due \in Int
  BY DEF TypeOK, Due
<1>2. PICK wraps \in Int : milliseconds = ticks - merged - Due + wraps * Modulus
  BY DEF TimerAccount
<1>3. ticks' = ticks /\ merged' = merged
  BY DEF Count, clock
<1>4. milliseconds' = milliseconds + 1 \/ milliseconds' = milliseconds + 1 - Modulus
  <2>1. IntMax \in Int /\ -IntMax - 1 = IntMax + 1 - 2 * (IntMax + 1)
    OBVIOUS
  <2>2. milliseconds' = IF milliseconds = IntMax THEN -IntMax - 1 ELSE milliseconds + 1
    BY DEF Count, incremented
  <2>3. QED
    BY <2>1, <2>2 DEF Modulus
<1>5. CASE milliseconds' = milliseconds + 1
  <2>1. milliseconds' = ticks' - merged' - Due' + wraps * Modulus
    BY <1>1, <1>2, <1>3, <1>5, ModulusType
  <2>2. QED
    BY <2>1 DEF TimerAccount, Modulus
<1>6. CASE milliseconds' = milliseconds + 1 - Modulus
  <2>1. wraps - 1 \in Int /\ (wraps - 1) * Modulus = wraps * Modulus - Modulus
    BY ModulusType
  <2>2. milliseconds' = ticks' - merged' - Due' + (wraps - 1) * Modulus
    BY <1>1, <1>2, <1>3, <1>6, <2>1, ModulusType
  <2>3. QED
    BY <2>1, <2>2 DEF TimerAccount, Modulus
<1>7. QED
  BY <1>4, <1>5, <1>6

LEMMA TickAccount ==
  ASSUME TypeOK, TimerAccount, Tick, Counting' <=> Counting
  PROVE  TimerAccount'
<1>1. milliseconds' = milliseconds /\ {ticks, merged} \subseteq Int
  BY DEF TypeOK, Tick, counted
<1>2. ticks' - merged' - Due' = ticks - merged - Due
  BY <1>1 DEF Tick, Due
<1>3. QED
  BY <1>1, <1>2 DEF TimerAccount, Modulus

(* A step leaves the count alone, counts an expiry in hand, or is one.     *)
LEMMA DueStep ==
  ASSUME TypeOK, Stack, Stack', [Next]_vars
  PROVE  \/ UNCHANGED <<milliseconds, clock>> /\ Due' = Due
         \/ Count /\ Counting /\ Due' = Due - 1
         \/ Tick /\ (Counting' <=> Counting)
<1> DEFINE Still == UNCHANGED <<milliseconds, clock>> /\ Due' = Due
<1>1. UNCHANGED <<frames, irr, milliseconds, clock>> => Still
  BY DEF Due, Counting, Top
<1>2. CASE MainStep
  BY <1>1, <1>2 DEF MainStep, DelayRead, StartTimer, Unmask, Route, EnableInterrupts,
                    MainAt, apic, counted
<1>3. ASSUME Cli \/ Sti \/ Iret \/ ReadStatus \/ ReadData \/ UseKey \/ Eoi
      PROVE  Still
  <2>1. Counting' <=> Counting
    BY <1>3, CliMoves, EpilogueMoves, IretMoves, StatusMoves, DataMoves, UseMoves
  <2>2. irr' = irr /\ UNCHANGED <<milliseconds, clock>>
    BY <1>3 DEF Cli, Sti, Iret, ReadStatus, ReadData, UseKey, Eoi, apic, counted
  <2>3. QED
    BY <2>1, <2>2 DEF Due
<1>4. CASE Count
  <2>1. Counting /\ ~ Counting' /\ irr' = irr
    BY <1>4, CountMoves DEF Count, apic
  <2>2. QED
    BY <1>4, <2>1 DEF Due
<1>5. CASE Deliver
  <2>1. PICK v \in irr : irr' = irr \ {v} /\ Enter(v)
    BY <1>5 DEF Deliver
  <2>2. v \in Vectors
    BY <2>1 DEF TypeOK, Vectors
  <2>3. ~ Counting /\ (Counting' <=> v = TIMER)
    BY <1>5, <2>1, <2>2, EnterMoves DEF Deliver
  <2>4. Due' = Due
    BY <2>1, <2>3 DEF Due
  <2>5. QED
    BY <1>5, <2>4 DEF Deliver, counted
<1>6. CASE DeliverSpurious
  <2>1. ~ Counting /\ ~ Counting'
    BY <1>6, EnterMoves DEF DeliverSpurious, Vectors, SPURIOUS, TIMER
  <2>2. irr' = irr /\ UNCHANGED <<milliseconds, clock>>
    BY <1>6 DEF DeliverSpurious, apic, counted
  <2>3. QED
    BY <2>1, <2>2 DEF Due
<1>7. CASE Tick
  BY <1>7 DEF Tick, cpu, Counting, Top
<1>8. CASE KeyboardSends
  <2>1. frames' = frames /\ UNCHANGED <<milliseconds, clock>>
    BY <1>8 DEF KeyboardSends, cpu, counted
  <2>2. TIMER \in irr' <=> TIMER \in irr
    BY <1>8 DEF KeyboardSends, TIMER, KEYBOARD
  <2>3. QED
    BY <2>1, <2>2 DEF Due, Counting, Top
<1>9. CASE UNCHANGED vars
  BY <1>1, <1>9 DEF vars, cpu, counted, apic
<1>10. QED
  BY <1>2, <1>3, <1>4, <1>5, <1>6, <1>7, <1>8, <1>9 DEF Next, CpuStep, HandlerStep

LEMMA TimerStep ==
  TypeOK /\ Stack /\ Stack' /\ TimerAccount /\ [Next]_vars => TimerAccount'
BY DueStep, TimerSame, TimerCount, TickAccount

(* However far a tick is delayed and however deep handlers nest, the       *)
(* counter is the number of expiries that were not merged, less the one    *)
(* requested and the one in hand, in the arithmetic of int.                *)
THEOREM TicksAllCounted == Spec => []TicksCounted
<1>1. Init => TimerAccount
  <2> SUFFICES ASSUME Init PROVE TimerAccount
    OBVIOUS
  <2>1. Due = 0 /\ milliseconds = 0 /\ ticks = 0 /\ merged = 0
    BY DEF Init, Due, Counting
  <2>2. milliseconds = ticks - merged - Due + 0 * Modulus
    BY <2>1, ModulusType
  <2>3. QED
    BY <2>2 DEF TimerAccount
<1>2. TypeOK /\ Stack /\ TimerAccount => TicksCounted
  <2> SUFFICES ASSUME TypeOK, Stack, TimerAccount PROVE TicksCounted
    OBVIOUS
  <2>1. Cardinality(irr \cap {TIMER}) = IF TIMER \in irr THEN 1 ELSE 0
    <3>1. irr \cap {TIMER} = IF TIMER \in irr THEN {TIMER} ELSE {}
      OBVIOUS
    <3>2. QED
      BY <3>1, FS_EmptySet, FS_Singleton
  <2>2. Cardinality(FramesStillTo("count")) = IF Counting THEN 1 ELSE 0
    BY StillToTop, FS_EmptySet, FS_Singleton
  <2>3. /\ ToCount = Due /\ Due \in Int
        /\ milliseconds \in Int /\ ticks \in Int /\ merged \in Int
    <3>1. ToCount = Due
      BY <2>1, <2>2 DEF ToCount, Due
    <3>2. Due \in Int
      BY DEF Due
    <3>3. milliseconds \in Int /\ ticks \in Int /\ merged \in Int
      BY DEF TypeOK
    <3>4. QED
      BY <3>1, <3>2, <3>3
  <2>4. PICK wraps \in Int : milliseconds = ticks - merged - Due + wraps * Modulus
    BY DEF TimerAccount
  <2>5. milliseconds - Counts = wraps * Modulus
    BY <2>3, <2>4, ModulusType DEF Counts
  <2>6. (wraps * Modulus) % Modulus = 0
    BY ModulusType, MultipleMod
  <2>7. QED
    BY <2>5, <2>6 DEF TicksCounted
<1>3. TypeOK /\ Bounds /\ Stack /\ [Next]_vars => Stack'
  BY StackStep
<1>4. QED
  BY <1>1, <1>2, <1>3, Inductive, TimerStep, PTL DEF Spec

-----------------------------------------------------------------------------
(* Every byte sent was discarded by the delay, acted on, is in hand after  *)
(* it was read, or in the buffer; and its number says which it is.         *)
InHand == IF Using /\ Top.c # Empty THEN 1 ELSE 0
Full   == IF buffer = Empty THEN 0 ELSE 1

Numbered ==
  /\ sent = discarded + Len(keys_shown) + InHand + Full
  /\ \A n \in 1 .. Len(keys_shown) : keys_shown[n] = discarded + n
  /\ buffer # Empty => buffer = sent
  /\ Using /\ Top.c # Empty => Top.c = discarded + Len(keys_shown) + 1

(* A byte in the buffer that was heard has its interrupt requested, or     *)
(* keyboard_isr about to read it, and not both.                            *)
Called ==
  /\ unheard <= sent
  /\ buffer > unheard <=> KEYBOARD \in irr \/ Reading
  /\ ~ (KEYBOARD \in irr /\ Reading)
  /\ Reading /\ Top.pc = 3 => Top.c = buffer

Booting ==
  /\ main # "idle" => frames = <<>> /\ ~ interrupts_on /\ keys_shown = <<>>
  /\ main = "delay" => ~ unmasked /\ KEYBOARD \notin irr

KeyAccount == Numbered /\ Called /\ Booting

LEMMA KeyNumbers ==
  ASSUME TypeOK
  PROVE  /\ sent \in Nat /\ discarded \in Nat /\ unheard \in Nat /\ buffer \in Nat
         /\ Len(keys_shown) \in Nat /\ Full \in Nat
<1>1. {buffer, sent, unheard, discarded} \subseteq Nat
  BY DEF TypeOK
<1>2. keys_shown \in Seq(1 .. MaxBytes) /\ Len(keys_shown) \in Nat
  BY LenProperties DEF TypeOK
<1>3. QED
  BY <1>1, <1>2 DEF Full

LEMMA FramesStay ==
  ASSUME frames' = frames
  PROVE  /\ Using' <=> Using
         /\ Reading' <=> Reading
         /\ frames # <<>> => Top' = Top
         /\ InHand' = InHand
BY DEF Using, Reading, Top, InHand

(* A step of a handler that neither takes nor uses a byte.                 *)
LEMMA KeySame ==
  ASSUME TypeOK, KeyAccount, frames # <<>>, ~ Using, ~ Using', Reading' <=> Reading,
         UNCHANGED <<main, keys_shown, kbc, unmasked, irr>>,
         Reading' /\ Top'.pc = 3 => Top'.c = buffer
  PROVE  KeyAccount'
<1>1. InHand = 0 /\ InHand' = 0
  BY DEF InHand
<1>2. Numbered'
  BY <1>1 DEF KeyAccount, Numbered, Full, kbc
<1>3. Called'
  BY DEF KeyAccount, Called, kbc
<1>4. Booting'
  BY DEF KeyAccount, Booting
<1>5. QED
  BY <1>2, <1>3, <1>4 DEF KeyAccount

LEMMA KeyMain ==
  ASSUME TypeOK, Stack, KeyAccount, MainStep
  PROVE  KeyAccount'
<1>1. /\ frames = <<>> /\ frames' = <<>> /\ keys_shown' = keys_shown
      /\ irr' = irr /\ sent' = sent /\ unheard' = unheard
      /\ main # "idle" /\ keys_shown = <<>> /\ main' # "delay"
  BY DEF MainStep, DelayRead, StartTimer, Unmask, Route, EnableInterrupts, MainAt,
         apic, kbc, KeyAccount, Booting
<1>2. ~ Using /\ ~ Using' /\ ~ Reading /\ ~ Reading' /\ InHand = 0 /\ InHand' = 0
  BY <1>1 DEF Using, Reading, InHand
<1>3. Len(keys_shown) = 0 /\ Len(keys_shown') = 0
  BY <1>1
<1>4. Booting'
  BY <1>1 DEF MainStep, DelayRead, StartTimer, Unmask, Route, EnableInterrupts, MainAt,
              KeyAccount, Booting
<1>5. CASE DelayRead
  <2>1. buffer' = Empty /\ Full' = 0 /\ Empty = 0 /\ KEYBOARD \notin irr
    BY <1>5 DEF DelayRead, MainAt, Full, KeyAccount, Booting, Empty
  <2>2. discarded' = discarded + Full
    BY <1>5, KeyNumbers DEF DelayRead, Full
  <2>3. sent = discarded + 0 + 0 + Full
    BY <1>2, <1>3 DEF KeyAccount, Numbered
  <2>4. sent' = discarded' + Len(keys_shown') + InHand' + Full'
    BY <1>1, <1>2, <1>3, <2>1, <2>2, <2>3, KeyNumbers
  <2>5. Numbered'
    BY <1>2, <1>3, <2>1, <2>4 DEF Numbered
  <2>6. Called'
    BY <1>1, <1>2, <2>1, KeyNumbers DEF Called, KeyAccount
  <2>7. QED
    BY <1>4, <2>5, <2>6 DEF KeyAccount
<1>6. CASE ~ DelayRead
  <2>1. discarded' = discarded /\ buffer' = buffer
    BY <1>6 DEF MainStep, StartTimer, Unmask, Route, EnableInterrupts, MainAt, kbc
  <2>2. Numbered' /\ Called'
    BY <1>1, <1>2, <2>1 DEF KeyAccount, Numbered, Called, Full
  <2>3. QED
    BY <1>4, <2>2 DEF KeyAccount
<1>7. QED
  BY <1>5, <1>6

LEMMA KeyRead ==
  ASSUME TypeOK, Stack, KeyAccount, ReadData
  PROVE  KeyAccount'
<1>1. /\ ~ Using /\ Using' /\ Reading /\ ~ Reading' /\ Top.pc = 3 /\ frames # <<>>
      /\ Top'.c = IF Top.c = Empty THEN Empty ELSE buffer
  BY DataMoves
<1>2. /\ main' = main /\ keys_shown' = keys_shown /\ irr' = irr /\ sent' = sent
      /\ unheard' = unheard /\ discarded' = discarded
  BY DEF ReadData, apic
<1>3. /\ buffer > unheard /\ Top.c = buffer /\ KEYBOARD \notin irr
  BY <1>1 DEF KeyAccount, Called
<1>4. buffer # Empty /\ buffer = sent /\ buffer' = Empty /\ Top'.c = buffer
  BY <1>1, <1>3, KeyNumbers DEF ReadData, KeyAccount, Numbered, Empty
<1>5. InHand = 0 /\ InHand' = 1 /\ Full = 1 /\ Full' = 0
  BY <1>1, <1>4 DEF InHand, Full
<1>6. sent = discarded + Len(keys_shown) + 1
  BY <1>5, KeyNumbers DEF KeyAccount, Numbered
<1>7. Numbered'
  <2>1. sent' = discarded' + Len(keys_shown') + InHand' + Full'
    BY <1>2, <1>5, <1>6, KeyNumbers
  <2>2. Top'.c = discarded' + Len(keys_shown') + 1
    BY <1>2, <1>4, <1>6
  <2>3. QED
    BY <1>2, <1>4, <2>1, <2>2 DEF KeyAccount, Numbered
<1>8. Called'
  BY <1>1, <1>2, <1>3, <1>4, KeyNumbers DEF KeyAccount, Called, Empty
<1>9. Booting'
  BY <1>1, <1>2 DEF KeyAccount, Booting
<1>10. QED
  BY <1>7, <1>8, <1>9 DEF KeyAccount

LEMMA KeyUse ==
  ASSUME TypeOK, Stack, KeyAccount, UseKey
  PROVE  KeyAccount'
<1>1. /\ Using /\ ~ Using' /\ ~ Reading /\ ~ Reading' /\ frames # <<>>
      /\ Top.c \in 0 .. MaxBytes
  BY UseMoves
<1>2. /\ main' = main /\ irr' = irr /\ sent' = sent /\ unheard' = unheard
      /\ discarded' = discarded /\ buffer' = buffer /\ Full' = Full /\ InHand' = 0
      /\ keys_shown' = IF Top.c = Empty THEN keys_shown ELSE Append(keys_shown, Top.c)
  BY <1>1 DEF UseKey, apic, kbc, InHand, Full
<1>3. Called' /\ Booting'
  BY <1>1, <1>2 DEF KeyAccount, Called, Booting
<1>4. CASE Top.c = Empty
  <2>1. keys_shown' = keys_shown /\ InHand = 0
    BY <1>2, <1>4 DEF InHand
  <2>2. Numbered'
    BY <1>1, <1>2, <2>1 DEF KeyAccount, Numbered
  <2>3. QED
    BY <1>3, <2>2 DEF KeyAccount
<1>5. CASE Top.c # Empty
  <2> DEFINE n == Len(keys_shown)
  <2>1. n \in Nat /\ discarded \in Nat /\ sent \in Nat /\ Full \in Nat
    BY KeyNumbers
  <2>2. keys_shown \in Seq(1 .. MaxBytes)
    BY DEF TypeOK
  <2>3. Top.c \in 1 .. MaxBytes
    BY <1>1, <1>5 DEF Empty
  <2>4. /\ Len(keys_shown') = n + 1 /\ keys_shown'[n + 1] = Top.c
        /\ \A i \in 1 .. n : keys_shown'[i] = keys_shown[i]
    BY <1>2, <1>5, <2>2, <2>3, AppendProperties
  <2>5. /\ InHand = 1 /\ sent = discarded + n + 1 + Full /\ Top.c = discarded + n + 1
        /\ \A i \in 1 .. n : keys_shown[i] = discarded + i
    BY <1>1, <1>5 DEF InHand, KeyAccount, Numbered
  <2> HIDE DEF n
  <2>6. sent' = discarded' + Len(keys_shown') + InHand' + Full'
    <3>1. sent' = discarded + (n + 1) + 0 + Full
      BY <1>2, <2>1, <2>5
    <3>2. QED
      BY <1>2, <2>4, <3>1
  <2>7. ASSUME NEW i \in 1 .. Len(keys_shown')
        PROVE  keys_shown'[i] = discarded' + i
    <3>1. i \in 1 .. n \/ i = n + 1
      BY <2>1, <2>4
    <3>2. discarded + n + 1 = discarded + (n + 1)
      BY <2>1
    <3>3. CASE i \in 1 .. n
      BY <1>2, <2>4, <2>5, <3>3
    <3>4. CASE i = n + 1
      BY <1>2, <2>4, <2>5, <3>2, <3>4
    <3>5. QED
      BY <3>1, <3>3, <3>4
  <2>8. Numbered'
    BY <1>1, <1>2, <2>6, <2>7 DEF KeyAccount, Numbered
  <2>9. QED
    BY <1>3, <2>8 DEF KeyAccount
<1>6. QED
  BY <1>4, <1>5

LEMMA KeySent ==
  ASSUME TypeOK, KeyAccount, KeyboardSends
  PROVE  KeyAccount'
<1>1. /\ frames' = frames /\ main' = main /\ interrupts_on' = interrupts_on
      /\ keys_shown' = keys_shown /\ unmasked' = unmasked /\ discarded' = discarded
      /\ buffer = Empty /\ sent' = sent + 1 /\ buffer' = sent + 1
  BY DEF KeyboardSends, cpu, entry
<1>2. /\ Using' <=> Using
      /\ Reading' <=> Reading
      /\ InHand' = InHand /\ (frames # <<>> => Top' = Top)
  BY <1>1, FramesStay
<1>3. Full = 0 /\ Full' = 1 /\ buffer' # Empty
  BY <1>1, KeyNumbers DEF Full, Empty
<1>4. ~ Reading /\ KEYBOARD \notin irr
  <2>1. buffer = 0 /\ unheard \in Nat
    BY <1>1, KeyNumbers DEF Empty
  <2>2. ~ (buffer > unheard)
    BY <2>1
  <2>3. QED
    BY <2>2 DEF KeyAccount, Called
<1>5. InHand \in Nat
  BY DEF InHand
<1>6. Numbered'
  <2>1. sent = discarded + Len(keys_shown) + InHand + Full
    BY DEF KeyAccount, Numbered
  <2>2. sent' = discarded' + Len(keys_shown') + InHand' + Full'
    <3> DEFINE d == discarded
               k == Len(keys_shown)
    <3>1. sent = d + k + InHand + 0 /\ d \in Nat /\ k \in Nat /\ InHand \in Nat
      BY <1>3, <1>5, <2>1, KeyNumbers
    <3> HIDE DEF d, k
    <3>2. sent + 1 = d + k + InHand + 1
      BY <3>1
    <3>3. QED
      BY <1>1, <1>2, <1>3, <3>2 DEF d, k
  <2>3. Using' /\ Top'.c # Empty => Top'.c = discarded' + Len(keys_shown') + 1
    BY <1>1, <1>2 DEF KeyAccount, Numbered, Using
  <2>4. QED
    BY <1>1, <2>2, <2>3 DEF KeyAccount, Numbered
<1>7. CASE unmasked /\ routed
  <2>1. irr' = irr \cup {KEYBOARD} /\ unheard' = unheard
    BY <1>7 DEF KeyboardSends
  <2>2. unheard <= sent /\ unheard \in Nat /\ sent \in Nat
    BY KeyNumbers DEF KeyAccount, Called
  <2>3. unheard' <= sent' /\ buffer' > unheard'
    BY <1>1, <2>1, <2>2
  <2>4. Called'
    BY <1>2, <1>4, <2>1, <2>3 DEF Called
  <2>5. Booting'
    BY <1>1, <1>7 DEF KeyAccount, Booting
  <2>6. QED
    BY <1>6, <2>4, <2>5 DEF KeyAccount
<1>8. CASE ~ (unmasked /\ routed)
  <2>1. irr' = irr /\ unheard' = sent + 1
    BY <1>1, <1>8 DEF KeyboardSends
  <2>2. unheard' <= sent' /\ ~ (buffer' > unheard')
    <3>1. sent + 1 <= sent + 1 /\ ~ (sent + 1 > sent + 1)
      BY KeyNumbers
    <3>2. QED
      BY <1>1, <2>1, <3>1
  <2>3. Called'
    BY <1>2, <1>4, <2>1, <2>2 DEF Called
  <2>4. Booting'
    BY <1>1, <2>1 DEF KeyAccount, Booting
  <2>5. QED
    BY <1>6, <2>3, <2>4 DEF KeyAccount
<1>9. QED
  BY <1>7, <1>8

LEMMA KeyEnter ==
  ASSUME TypeOK, Stack, KeyAccount, NEW v \in Vectors, interrupts_on, Enter(v),
         UNCHANGED <<main, keys_shown, kbc, unmasked>>,
         irr' = irr \ {v}, v = KEYBOARD => KEYBOARD \in irr
  PROVE  KeyAccount'
<1>1. /\ ~ Reading /\ ~ Using /\ (Reading' <=> v = KEYBOARD)
      /\ ~ Using' /\ Top'.pc = 1
  BY EnterMoves
<1>2. InHand = 0 /\ InHand' = 0 /\ main = "idle"
  BY <1>1 DEF InHand, KeyAccount, Booting
<1>3. /\ main' = main /\ keys_shown' = keys_shown /\ sent' = sent /\ unheard' = unheard
      /\ discarded' = discarded /\ buffer' = buffer
  BY DEF kbc
<1>4. Numbered'
  BY <1>1, <1>2, <1>3 DEF KeyAccount, Numbered, Full
<1>5. Called'
  BY <1>1, <1>3 DEF KeyAccount, Called
<1>6. Booting'
  BY <1>2, <1>3 DEF Booting
<1>7. QED
  BY <1>4, <1>5, <1>6 DEF KeyAccount

LEMMA KeyStill ==
  ASSUME KeyAccount,
         UNCHANGED <<frames, main, interrupts_on, keys_shown, kbc, unmasked>>,
         KEYBOARD \in irr' <=> KEYBOARD \in irr
  PROVE  KeyAccount'
<1>1. /\ Using' <=> Using
      /\ Reading' <=> Reading
      /\ InHand' = InHand /\ (frames # <<>> => Top' = Top)
  BY FramesStay
<1>2. Using \/ Reading => frames # <<>>
  BY DEF Using, Reading
<1>3. Numbered'
  BY <1>1, <1>2 DEF KeyAccount, Numbered, Full, kbc
<1>4. Called'
  BY <1>1, <1>2 DEF KeyAccount, Called, kbc
<1>5. Booting'
  BY DEF KeyAccount, Booting
<1>6. QED
  BY <1>3, <1>4, <1>5 DEF KeyAccount

LEMMA KeyStep ==
  TypeOK /\ Stack /\ Stack' /\ KeyAccount /\ [Next]_vars => KeyAccount'
<1> SUFFICES ASSUME TypeOK, Stack, Stack', KeyAccount, [Next]_vars
             PROVE  KeyAccount'
  OBVIOUS
<1>1. ASSUME Cli \/ Count \/ ReadStatus \/ Sti \/ Eoi \/ Iret PROVE KeyAccount'
  <2>1. ~ Using /\ ~ Using' /\ (Reading' <=> Reading) /\ frames # <<>>
    BY <1>1, CliMoves, CountMoves, StatusMoves, EpilogueMoves, IretMoves
  <2>2. UNCHANGED <<main, keys_shown, kbc, unmasked, irr>>
    BY <1>1 DEF Cli, Count, ReadStatus, Sti, Eoi, Iret, apic, entry
  <2>3. Reading' /\ Top'.pc = 3 => Top'.c = buffer
    BY <1>1, CliMoves, CountMoves, StatusMoves, EpilogueMoves, IretMoves DEF Reading
  <2>4. QED
    BY <2>1, <2>2, <2>3, KeySame
<1>2. CASE Deliver
  <2>1. PICK v \in irr : irr' = irr \ {v} /\ Enter(v)
    BY <1>2 DEF Deliver
  <2>2. v \in Vectors
    BY <2>1 DEF TypeOK, Vectors
  <2>3. interrupts_on /\ UNCHANGED <<main, keys_shown, kbc, unmasked>>
    BY <1>2 DEF Deliver, entry
  <2>4. QED
    BY <2>1, <2>2, <2>3, KeyEnter
<1>3. CASE DeliverSpurious
  <2>1. SPURIOUS \in Vectors /\ SPURIOUS # KEYBOARD /\ irr' = irr \ {SPURIOUS}
    BY <1>3 DEF DeliverSpurious, apic, TypeOK, Vectors, SPURIOUS, TIMER, KEYBOARD
  <2>2. /\ interrupts_on /\ Enter(SPURIOUS)
        /\ UNCHANGED <<main, keys_shown, kbc, unmasked>>
    BY <1>3 DEF DeliverSpurious, entry
  <2>3. QED
    BY <2>1, <2>2, KeyEnter
<1>4. CASE Tick
  BY <1>4, KeyStill DEF Tick, cpu, entry, TIMER, KEYBOARD
<1>5. CASE UNCHANGED vars
  BY <1>5, KeyStill DEF vars, cpu, apic, entry
<1>6. QED
  BY <1>1, <1>2, <1>3, <1>4, <1>5, KeyMain, KeyRead, KeyUse, KeySent
  DEF Next, CpuStep, HandlerStep

LEMMA KeyInductive == Spec => [](TypeOK /\ Stack /\ KeyAccount)
<1>1. Init => KeyAccount
  <2> SUFFICES ASSUME Init PROVE KeyAccount
    OBVIOUS
  <2>1. /\ sent = 0 /\ discarded = 0 /\ buffer = 0 /\ unheard = 0 /\ keys_shown = <<>>
        /\ Len(keys_shown) = 0 /\ frames = <<>> /\ irr = {} /\ ~ interrupts_on
        /\ ~ unmasked
    BY DEF Init, Empty
  <2>2. ~ Using /\ ~ Reading /\ InHand = 0 /\ Full = 0
    BY <2>1 DEF Using, Reading, InHand, Full, Empty
  <2>3. Numbered
    BY <2>1, <2>2 DEF Numbered, Empty
  <2>4. Called
    BY <2>1, <2>2 DEF Called
  <2>5. Booting
    BY <2>1 DEF Booting
  <2>6. QED
    BY <2>3, <2>4, <2>5 DEF KeyAccount
<1>2. TypeOK /\ Bounds /\ Stack /\ [Next]_vars => Stack'
  BY StackStep
<1>3. QED
  BY <1>1, <1>2, Inductive, KeyStep, PTL DEF Spec

(* Bytes are acted on in the order sent, none twice, none left out but the *)
(* one the delay may take, for any number of them and any nesting.         *)
THEOREM KeysStayInOrder == Spec => []KeysInOrder
<1>1. TypeOK /\ Stack /\ KeyAccount => KeysInOrder
  <2> SUFFICES ASSUME TypeOK, Stack, KeyAccount PROVE KeysInOrder
    OBVIOUS
  <2>1. keys_shown = [n \in 1 .. Len(keys_shown) |-> discarded + n]
    <3>1. keys_shown \in Seq(1 .. MaxBytes)
      BY DEF TypeOK
    <3>2. keys_shown = [n \in 1 .. Len(keys_shown) |-> keys_shown[n]]
      BY <3>1
    <3>3. QED
      BY <3>2 DEF KeyAccount, Numbered
  <2>2. Held = IF Using /\ Top.c # Empty THEN {Len(frames)} ELSE {}
    <3>1. Held = {i \in FramesStillTo("use") :
                    i \notin FramesStillTo("data") /\ frames[i].c # Empty}
      BY DEF Held, FramesStillTo
    <3>2. ~ (Reading /\ Using)
      BY TopFacts DEF Reading, Using, Stack
    <3>3. QED
      BY <3>1, <3>2, StillToTop DEF Top
  <2>3. Cardinality(Held) = InHand
    BY <2>2, FS_EmptySet, FS_Singleton DEF InHand
  <2>4. QED
    BY <2>1, <2>3 DEF KeysInOrder, KeyAccount, Numbered, Full
<1>2. QED
  BY <1>1, KeyInductive, PTL

(* A byte that was heard is never in the buffer without an interrupt on    *)
(* its way or a handler about to read it, and no interrupt comes for       *)
(* nothing.                                                                *)
THEOREM ByteAlwaysMeansInterrupt == Spec => []ByteMeansInterrupt
<1>1. Stack /\ KeyAccount => ByteMeansInterrupt
  BY StillToTop DEF ByteMeansInterrupt, KeyAccount, Called
<1>2. QED
  BY <1>1, KeyInductive, PTL

-----------------------------------------------------------------------------
(* The running kernel.  Its decoder is an instance of module Keyboard, and *)
(* so is the one KeyboardProofs is about: they are the same, definition by *)
(* definition.                                                             *)
HIDE BoundAssumption DEF BoundAssumption

K == INSTANCE KeyboardProofs

(* The bytes of the keys and the decoder's tables.                         *)
LEMMA SameConstants ==
  /\ D!Make = K!Make /\ D!AllKeys = K!AllKeys /\ D!Byte = K!Byte /\ D!NoKey = K!NoKey
  /\ D!NO = K!NO /\ D!NoChar = K!NoChar /\ D!Nothing = K!Nothing
  /\ D!ArrowBlock = K!ArrowBlock /\ D!FakeUp = K!FakeUp /\ D!FakeDown = K!FakeDown
BY DEF D!Make, K!Make, D!AllKeys, K!AllKeys, D!Byte, K!Byte, D!NoKey, K!NoKey, D!NO, K!NO,
       D!NoChar, K!NoChar, D!Nothing, K!Nothing, D!ArrowBlock, K!ArrowBlock, D!FakeUp,
       K!FakeUp, D!FakeDown, K!FakeDown

(* Any keys the kernel has are keys KeyboardProofs is about.               *)
LEMMA KeysFit == K!KeysAssumption
BY KeyboardAssumption, SameConstants DEF K!KeysAssumption

LEMMA SameTables ==
  /\ D!shiftcode = K!shiftcode /\ D!togglecode = K!togglecode
BY SameConstants DEF D!shiftcode, K!shiftcode, D!togglecode, K!togglecode

LEMMA SameExtended == \A d : D!Extended(d) = K!Extended(d)
BY SameConstants DEF D!Extended, K!Extended

LEMMA SameMaps ==
  D!normalmap = K!normalmap /\ D!shiftmap = K!shiftmap /\ D!ctlmap = K!ctlmap
BY SameConstants, SameExtended DEF D!normalmap, K!normalmap, D!shiftmap, K!shiftmap,
                                   D!ctlmap, K!ctlmap

LEMMA SameChars ==
  /\ \A flags : D!charcode(flags) = K!charcode(flags)
  /\ \A c : D!SwapCase(c) = K!SwapCase(c) /\ D!Show(c) = K!Show(c)
BY SameConstants, SameMaps DEF D!charcode, K!charcode, D!SwapCase, K!SwapCase, D!Show, K!Show

(* The steps of the keyboard, of delay and of the decoder.                 *)
LEMMA SameBytes ==
  ASSUME NEW k, NEW down
  PROVE D!Break(k) = K!Break(k) /\ D!BytesOf(k, down) = K!BytesOf(k, down)
BY SameConstants DEF D!Break, K!Break, D!BytesOf, K!BytesOf

LEMMA SameData ==
  D!data = K!data /\ (D!LastByte <=> K!LastByte) /\ (D!RemoveByte <=> K!RemoveByte)
BY DEF D!data, K!data, D!LastByte, K!LastByte, D!RemoveByte, K!RemoveByte

LEMMA SameTake == ASSUME NEW c PROVE D!Take(c) <=> K!Take(c)
BY SameData, SameChars, SameConstants DEF D!Take, K!Take

LEMMA SameSend == ASSUME NEW k, NEW down PROVE D!Send(k, down) <=> K!Send(k, down)
BY SameBytes DEF D!Send, K!Send

LEMMA SameTyping ==
  ASSUME NEW k
  PROVE  D!Press(k) \/ D!Repeat(k) \/ D!Release(k)
           <=> K!Press(k) \/ K!Repeat(k) \/ K!Release(k)
BY SameSend, SameConstants DEF D!Press, K!Press, D!Repeat, K!Repeat, D!Release, K!Release

LEMMA SameDelay ==
  /\ D!DelayFindsNothing <=> K!DelayFindsNothing
  /\ D!DelayTakesByte <=> K!DelayTakesByte
BY SameData DEF D!DelayFindsNothing, K!DelayFindsNothing, D!DelayTakesByte, K!DelayTakesByte

LEMMA SameRead ==
  D!EscapeByte \/ D!ReleaseByte \/ D!PressByte <=> K!ByteRead
<1>1. D!EscapeByte <=> K!EscapeByte
  BY SameData, SameTake, SameConstants DEF D!EscapeByte, K!EscapeByte
<1>2. D!ReleaseByte <=> K!ReleaseByte
  BY SameData, SameTake, SameConstants, SameTables DEF D!ReleaseByte, K!ReleaseByte
<1>3. D!PressByte <=> K!PressByte
  BY SameData, SameTake, SameChars, SameTables DEF D!PressByte, K!PressByte
<1>4. QED
  BY <1>1, <1>2, <1>3 DEF K!ByteRead

(* What the events mean, and what handling one is.                         *)
LEMMA SameMeaning ==
  /\ D!Modifier = K!Modifier /\ D!Lock = K!Lock /\ D!Legend = K!Legend
  /\ D!Effects = K!Effects /\ D!Events = K!Events
BY SameConstants DEF D!Modifier, K!Modifier, D!Lock, K!Lock, D!Legend, K!Legend,
                     D!Effects, K!Effects, D!Events, K!Events, D!FlagsOf, K!FlagsOf,
                     D!KeysOf, K!KeysOf, D!Printed, K!Printed, D!Characters, K!Characters

LEMMA SameEvents == D!Events = K!Events /\ D!Events' = K!Events'
BY DEF D!Events, K!Events

LEMMA SameHandling ==
  /\ K!Abstract!HandleDown <=> Abstract!HandleDown
  /\ K!Abstract!HandleUp <=> Abstract!HandleUp
  /\ K!Abstract!Spoil <=> Abstract!Spoil
  /\ K!Abstract!Listen <=> Abstract!Listen
  /\ UNCHANGED K!Abstract!kvars <=> UNCHANGED Abstract!kvars
  /\ \A k, down : K!Abstract!Event(k, down) <=> Abstract!Event(k, down)
<1>1. ASSUME NEW k, NEW mods PROVE K!Abstract!CharOf(k, mods) = Abstract!CharOf(k, mods)
  BY SameMeaning, SameChars DEF K!Abstract!CharOf, Abstract!CharOf
<1>2. K!Abstract!HandleDown <=> Abstract!HandleDown
  BY <1>1, SameMeaning, SameEvents, SameChars DEF K!Abstract!HandleDown, Abstract!HandleDown
<1>3. K!Abstract!HandleUp <=> Abstract!HandleUp
  BY SameMeaning, SameEvents, SameConstants DEF K!Abstract!HandleUp, Abstract!HandleUp
<1>4. K!Abstract!Spoil <=> Abstract!Spoil
  BY SameMeaning, SameEvents DEF K!Abstract!Spoil, Abstract!Spoil
<1>5. K!Abstract!Listen <=> Abstract!Listen
  BY SameEvents DEF K!Abstract!Listen, Abstract!Listen
<1>6. UNCHANGED K!Abstract!kvars <=> UNCHANGED Abstract!kvars
  BY SameEvents DEF K!Abstract!kvars, Abstract!kvars
<1>7. ASSUME NEW k, NEW down PROVE K!Abstract!Event(k, down) <=> Abstract!Event(k, down)
  BY SameEvents DEF K!Abstract!Event, Abstract!Event
<1>8. QED
  BY <1>2, <1>3, <1>4, <1>5, <1>6, <1>7

-----------------------------------------------------------------------------
(* The screen as a sequence of calls: what of it is complete, where the    *)
(* texts of the minutes are, and whether a text still lacks its end.       *)
CompleteOf(s) == IF s # <<>> /\ IsText(s[Len(s)]) THEN SubSeq(s, 1, Len(s) - 1) ELSE s

Texts(s) == {i \in 1 .. Len(s) : IsText(s[i])}

Ends(s) == s # <<>> /\ IsText(s[Len(s)])

LEMMA Appended ==
  ASSUME NEW S, NEW s \in Seq(S), NEW x
  PROVE  /\ Append(s, x) \in Seq(S \cup {x})
         /\ Len(Append(s, x)) = Len(s) + 1
         /\ Append(s, x)[Len(s) + 1] = x
         /\ \A i \in 1 .. Len(s) : Append(s, x)[i] = s[i]
<1>1. s \in Seq(S \cup {x}) /\ x \in S \cup {x}
  OBVIOUS
<1>2. QED
  BY <1>1, AppendProperties

LEMMA TextsAppended ==
  ASSUME NEW S, NEW s \in Seq(S), NEW x
  PROVE  /\ Texts(Append(s, x)) = IF IsText(x) THEN Texts(s) \cup {Len(s) + 1} ELSE Texts(s)
         /\ Cardinality(Texts(s)) \in Nat
         /\ Cardinality(Texts(Append(s, x)))
              = Cardinality(Texts(s)) + (IF IsText(x) THEN 1 ELSE 0)
<1> DEFINE n == Len(s)
           t == Append(s, x)
<1>1. n \in Nat
  BY LenProperties
<1>2. Len(t) = n + 1 /\ t[n + 1] = x /\ \A i \in 1 .. n : t[i] = s[i]
  BY Appended
<1>3. IsFiniteSet(Texts(s)) /\ n + 1 \notin Texts(s)
  <2>1. IsFiniteSet(1 .. n) /\ Texts(s) \in SUBSET (1 .. n)
    BY <1>1, FS_Interval DEF Texts
  <2>2. QED
    BY <1>1, <2>1, FS_Subset
<1>4. Texts(t) = IF IsText(x) THEN Texts(s) \cup {n + 1} ELSE Texts(s)
  <2> HIDE DEF t, n
  <2>1. 1 .. n + 1 = (1 .. n) \cup {n + 1}
    BY <1>1
  <2>2. Texts(t) = {i \in (1 .. n) \cup {n + 1} : IsText(t[i])}
    BY <1>2, <2>1 DEF Texts
  <2>3. Texts(s) = {i \in 1 .. n : IsText(s[i])}
    BY DEF Texts, n
  <2>4. QED
    BY <1>1, <1>2, <2>2, <2>3
<1> HIDE DEF t
<1>5. Cardinality(Texts(s)) \in Nat
  BY <1>3, FS_CardinalityType
<1>6. Cardinality(Texts(s) \cup {n + 1}) = Cardinality(Texts(s)) + 1
  BY <1>3, FS_AddElement
<1>7. QED
  BY <1>4, <1>5, <1>6 DEF t

(* A text completes nothing; what is printed after a whole line is whole;  *)
(* and the end of a line completes its text and itself.                    *)
LEMMA TextPrinted ==
  ASSUME NEW S, NEW s \in Seq(S), NEW x, IsText(x), ~ Ends(s)
  PROVE  Ends(Append(s, x)) /\ CompleteOf(s) = s /\ CompleteOf(Append(s, x)) = s
<1> DEFINE t == Append(s, x)
<1>1. Len(t) = Len(s) + 1 /\ t[Len(s) + 1] = x /\ \A i \in 1 .. Len(s) : t[i] = s[i]
  BY Appended
<1>2. Len(s) \in Nat /\ t # <<>>
  BY LenProperties
<1>3. SubSeq(t, 1, Len(s)) = s
  <2>1. \A i \in 1 .. Len(s) : t[i] \in S
    BY <1>1
  <2> HIDE DEF t
  <2>2. /\ SubSeq(t, 1, Len(s)) \in Seq(S)
        /\ Len(SubSeq(t, 1, Len(s))) = Len(s)
        /\ \A i \in 1 .. Len(s) : SubSeq(t, 1, Len(s))[i] = t[i]
    BY <1>2, <2>1, SubSeqProperties
  <2>3. QED
    BY <1>1, <2>2, SeqEqual
<1> HIDE DEF t
<1>4. Len(t) - 1 = Len(s)
  BY <1>1, <1>2
<1>5. Ends(t) /\ CompleteOf(t) = s
  BY <1>1, <1>3, <1>4 DEF Ends, CompleteOf
<1>6. QED
  BY <1>5 DEF Ends, CompleteOf, t

LEMMA WholePrinted ==
  ASSUME NEW S, NEW s \in Seq(S), NEW x, ~ IsText(x), ~ Ends(s)
  PROVE  /\ ~ Ends(Append(s, x)) /\ CompleteOf(s) = s
         /\ CompleteOf(Append(s, x)) = Append(s, x)
         /\ Cardinality(Texts(Append(s, x))) = Cardinality(Texts(s))
<1>1. Len(s) \in Nat /\ Cardinality(Texts(s)) \in Nat
  BY LenProperties, TextsAppended
<1>2. ~ Ends(Append(s, x))
  BY Appended DEF Ends
<1>3. Cardinality(Texts(Append(s, x))) = Cardinality(Texts(s)) + 0
  BY TextsAppended
<1>4. Cardinality(Texts(Append(s, x))) = Cardinality(Texts(s))
  BY <1>1, <1>3
<1>5. QED
  BY <1>2, <1>4 DEF Ends, CompleteOf

LEMMA EndPrinted ==
  ASSUME NEW S, NEW s \in Seq(S), NEW x, ~ IsText(x), Ends(s)
  PROVE  /\ ~ Ends(Append(s, x))
         /\ CompleteOf(Append(s, x)) = CompleteOf(s) \o <<s[Len(s)], x>>
         /\ Cardinality(Texts(CompleteOf(s))) \in Nat
         /\ Cardinality(Texts(CompleteOf(Append(s, x))))
              = Cardinality(Texts(CompleteOf(s))) + 1
<1> DEFINE n == Len(s)
           c == SubSeq(s, 1, n - 1)
           l == s[n]
           t == Append(s, x)
           T == S \cup {x}
<1>1. n \in Nat \ {0} /\ IsText(l)
  BY EmptySeq DEF Ends
<1>2. /\ t \in Seq(T) /\ Len(t) = n + 1 /\ t[n + 1] = x
      /\ \A i \in 1 .. n : t[i] = s[i]
  BY Appended
<1>3. /\ c \in Seq(S) /\ Len(c) = n - 1 /\ \A i \in 1 .. n - 1 : c[i] = s[i]
  <2>1. n - 1 \in Int /\ \A i \in 1 .. n - 1 : s[i] \in S
    BY <1>1
  <2> HIDE DEF n
  <2>2. /\ c \in Seq(S) /\ Len(c) = IF 1 <= n - 1 THEN n - 1 - 1 + 1 ELSE 0
        /\ \A i \in 1 .. n - 1 - 1 + 1 : c[i] = s[1 + i - 1]
    BY <2>1, SubSeqProperties
  <2>3. QED
    BY <1>1, <2>2
<1>4. l \in S
  BY <1>1
<1> HIDE DEF n, c, l, t, T
<1>5. Append(c, l) = s
  <2>1. /\ Append(c, l) \in Seq(S) /\ Len(Append(c, l)) = n - 1 + 1
        /\ \A i \in 1 .. n - 1 : Append(c, l)[i] = c[i]
        /\ Append(c, l)[n - 1 + 1] = l
    BY <1>3, <1>4, AppendProperties
  <2>2. n - 1 + 1 = n /\ \A i \in 1 .. n : i \in 1 .. n - 1 \/ i = n
    BY <1>1
  <2>3. Len(Append(c, l)) = Len(s) /\ \A i \in 1 .. Len(s) : Append(c, l)[i] = s[i]
    BY <1>3, <2>1, <2>2 DEF n, l
  <2>4. QED
    BY <2>1, <2>3, SeqEqual
<1>6. c \o <<l, x>> = t
  <2>1. l \in T /\ x \in T /\ <<l, x>> \in Seq(T) /\ Len(<<l, x>>) = 2
        /\ <<l, x>>[1] = l /\ <<l, x>>[2] = x
    BY <1>4 DEF T
  <2>2. c \in Seq(T)
    BY <1>3 DEF T
  <2>3. /\ c \o <<l, x>> \in Seq(T) /\ Len(c \o <<l, x>>) = n - 1 + 2
        /\ \A i \in 1 .. n - 1 + 2 : (c \o <<l, x>>)[i] =
             IF i <= n - 1 THEN c[i] ELSE <<l, x>>[i - (n - 1)]
    BY <1>3, <2>1, <2>2, ConcatProperties
  <2>4. n - 1 + 2 = n + 1
    BY <1>1
  <2>5. ASSUME NEW i \in 1 .. n + 1 PROVE (c \o <<l, x>>)[i] = t[i]
    <3>1. i \in 1 .. n - 1 \/ i = n \/ i = n + 1
      BY <1>1
    <3>2. CASE i \in 1 .. n - 1
      <4>1. i <= n - 1 /\ i \in 1 .. n
        BY <1>1, <3>2
      <4>2. QED
        BY <1>2, <1>3, <2>3, <2>4, <3>2, <4>1
    <3>3. CASE i = n
      <4>1. ~ (n <= n - 1) /\ n - (n - 1) = 1 /\ n \in 1 .. n
        BY <1>1
      <4>2. QED
        BY <1>2, <2>1, <2>3, <2>4, <3>3, <4>1 DEF l
    <3>4. CASE i = n + 1
      <4>1. ~ (n + 1 <= n - 1) /\ n + 1 - (n - 1) = 2
        BY <1>1
      <4>2. QED
        BY <1>2, <2>1, <2>3, <2>4, <3>4, <4>1
    <3>5. QED
      BY <3>1, <3>2, <3>3, <3>4
  <2>6. QED
    BY <1>2, <2>3, <2>4, <2>5, SeqEqual
<1>7. CompleteOf(s) = c
  BY DEF Ends, CompleteOf, c, n
<1>8. ~ Ends(t) /\ CompleteOf(t) = t
  <2>1. ~ IsText(t[Len(t)])
    BY <1>2
  <2>2. QED
    BY <2>1 DEF Ends, CompleteOf
<1>9. /\ Cardinality(Texts(c)) \in Nat
      /\ Cardinality(Texts(s)) = Cardinality(Texts(c)) + 1
  BY <1>1, <1>3, <1>5, TextsAppended
<1>10. Cardinality(Texts(t)) = Cardinality(Texts(s)) + 0
  BY TextsAppended DEF t
<1>11. Cardinality(Texts(t)) = Cardinality(Texts(c)) + 1
  BY <1>9, <1>10
<1>12. QED
  BY <1>6, <1>7, <1>8, <1>9, <1>11, Zenon DEF t, l, n

-----------------------------------------------------------------------------
(* What the newest handler still prints.  Only the timer's may, between    *)
(* its counting and its end of interrupt, where interrupts are off.        *)
Rest == IF todo = <<>> THEN <<>> ELSE todo[Len(todo)]

Printing == frames # <<>> /\ Top.vec = TIMER /\ Top.pc = 3

(* Every handler but the newest has printed all of its text.               *)
Stacked ==
  /\ \E S : todo \in Seq(S)
  /\ Len(todo) = Len(frames)
  /\ \A i \in 1 .. Len(todo) - 1 : todo[i] = <<>>

(* The counter has not wrapped: it is the ticks that were not merged and   *)
(* are not on their way (Due).                                             *)
Unwrapped == milliseconds \in Nat /\ milliseconds = ticks - merged - Due

Minutes == milliseconds \div MinuteLength

(* Between two lines the screen announces every minute counted; within a   *)
(* line, all but the one the line is about, and nothing follows its text.  *)
Lines ==
  /\ \E S : screen \in Seq(S)
  /\ \/ Rest = <<>> /\ ~ Ends(screen) /\ Announced = Minutes
     \/ /\ Printing /\ Rest = MinuteLine(Minutes)
        /\ ~ Ends(screen) /\ Announced + 1 = Minutes
     \/ /\ Printing /\ Rest = <<<<"end of line">>>>
        /\ Ends(screen) /\ screen[Len(screen)] = <<"minutes elapsed", Minutes>>
        /\ Announced + 1 = Minutes

(* The inductive invariant, together with KeyboardProofs's Decoding.       *)
Running == TypeOK /\ Bounds /\ Stack /\ Stacked /\ Unwrapped /\ Lines

LEMMA ScreenIs ==
  /\ Complete = CompleteOf(screen) /\ Complete' = CompleteOf(screen')
  /\ Announced = Cardinality(Texts(Complete)) /\ Announced' = Cardinality(Texts(Complete'))
BY DEF Complete, CompleteOf, Announced, Texts

(* Of all that is printed only the text of a minute's line is one.         *)
LEMMA IsTexts ==
  /\ \A n : IsText(<<"minutes elapsed", n>>)
  /\ ~ IsText(<<"end of line">>)
  /\ \A c : ~ IsText(D!Show(c))
<1>1. \A n : IsText(<<"minutes elapsed", n>>) /\ ~ IsText(<<"end of line">>)
  BY DEF IsText
<1>2. ~ IsText(<<"nothing">>) /\ ~ IsText(<<"scroll up">>) /\ ~ IsText(<<"scroll down">>)
  BY DEF IsText
<1>3. \A c : ~ IsText(<<"print", c>>)
  BY DEF IsText
<1>4. QED
  BY <1>1, <1>2, <1>3, Zenon DEF D!Show, D!Nothing

(* The line of a minute as a sequence of two calls.                        *)
LEMMA TwoCalls ==
  ASSUME NEW a, NEW b
  PROVE  /\ <<a, b>> # <<>> /\ Head(<<a, b>>) = a
         /\ Tail(<<a, b>>) = <<b>>
         /\ <<a, b>> # <<b>>
<1>1. <<a, b>> # <<>> /\ Head(<<a, b>>) = a
  OBVIOUS
<1>2. Tail(<<a, b>>) = <<b>>
  OBVIOUS
<1>3. <<a, b>> # <<b>>
  OBVIOUS
<1>4. QED
  BY <1>1, <1>2, <1>3, Zenon

LEMMA OneCall ==
  ASSUME NEW b
  PROVE  <<b>> # <<>> /\ Head(<<b>>) = b /\ Tail(<<b>>) = <<>>
<1>1. <<b>> # <<>> /\ Head(<<b>>) = b
  OBVIOUS
<1>2. Tail(<<b>>) = <<>>
  OBVIOUS
<1>3. QED
  BY <1>1, <1>2

LEMMA MinuteLines ==
  ASSUME NEW n
  PROVE  /\ MinuteLine(n) # <<>> /\ Head(MinuteLine(n)) = <<"minutes elapsed", n>>
         /\ Tail(MinuteLine(n)) = <<<<"end of line">>>>
         /\ MinuteLine(n) # <<<<"end of line">>>>
BY TwoCalls, Zenon DEF MinuteLine

LEMMA PrintedIs ==
  ASSUME Stack, Stacked
  PROVE  /\ Printed <=> Rest = <<>>
         /\ frames # <<>> <=> todo # <<>>
         /\ Len(todo) \in Nat /\ (todo # <<>> => Len(todo) \in Nat \ {0})
<1>1. PICK S : todo \in Seq(S)
  BY DEF Stacked
<1>2. frames # <<>> <=> Len(frames) # 0
  BY EmptySeq DEF Stack, Shape
<1>3. todo # <<>> <=> Len(todo) # 0
  BY <1>1, EmptySeq
<1>4. Len(todo) = Len(frames) /\ Len(todo) \in Nat
  BY <1>1, LenProperties DEF Stacked
<1>5. frames # <<>> <=> todo # <<>>
  BY <1>2, <1>3, <1>4
<1>6. Printed <=> Rest = <<>>
  BY <1>5, Zenon DEF Printed, Rest
<1>7. QED
  BY <1>3, <1>4, <1>5, <1>6

-----------------------------------------------------------------------------
(* The stack of what is still to be printed follows the stack of handlers: *)
(* kept, one deeper, one less deep, and its top replaced.                  *)
LEMMA DepthKept ==
  ASSUME Stacked, todo' = todo, Len(frames') = Len(frames)
  PROVE  Stacked' /\ Rest' = Rest
BY DEF Stacked, Rest

LEMMA Entered ==
  ASSUME Stacked, Rest = <<>>, todo' = Append(todo, <<>>), Len(frames') = Len(frames) + 1
  PROVE  Stacked' /\ Rest' = <<>>
<1> DEFINE n == Len(todo)
<1>1. PICK S : todo \in Seq(S)
  BY DEF Stacked
<1>2. n \in Nat /\ (todo # <<>> => n > 0)
  BY <1>1, EmptySeq, LenProperties
<1>3. /\ todo' \in Seq(S \cup {<<>>}) /\ Len(todo') = n + 1 /\ todo'[n + 1] = <<>>
      /\ \A i \in 1 .. n : todo'[i] = todo[i]
  BY <1>1, Appended
<1>4. todo' # <<>>
  BY <1>2, <1>3, EmptySeq
<1>5. ASSUME NEW i \in 1 .. n PROVE todo[i] = <<>>
  <2>1. i \in 1 .. n - 1 \/ i = n
    BY <1>2
  <2>2. todo # <<>>
    BY <1>5, EmptySeq
  <2>3. QED
    BY <2>1, <2>2 DEF Stacked, Rest
<1> HIDE DEF n
<1>6. Len(todo') - 1 = n
  BY <1>2, <1>3
<1>7. \A i \in 1 .. Len(todo') - 1 : todo'[i] = <<>>
  BY <1>3, <1>5, <1>6
<1>8. Len(todo') = Len(frames')
  BY <1>3 DEF Stacked, n
<1>9. QED
  BY <1>3, <1>4, <1>7, <1>8 DEF Stacked, Rest

LEMMA Left ==
  ASSUME Stack, Stacked, frames # <<>>,
         todo' = SubSeq(todo, 1, Len(todo) - 1), Len(frames') = Len(frames) - 1
  PROVE  Stacked' /\ Rest' = <<>>
<1> DEFINE n == Len(todo)
<1>1. PICK S : todo \in Seq(S)
  BY DEF Stacked
<1>2. n \in Nat \ {0}
  BY PrintedIs
<1> HIDE DEF n
<1>3. \A i \in 1 .. n - 1 : todo[i] = <<>> /\ todo[i] \in {<<>>}
  BY DEF Stacked, n
<1>4. /\ todo' \in Seq({<<>>}) /\ Len(todo') = IF 1 <= n - 1 THEN n - 1 - 1 + 1 ELSE 0
  BY <1>2, <1>3, SubSeqProperties DEF n
<1>5. Len(todo') = n - 1
  BY <1>2, <1>4
<1>6. \A i \in 1 .. Len(todo') : todo'[i] = <<>>
  BY <1>4
<1>7. todo' # <<>> => todo'[Len(todo')] = <<>>
  <2>1. todo' # <<>> => Len(todo') \in Nat \ {0}
    BY <1>4, EmptySeq
  <2>2. QED
    BY <1>6, <2>1
<1>8. \A i \in 1 .. Len(todo') - 1 : todo'[i] = <<>>
  BY <1>2, <1>5, <1>6
<1>9. Len(todo') = Len(frames')
  BY <1>5 DEF Stacked, n
<1>10. QED
  BY <1>4, <1>7, <1>8, <1>9 DEF Stacked, Rest

LEMMA Rewritten ==
  ASSUME Stack, Stacked, frames # <<>>, NEW x,
         todo' = [todo EXCEPT ![Len(todo)] = x], Len(frames') = Len(frames)
  PROVE  Stacked' /\ Rest' = x
<1> DEFINE n == Len(todo)
<1>1. PICK S : todo \in Seq(S)
  BY DEF Stacked
<1>2. n \in Nat \ {0}
  BY PrintedIs
<1>3. todo \in Seq(S \cup {x}) /\ x \in S \cup {x} /\ n \in 1 .. Len(todo)
  BY <1>1, <1>2
<1>4. /\ todo' \in Seq(S \cup {x}) /\ Len(todo') = n
      /\ \A i \in 1 .. n : todo'[i] = IF i = n THEN x ELSE todo[i]
  BY <1>3, ExceptSeq
<1> HIDE DEF n
<1>5. todo' # <<>> /\ todo'[Len(todo')] = x
  BY <1>2, <1>4, EmptySeq
<1>6. \A i \in 1 .. n - 1 : i \in 1 .. n /\ i # n
  BY <1>2
<1>7. \A i \in 1 .. Len(todo') - 1 : todo'[i] = <<>>
  BY <1>4, <1>6 DEF Stacked, n
<1>8. Len(todo') = Len(frames')
  BY <1>4 DEF Stacked, n
<1>9. QED
  BY <1>4, <1>5, <1>7, <1>8 DEF Stacked, Rest

(* How each step of module Interrupts changes the depth of that stack.     *)
LEMMA Depth ==
  ASSUME Stack, TypeOK
  PROVE  /\ MainStep \/ Tick \/ KeyboardSends => frames' = frames
         /\ Cli \/ Sti \/ Count \/ ReadStatus \/ ReadData \/ UseKey \/ Eoi
              => Len(frames') = Len(frames)
         /\ Iret => frames # <<>> /\ Len(frames') = Len(frames) - 1
         /\ Deliver \/ DeliverSpurious => Len(frames') = Len(frames) + 1
<1>1. frames \in Seq(Frame) /\ Len(frames) \in Nat /\ (frames # <<>> => Len(frames) \in Nat \ {0})
  BY EmptySeq, LenProperties DEF Stack, Shape
<1>2. MainStep \/ Tick \/ KeyboardSends => frames' = frames
  BY DEF MainStep, MainAt, DelayRead, StartTimer, Unmask, Route, EnableInterrupts, Tick,
         KeyboardSends, cpu
<1>3. ASSUME NEW c, AdvanceWith(c) PROVE Len(frames') = Len(frames)
  BY <1>1, <1>3 DEF AdvanceWith
<1>4. Cli \/ Sti \/ Count \/ ReadStatus \/ ReadData \/ UseKey \/ Eoi => Len(frames') = Len(frames)
  BY <1>3 DEF Cli, Sti, Count, ReadStatus, ReadData, UseKey, Eoi, Advance
<1>5. Iret => frames # <<>> /\ frames' = SubSeq(frames, 1, Len(frames) - 1)
  BY DEF Iret, At
<1>6. ASSUME frames # <<>> PROVE Len(SubSeq(frames, 1, Len(frames) - 1)) = Len(frames) - 1
  <2> DEFINE n == Len(frames)
  <2>1. n \in Nat \ {0} /\ \A i \in 1 .. n - 1 : frames[i] \in Frame
    BY <1>1, <1>6
  <2> HIDE DEF n
  <2>2. Len(SubSeq(frames, 1, n - 1)) = IF 1 <= n - 1 THEN n - 1 - 1 + 1 ELSE 0
    BY <2>1, SubSeqProperties
  <2>3. Len(SubSeq(frames, 1, n - 1)) = n - 1
    BY <2>1, <2>2
  <2>4. QED
    BY <2>3 DEF n
<1>7. ASSUME NEW v, Enter(v) PROVE Len(frames') = Len(frames) + 1
  BY <1>1, <1>7, Appended DEF Enter
<1>8. Deliver \/ DeliverSpurious => Len(frames') = Len(frames) + 1
  BY <1>7 DEF Deliver, DeliverSpurious
<1>9. QED
  BY <1>2, <1>4, <1>5, <1>6, <1>8

-----------------------------------------------------------------------------
(* The minutes.                                                            *)
LEMMA Numbers ==
  /\ MinuteLength \in Nat \ {0} /\ IntMax \in Nat /\ MaxTicks \in Nat
  /\ TypeOK => ticks \in 0 .. MaxTicks /\ merged \in 0 .. MaxTicks
BY BoundAssumption DEF BoundAssumption, TypeOK

(* With fewer ticks than an int can count the counter does not wrap.       *)
LEMMA UnwrappedStep ==
  ASSUME MaxTicks <= IntMax, TypeOK, TypeOK', Stack, Stack', Unwrapped, [Next]_vars
  PROVE  /\ Unwrapped'
         /\ Count => milliseconds' = milliseconds + 1
<1>1. Due \in 0 .. 2 /\ (Counting => Due \in 1 .. 2)
  BY DEF Due
<1>2. /\ milliseconds \in Nat /\ ticks \in Nat /\ merged \in Nat /\ Due \in Nat
      /\ ticks <= MaxTicks /\ IntMax \in Nat /\ MaxTicks \in Nat
      /\ milliseconds = ticks - merged - Due
  BY <1>1, Numbers DEF Unwrapped
<1>3. CASE UNCHANGED <<milliseconds, clock>> /\ Due' = Due /\ ~ Count
  BY <1>3 DEF Unwrapped, clock
<1>4. CASE Count /\ Counting /\ Due' = Due - 1
  <2>1. milliseconds # IntMax
    BY <1>1, <1>2, <1>4
  <2>2. milliseconds' = milliseconds + 1 /\ ticks' = ticks /\ merged' = merged
    BY <1>4, <2>1 DEF Count, incremented, clock
  <2>3. milliseconds' = ticks' - merged' - Due' /\ milliseconds' \in Nat
    BY <1>2, <1>4, <2>2
  <2>4. QED
    BY <2>2, <2>3 DEF Unwrapped
<1>5. CASE Tick /\ (Counting' <=> Counting) /\ ~ Count
  <2>1. milliseconds' = milliseconds
    BY <1>5 DEF Tick, counted
  <2>2. ticks' - merged' - Due' = ticks - merged - Due
    BY <1>2, <1>5 DEF Tick, Due
  <2>3. QED
    BY <1>2, <1>5, <2>1, <2>2 DEF Unwrapped
<1>6. Count => Counting /\ ticks' = ticks /\ milliseconds' # milliseconds
  <2>1. ASSUME Count PROVE milliseconds' # milliseconds
    <3>1. milliseconds' = IF milliseconds = IntMax THEN -IntMax - 1 ELSE milliseconds + 1
      BY <2>1 DEF Count, incremented
    <3>2. QED
      BY <1>2, <3>1
  <2>2. QED
    BY <2>1, CountMoves DEF Count, clock
<1>7. Tick => ticks' # ticks
  BY <1>2 DEF Tick
<1>8. QED
  BY <1>3, <1>4, <1>5, <1>6, <1>7, DueStep

LEMMA Remainder ==
  ASSUME NEW x \in Nat, NEW d \in Nat \ {0}
  PROVE  \E q \in Nat, r \in Nat : q = x \div d /\ r = x % d /\ x = d * q + r /\ r < d
<1>1. x - d * (x \div d) = x % d
  OBVIOUS
<1>2. x \div d \in Int
  OBVIOUS
<1>3. x \div d >= 0
  OBVIOUS
<1>4. x % d \in 0 .. d - 1
  OBVIOUS
<1>5. PICK q : q = x \div d
  OBVIOUS
<1>6. PICK r : r = x % d
  OBVIOUS
<1>7. q \in Nat
  BY <1>2, <1>3, <1>5
<1>8. r \in Nat /\ r < d
  BY <1>4, <1>6
<1>9. x - d * q = r
  BY <1>1, <1>5, <1>6, Zenon
<1>10. x = d * q + r
  BY <1>7, <1>8, <1>9
<1>11. QED
  BY <1>5, <1>6, <1>7, <1>8, <1>10, Zenon

LEMMA Quotient ==
  ASSUME NEW x \in Nat, NEW d \in Nat \ {0}, NEW q \in Int, NEW r \in Int,
         x = d * q + r, 0 <= r, r < d
  PROVE  x \div d = q /\ x % d = r
OBVIOUS

(* The quotient grows by one where the remainder becomes zero.             *)
LEMMA NextMinute ==
  ASSUME NEW t \in Nat, NEW m \in Nat \ {0}
  PROVE  /\ t \div m \in Nat
         /\ (t + 1) % m = 0 => (t + 1) \div m = (t \div m) + 1
         /\ (t + 1) % m # 0 => (t + 1) \div m = t \div m
<1>1. PICK q \in Nat, r \in Nat : q = t \div m /\ r = t % m /\ t = m * q + r /\ r < m
  BY Remainder, Zenon
<1>2. t + 1 \in Nat /\ q + 1 \in Nat /\ m * (q + 1) = m * q + m
  BY <1>1
<1>3. CASE r + 1 < m
  <2>1. t + 1 = m * q + (r + 1) /\ r + 1 # 0 /\ 0 <= r + 1
    BY <1>1
  <2>2. (t + 1) \div m = q /\ (t + 1) % m = r + 1
    BY <1>2, <1>3, <2>1, Quotient
  <2>3. QED
    BY <1>1, <2>1, <2>2, Zenon
<1>4. CASE r + 1 = m
  <2>1. t + 1 = m * (q + 1) + 0 /\ 0 <= 0 /\ 0 < m
    BY <1>1, <1>2, <1>4
  <2>2. (t + 1) \div m = q + 1 /\ (t + 1) % m = 0
    BY <1>2, <2>1, Quotient
  <2>3. QED
    BY <1>1, <2>2, Zenon
<1>5. r + 1 < m \/ r + 1 = m
  BY <1>1
<1>6. QED
  BY <1>3, <1>4, <1>5

(* Nobody is printing while an interrupt can be delivered.                 *)
LEMMA QuietWhileOn ==
  ASSUME Stack, interrupts_on
  PROVE  ~ Printing
BY TopFacts DEF Stack, OnlyInEpilogue, Printing, EoiPlace

(* Steps that leave the screen and the counter alone, and a step that      *)
(* prints something whole between two lines.                               *)
LEMMA LinesKept ==
  ASSUME Lines, screen' = screen, milliseconds' = milliseconds, Rest' = Rest,
         Rest = <<>> \/ frames' = frames
  PROVE  Lines'
<1>1. Announced' = Announced /\ Minutes' = Minutes
  BY ScreenIs DEF Minutes
<1>2. CASE Rest = <<>>
  <2>1. ~ Ends(screen) /\ Announced = Minutes
    BY <1>2, MinuteLines, OneCall DEF Lines
  <2>2. QED
    BY <1>1, <1>2, <2>1 DEF Lines
<1>3. CASE Rest # <<>>
  <2>1. Printing' <=> Printing
    BY <1>3 DEF Printing, Top
  <2>2. MinuteLine(Minutes)' = MinuteLine(Minutes)
    BY <1>1
  <2>3. QED
    BY <1>1, <1>3, <2>1, <2>2, Zenon DEF Lines
<1>4. QED
  BY <1>2, <1>3

LEMMA LinesWhole ==
  ASSUME Lines, Rest = <<>>, Rest' = <<>>, milliseconds' = milliseconds,
         NEW x, ~ IsText(x), screen' = Append(screen, x)
  PROVE  /\ Lines'
         /\ Complete' = Append(Complete, x) /\ Announced' = Announced
<1>1. PICK S : screen \in Seq(S)
  BY DEF Lines
<1>2. ~ Ends(screen) /\ Announced = Minutes
  BY MinuteLines, OneCall DEF Lines
<1>3. /\ ~ Ends(Append(screen, x)) /\ CompleteOf(screen) = screen
      /\ CompleteOf(Append(screen, x)) = Append(screen, x)
      /\ Cardinality(Texts(Append(screen, x))) = Cardinality(Texts(screen))
  BY <1>1, <1>2, WholePrinted
<1>6. /\ ~ Ends(screen') /\ Complete = screen /\ Complete' = Append(screen, x)
      /\ Announced' = Announced
  BY <1>3, ScreenIs, Zenon
<1>4. screen' \in Seq(S \cup {x})
  BY <1>1, Appended
<1>5. QED
  BY <1>2, <1>4, <1>6 DEF Lines, Minutes

-----------------------------------------------------------------------------
(* Counting a millisecond: at the end of a minute its line becomes what    *)
(* the handler has to print.                                               *)
LEMMA LinesCount ==
  ASSUME TypeOK, Stack, Stacked, Unwrapped, Lines, CountAndPrint,
         milliseconds' = milliseconds + 1
  PROVE  Stacked' /\ Lines'
<1> DEFINE n == (milliseconds + 1) \div MinuteLength
<1>1. /\ Count /\ Rest = <<>> /\ screen' = screen /\ frames # <<>>
      /\ Len(frames') = Len(frames)
  BY PrintedIs, Depth, CountMoves DEF CountAndPrint
<1>2. Printing'
  <2>1. At("count") /\ AdvanceWith(Top.c)
    BY <1>1 DEF Count, Advance
  <2>2. Top.vec = TIMER /\ Top.pc = 2 /\ Top.c \in 0 .. MaxBytes
    BY <2>1, BodyAt
  <2>3. frames' # <<>> /\ Top'.vec = Top.vec /\ Top'.pc = Top.pc + 1
    BY <2>1, <2>2, AdvanceMoves
  <2>4. QED
    BY <2>2, <2>3 DEF Printing
<1>3. /\ ~ Ends(screen) /\ Announced = Minutes /\ Announced' = Announced
      /\ \E S : screen' \in Seq(S)
  BY <1>1, MinuteLines, OneCall, ScreenIs DEF Lines
<1>4. milliseconds \in Nat /\ MinuteLength \in Nat \ {0} /\ Minutes' = n
  BY Numbers DEF Unwrapped, Minutes
<1>5. minutes_shown \in Seq(Int) /\ n \in Int
  BY <1>4 DEF TypeOK
<1>6. minutes_shown' = IF (milliseconds + 1) % MinuteLength = 0 THEN Append(minutes_shown, n)
                       ELSE minutes_shown
  BY <1>1 DEF Count
<1> HIDE DEF n
<1>7. CASE (milliseconds + 1) % MinuteLength = 0
  <2>1. minutes_shown' = Append(minutes_shown, n)
    BY <1>6, <1>7
  <2>2. Len(minutes_shown') = Len(minutes_shown) + 1 /\ minutes_shown'[Len(minutes_shown) + 1] = n
    BY <1>5, <2>1, AppendProperties
  <2>3. minutes_shown' # minutes_shown /\ minutes_shown'[Len(minutes_shown')] = n
    BY <1>5, <2>2, LenProperties
  <2>4. todo' = [todo EXCEPT ![Len(todo)] = MinuteLine(n)]
    BY <2>3 DEF CountAndPrint
  <2>5. Stacked' /\ Rest' = MinuteLine(n)
    BY <1>1, <2>4, Rewritten
  <2>6. Announced' + 1 = Minutes'
    BY <1>3, <1>4, <1>7, NextMinute DEF n, Minutes
  <2>7. Rest' = MinuteLine(Minutes)'
    BY <1>4, <2>5
  <2>8. QED
    BY <1>1, <1>2, <1>3, <2>5, <2>6, <2>7, Zenon DEF Lines
<1>8. CASE (milliseconds + 1) % MinuteLength # 0
  <2>1. todo' = todo
    BY <1>6, <1>8 DEF CountAndPrint
  <2>2. Stacked' /\ Rest' = <<>>
    BY <1>1, <2>1, DepthKept
  <2>3. Announced' = Minutes'
    BY <1>3, <1>4, <1>8, NextMinute DEF n, Minutes
  <2>4. QED
    BY <1>1, <1>3, <2>2, <2>3, Zenon DEF Lines
<1>9. QED
  BY <1>7, <1>8

(* A character of a line: its text, which completes nothing, or its end,   *)
(* which puts the whole line of the next minute on the screen.             *)
LEMMA LinesPut ==
  ASSUME TypeOK, Stack, Stacked, Unwrapped, Lines, PutChar
  PROVE  /\ Stacked' /\ Lines'
         /\ \/ Complete' = Complete /\ Announced' = Announced
            \/ /\ Announced' = Announced + 1
               /\ Complete' = Complete \o MinuteLine(Announced')
<1>1. /\ Rest # <<>> /\ frames # <<>> /\ todo # <<>> /\ frames' = frames
      /\ milliseconds' = milliseconds
  BY PrintedIs DEF PutChar, Printed, vars, cpu, counted
<1>2. Rest = todo[Len(todo)]
  BY <1>1 DEF Rest
<1>3. /\ screen' = Append(screen, Head(Rest))
      /\ todo' = [todo EXCEPT ![Len(todo)] = Tail(Rest)]
  BY <1>2 DEF PutChar
<1>4. Stacked' /\ Rest' = Tail(Rest) /\ Printing /\ Printing'
  BY <1>1, <1>3, Rewritten DEF Lines, Printing, Top
<1>5. PICK S : screen \in Seq(S)
  BY DEF Lines
<1>6. Minutes' = Minutes /\ \E V : screen' \in Seq(V)
  BY <1>1, <1>3, <1>5, Appended DEF Minutes
<1>7. CASE /\ Rest = MinuteLine(Minutes)
           /\ ~ Ends(screen) /\ Announced + 1 = Minutes
  <2> DEFINE x == <<"minutes elapsed", Minutes>>
  <2>1. /\ screen' = Append(screen, x) /\ IsText(x) /\ Rest' = <<<<"end of line">>>>
    BY <1>3, <1>4, <1>7, MinuteLines, IsTexts
  <2>2. Len(screen') = Len(screen) + 1 /\ screen'[Len(screen) + 1] = x
    BY <1>5, <2>1, Appended
  <2> HIDE DEF x
  <2>3. /\ Ends(screen') /\ CompleteOf(screen') = CompleteOf(screen)
    BY <1>5, <1>7, <2>1, TextPrinted
  <2>4. Complete' = Complete /\ Announced' = Announced
    BY <2>3, ScreenIs
  <2>5. screen'[Len(screen')] = <<"minutes elapsed", Minutes'>>
    BY <1>6, <2>2 DEF x
  <2>6. Lines'
    BY <1>4, <1>6, <1>7, <2>1, <2>3, <2>4, <2>5, Zenon DEF Lines
  <2>7. QED
    BY <1>4, <2>4, <2>6
<1>8. CASE /\ Rest = <<<<"end of line">>>> /\ Ends(screen)
           /\ screen[Len(screen)] = <<"minutes elapsed", Minutes>>
           /\ Announced + 1 = Minutes
  <2> DEFINE x == <<"end of line">>
  <2>1. /\ screen' = Append(screen, x) /\ ~ IsText(x) /\ Rest' = <<>>
    BY <1>3, <1>4, <1>8, OneCall, IsTexts
  <2> HIDE DEF x
  <2>2. /\ ~ Ends(Append(screen, x))
        /\ CompleteOf(Append(screen, x)) = CompleteOf(screen) \o <<screen[Len(screen)], x>>
        /\ Cardinality(Texts(CompleteOf(Append(screen, x))))
              = Cardinality(Texts(CompleteOf(screen))) + 1
    BY <1>5, <1>8, <2>1, EndPrinted
  <2>3. Announced' = Announced + 1 /\ ~ Ends(screen')
    BY <2>1, <2>2, ScreenIs, Zenon
  <2>4. <<screen[Len(screen)], x>> = MinuteLine(Announced')
    BY <1>8, <2>3, Zenon DEF MinuteLine, x
  <2>5. Complete' = Complete \o MinuteLine(Announced')
    BY <2>1, <2>2, <2>4, ScreenIs, Zenon
  <2>6. Announced' = Minutes'
    BY <1>6, <1>8, <2>3
  <2>7. Lines'
    BY <1>6, <2>1, <2>3, <2>6, Zenon DEF Lines
  <2>8. QED
    BY <1>4, <2>3, <2>5, <2>7
<1>9. QED
  BY <1>1, <1>7, <1>8, Zenon DEF Lines

-----------------------------------------------------------------------------
(* A step of the kernel is a step of its interrupts and of its decoder.    *)
UsesByte == D!EscapeByte \/ D!ReleaseByte \/ D!PressByte

LEMMA DecoderSteps ==
  /\ UsesByte \/ D!DelayFindsNothing \/ D!DelayTakesByte => K!Next
  /\ \A k \in Keys : D!Press(k) \/ D!Repeat(k) \/ D!Release(k) => K!Next
  /\ UNCHANGED decoder => UNCHANGED K!vars
<1>1. UsesByte \/ D!DelayFindsNothing \/ D!DelayTakesByte => K!Next
  BY SameRead, SameDelay DEF UsesByte, K!Next, K!ByteRead
<1>2. ASSUME NEW k \in Keys, D!Press(k) \/ D!Repeat(k) \/ D!Release(k) PROVE K!Next
  <2>1. K!Press(k) \/ K!Repeat(k) \/ K!Release(k)
    BY <1>2, SameTyping
  <2>2. QED
    BY <2>1 DEF K!Next
<1>3. UNCHANGED decoder => UNCHANGED K!vars
  BY DEF decoder, K!vars
<1>4. QED
  BY <1>1, <1>2, <1>3

LEMMA BootCases ==
  ASSUME BootStep
  PROVE  /\ MainStep /\ todo' = todo /\ screen' = screen
         /\ UNCHANGED decoder \/ D!DelayFindsNothing \/ D!DelayTakesByte
BY DEF BootStep

LEMMA UseCases ==
  ASSUME UseByte
  PROVE  /\ UseKey /\ Printed /\ todo' = todo
         /\ \/ UNCHANGED <<decoder, screen>>
            \/ /\ UsesByte
               /\ \/ D!LastByte /\ effect' # D!Nothing /\ screen' = Append(screen, effect')
                  \/ ~ (D!LastByte /\ effect' # D!Nothing) /\ screen' = screen
BY DEF UseByte, UsesByte

LEMMA KernelSteps ==
  ASSUME [KernelNext]_kernelvars
  PROVE  [Next]_vars /\ [K!Next]_K!vars
<1>1. CASE BootStep
  BY <1>1, BootCases, DecoderSteps DEF Next, CpuStep
<1>2. CASE PutChar \/ UNCHANGED kernelvars
  BY <1>2, DecoderSteps DEF PutChar, kernelvars
<1>3. CASE CountAndPrint
  BY <1>3, DecoderSteps DEF CountAndPrint, Next, CpuStep, HandlerStep
<1>4. CASE UseByte
  BY <1>4, UseCases, DecoderSteps DEF Next, CpuStep, HandlerStep
<1>5. CASE OtherStep \/ Return
  BY <1>5, DecoderSteps DEF OtherStep, Return, Next, CpuStep, HandlerStep
<1>6. CASE Interrupt \/ SpuriousInterrupt \/ TimerTick \/ Send
  BY <1>6, DecoderSteps DEF Interrupt, SpuriousInterrupt, TimerTick, Send, Next
<1>7. ASSUME NEW k \in Keys, UseKeyboard(k) PROVE [Next]_vars /\ [K!Next]_K!vars
  BY <1>7, DecoderSteps DEF UseKeyboard
<1>8. QED
  BY <1>1, <1>2, <1>3, <1>4, <1>5, <1>6, <1>7 DEF KernelNext, KernelCpu

(* What a key prints is never the text of a minute's line.                 *)
LEMMA EffectIsWhole == UsesByte /\ D!LastByte => ~ IsText(effect')
<1> SUFFICES ASSUME UsesByte, D!LastByte PROVE ~ IsText(effect')
  OBVIOUS
<1>1. K!ByteRead /\ K!LastByte
  BY SameRead, SameData DEF UsesByte
<1>2. PICK c : K!Take(c)
  BY <1>1, K!AllTake, KeysFit
<1>3. effect' = K!Show(c)
  BY <1>1, <1>2, K!Taken, KeysFit
<1>4. effect' = D!Show(c)
  BY <1>3, SameChars
<1>5. QED
  BY <1>4, IsTexts

(* Every step of the kernel keeps the invariant.                           *)
LEMMA RunningStep ==
  ASSUME MaxTicks <= IntMax, Running, K!Decoding, [KernelNext]_kernelvars
  PROVE  Running' /\ K!Decoding'
<1>1. /\ TypeOK /\ Bounds /\ Stack /\ Stacked /\ Unwrapped /\ Lines
      /\ [Next]_vars /\ [K!Next]_K!vars
  BY KernelSteps DEF Running
<1>2. TypeOK' /\ Bounds' /\ Stack'
  BY <1>1, TypeStep, StackStep
<1>3. Unwrapped' /\ (Count => milliseconds' = milliseconds + 1)
  BY <1>1, <1>2, UnwrappedStep
<1>4. K!Decoding'
  BY <1>1, K!NextDecoding, KeysFit
<1>5. SUFFICES Stacked' /\ Lines'
  BY <1>2, <1>3, <1>4 DEF Running
<1>6. ASSUME UNCHANGED <<screen, todo, milliseconds>>, Len(frames') = Len(frames),
             Rest = <<>> \/ frames' = frames
      PROVE  Stacked' /\ Lines'
  BY <1>1, <1>6, DepthKept, LinesKept
<1>7. CASE BootStep
  <2>1. milliseconds' = milliseconds
    BY <1>7, BootCases DEF MainStep, MainAt, DelayRead, StartTimer, Unmask, Route,
                           EnableInterrupts, counted
  <2>2. QED
    BY <1>1, <1>6, <1>7, <2>1, BootCases, Depth
<1>8. CASE PutChar
  BY <1>1, <1>8, LinesPut
<1>9. CASE CountAndPrint
  BY <1>1, <1>3, <1>9, LinesCount DEF CountAndPrint
<1>10. CASE UseByte
  <2>1. /\ Rest = <<>> /\ todo' = todo /\ Len(frames') = Len(frames)
        /\ milliseconds' = milliseconds
    BY <1>1, <1>10, UseCases, PrintedIs, Depth DEF UseKey, counted
  <2>2. CASE screen' = screen
    BY <1>6, <2>1, <2>2
  <2>3. CASE UsesByte /\ D!LastByte /\ screen' = Append(screen, effect')
    BY <1>1, <2>1, <2>3, EffectIsWhole, DepthKept, LinesWhole
  <2>4. QED
    BY <1>10, <2>2, <2>3, UseCases
<1>11. CASE OtherStep
  <2>1. /\ Rest = <<>> /\ UNCHANGED <<todo, screen, milliseconds>>
        /\ Len(frames') = Len(frames)
    BY <1>1, <1>11, PrintedIs, Depth DEF OtherStep, Cli, Sti, ReadStatus, ReadData, Eoi, counted
  <2>2. QED
    BY <1>6, <2>1
<1>12. CASE Return
  <2>1. /\ Rest = <<>> /\ UNCHANGED <<screen, milliseconds>> /\ frames # <<>>
        /\ todo' = SubSeq(todo, 1, Len(todo) - 1) /\ Len(frames') = Len(frames) - 1
    BY <1>1, <1>12, PrintedIs, Depth DEF Return, Iret, counted
  <2>2. Stacked' /\ Rest' = <<>>
    BY <1>1, <2>1, Left
  <2>3. QED
    BY <1>1, <2>1, <2>2, LinesKept
<1>13. CASE Interrupt \/ SpuriousInterrupt
  <2>1. /\ UNCHANGED <<screen, milliseconds>> /\ interrupts_on
        /\ todo' = Append(todo, <<>>) /\ Len(frames') = Len(frames) + 1
    BY <1>1, <1>13, Depth DEF Interrupt, SpuriousInterrupt, Deliver, DeliverSpurious, counted
  <2>2. Rest = <<>>
    BY <1>1, <2>1, QuietWhileOn DEF Lines
  <2>3. Stacked' /\ Rest' = <<>>
    BY <1>1, <2>1, <2>2, Entered
  <2>4. QED
    BY <1>1, <2>1, <2>2, <2>3, LinesKept
<1>14. CASE TimerTick \/ Send
  <2>1. UNCHANGED <<screen, todo, milliseconds, frames>>
    BY <1>14 DEF TimerTick, Send, Tick, KeyboardSends, cpu, counted
  <2>2. QED
    BY <1>6, <2>1
<1>15. ASSUME UNCHANGED kernelvars \/ \E k \in Keys : UseKeyboard(k)
       PROVE  Stacked' /\ Lines'
  <2>1. UNCHANGED <<screen, todo, milliseconds, frames>>
    BY <1>15 DEF UseKeyboard, kernelvars, vars, cpu, counted
  <2>2. QED
    BY <1>6, <2>1
<1>16. QED
  BY <1>7, <1>8, <1>9, <1>10, <1>11, <1>12, <1>13, <1>14, <1>15 DEF KernelNext, KernelCpu

-----------------------------------------------------------------------------
(* What a step of the kernel is to Console.                                *)
LEMMA ScreenStill ==
  ASSUME screen' = screen
  PROVE  Complete' = Complete /\ Announced' = Announced
BY ScreenIs

LEMMA DecoderStill == UNCHANGED decoder => UNCHANGED Abstract!kvars
BY SameHandling DEF decoder, K!Abstract!kvars, K!Events

LEMMA StutterIs ==
  ASSUME UNCHANGED Abstract!kvars, Complete' = Complete, Announced' = Announced
  PROVE  UNCHANGED Abstract!cvars
BY DEF Abstract!cvars

LEMMA UseIsStep ==
  ASSUME "Home" \notin Keys, Running, K!Decoding, UseByte
  PROVE  Abstract!KeyHandled \/ UNCHANGED Abstract!cvars
<1>1. Stack /\ Stacked /\ Lines /\ Rest = <<>> /\ todo' = todo
  BY UseCases, PrintedIs DEF Running
<1>2. CASE UNCHANGED <<decoder, screen>>
  BY <1>2, DecoderStill, ScreenStill, StutterIs
<1>3. ASSUME UsesByte,
             \/ D!LastByte /\ effect' # D!Nothing /\ screen' = Append(screen, effect')
             \/ ~ (D!LastByte /\ effect' # D!Nothing) /\ screen' = screen
      PROVE  Abstract!KeyHandled \/ UNCHANGED Abstract!cvars
  <2>1. \/ /\ D!LastByte
           /\ Abstract!HandleDown \/ Abstract!HandleUp \/ Abstract!Spoil
        \/ ~ D!LastByte /\ UNCHANGED Abstract!kvars
    BY <1>3, K!ByteHandles, KeysFit, SameRead, SameData, SameHandling DEF UsesByte
  <2>2. CASE ~ D!LastByte /\ UNCHANGED Abstract!kvars
    BY <1>3, <2>2, ScreenStill, StutterIs
  <2>3. CASE D!LastByte /\ effect' # D!Nothing
             /\ (Abstract!HandleDown \/ Abstract!HandleUp \/ Abstract!Spoil)
    <3>1. screen' = Append(screen, effect') /\ ~ IsText(effect')
      BY <1>3, <2>3, EffectIsWhole
    <3>2. Rest' = <<>> /\ milliseconds' = milliseconds
      BY <1>1, UseCases DEF Rest, UseKey, counted
    <3>3. Complete' = Append(Complete, effect') /\ Announced' = Announced
      BY <1>1, <3>1, <3>2, LinesWhole
    <3>4. QED
      BY <2>3, <3>3 DEF Abstract!KeyHandled
  <2>4. CASE D!LastByte /\ effect' = D!Nothing
             /\ (Abstract!HandleDown \/ Abstract!HandleUp \/ Abstract!Spoil)
    BY <1>3, <2>4, ScreenStill DEF Abstract!KeyHandled
  <2>5. QED
    BY <2>1, <2>2, <2>3, <2>4
<1>4. QED
  BY <1>2, <1>3, UseCases

LEMMA KernelIsStep ==
  ASSUME "Home" \notin Keys, Running, K!Decoding, [KernelNext]_kernelvars
  PROVE  [Abstract!CNext]_Abstract!cvars
<1>1. CASE UseByte
  BY <1>1, UseIsStep DEF Abstract!CNext
<1>2. CASE PutChar
  <2>1. \/ Complete' = Complete /\ Announced' = Announced
        \/ Announced' = Announced + 1 /\ Complete' = Complete \o MinuteLine(Announced')
    BY <1>2, LinesPut DEF Running
  <2>2. UNCHANGED Abstract!kvars
    BY <1>2, DecoderStill DEF PutChar
  <2>3. Abstract!MinuteOver \/ UNCHANGED Abstract!cvars
    BY <2>1, <2>2, StutterIs DEF Abstract!MinuteOver
  <2>4. QED
    BY <2>3 DEF Abstract!CNext
<1>3. CASE BootStep
  <2>1. Complete' = Complete /\ Announced' = Announced
    BY <1>3, BootCases, ScreenStill
  <2>2. CASE UNCHANGED decoder
    BY <2>1, <2>2, DecoderStill, StutterIs
  <2>3. CASE D!DelayFindsNothing
    <3>1. Abstract!Listen
      BY <2>3, SameDelay, SameHandling, K!NothingListens, KeysFit
    <3>2. QED
      BY <2>1, <3>1 DEF Abstract!CNext
  <2>4. CASE D!DelayTakesByte
    <3>1. Abstract!Spoil \/ UNCHANGED Abstract!kvars
      BY <2>4, SameDelay, SameHandling, K!DelaySpoils, KeysFit
    <3>2. effect' = D!Nothing /\ screen' = screen
      BY <1>3, <2>4, BootCases, SameDelay, SameConstants, K!DelayStep, KeysFit
    <3>3. CASE Abstract!Spoil
      BY <2>1, <3>2, <3>3 DEF Abstract!CNext, Abstract!KeyHandled
    <3>4. CASE UNCHANGED Abstract!kvars
      BY <2>1, <3>4, StutterIs
    <3>5. QED
      BY <3>1, <3>3, <3>4
  <2>5. QED
    BY <1>3, <2>2, <2>3, <2>4, BootCases
<1>4. ASSUME NEW k \in Keys, UseKeyboard(k) PROVE Abstract!CNext
  <2>1. PICK down \in BOOLEAN : Abstract!Event(k, down)
    BY <1>4, SameTyping, K!TypingIsEvent, KeysFit, SameHandling DEF UseKeyboard
  <2>2. Complete' = Complete /\ Announced' = Announced
    BY <1>4, ScreenStill DEF UseKeyboard
  <2>3. Abstract!KeyTyped
    BY <2>1, <2>2 DEF Abstract!KeyTyped
  <2>4. QED
    BY <2>3 DEF Abstract!CNext
<1>5. CASE \/ CountAndPrint \/ OtherStep \/ Return \/ Interrupt \/ SpuriousInterrupt
           \/ TimerTick \/ Send \/ UNCHANGED kernelvars
  <2>1. UNCHANGED <<decoder, screen>>
    BY <1>5 DEF CountAndPrint, OtherStep, Return, Interrupt, SpuriousInterrupt, TimerTick,
                Send, kernelvars
  <2>2. QED
    BY <2>1, DecoderStill, ScreenStill, StutterIs
<1>6. QED
  BY <1>1, <1>2, <1>3, <1>4, <1>5 DEF KernelNext, KernelCpu

LEMMA KernelStarts ==
  ASSUME KernelInit
  PROVE  Running /\ K!Decoding /\ Abstract!CInit
<1>1. Init /\ D!Init /\ todo = <<>> /\ screen = <<>>
  BY DEF KernelInit
<1>2. TypeOK /\ Bounds /\ Stack
  BY <1>1, Starts
<1>3. Stacked /\ Rest = <<>>
  <2>1. todo \in Seq({}) /\ Len(todo) = 0 /\ frames = <<>> /\ Len(frames) = 0
    BY <1>1, EmptySeq DEF Init
  <2>2. QED
    BY <1>1, <2>1 DEF Stacked, Rest
<1>4. Unwrapped
  <2>1. irr = {} /\ frames = <<>> /\ milliseconds = 0 /\ ticks = 0 /\ merged = 0
    BY <1>1 DEF Init
  <2>2. ~ Counting
    BY <2>1 DEF Counting
  <2>3. Due = 0
    BY <2>1, <2>2 DEF Due
  <2>4. QED
    BY <2>1, <2>3 DEF Unwrapped
<1>5. Complete = <<>> /\ Announced = 0 /\ ~ Ends(screen)
  <2>1. Complete = <<>> /\ ~ Ends(screen)
    BY <1>1, ScreenIs DEF CompleteOf, Ends
  <2>2. Texts(<<>>) = {}
    BY DEF Texts
  <2>3. QED
    BY <2>1, <2>2, ScreenIs, FS_EmptySet
<1>6. Lines
  <2>1. Minutes = 0
    BY <1>1, Numbers DEF Init, Minutes
  <2>2. screen \in Seq({})
    BY <1>1
  <2>3. QED
    BY <1>3, <1>5, <2>1, <2>2 DEF Lines
<1>7. K!Decoding
  <2>1. K!Init
    BY <1>1, SameConstants DEF D!Init, K!Init
  <2>2. QED
    BY <2>1, K!InitDecoding, KeysFit
<1>8. Abstract!KInit
  <2>1. K!Abstract!KInit
    BY <1>1, K!StartsListening, KeysFit, SameConstants DEF D!Init, K!Init
  <2>2. QED
    BY <2>1, SameConstants, SameEvents DEF K!Abstract!KInit, Abstract!KInit
<1>9. QED
  BY <1>2, <1>3, <1>4, <1>5, <1>6, <1>7, <1>8 DEF Running, Abstract!CInit

(* The interrupts and the decoder inside the kernel do nothing that they   *)
(* do not do on their own: no step of the whole is outside module          *)
(* Interrupts or module Keyboard, so what those two promise, it keeps      *)
(* (keyboard_isr, timer_isr, kbd_get_key).                                 *)
THEOREM KernelIsItsParts == KernelSpec => Init /\ [][Next]_vars /\ D!Spec
<1>1. KernelInit => Init /\ D!Init
  BY DEF KernelInit
<1>2. ASSUME [KernelNext]_kernelvars PROVE [Next]_vars /\ [D!Next]_D!vars
  <2>1. [Next]_vars /\ [K!Next]_K!vars
    BY <1>2, KernelSteps
  <2>2. K!Next => D!Next
    BY SameRead, SameDelay, SameTyping DEF K!Next, K!ByteRead, D!Next
  <2>3. D!vars = K!vars /\ D!vars' = K!vars'
    BY DEF D!vars, K!vars
  <2>4. QED
    BY <2>1, <2>2, <2>3
<1>3. QED
  BY <1>1, <1>2, PTL DEF KernelSpec, D!Spec

(* With handlers nesting and printing one character at a time, the kernel  *)
(* does only what Console says: every key event is handled once and in     *)
(* order, its effect in one place, and each minute's line is whole and in  *)
(* its turn (timer_isr, keyboard_isr, kbd_get_key, printf_).  Home is left *)
(* out because no entry of the decoder's tables is at its index (kbd.h:72: *)
(* HomeIsNotDecoded), and there are fewer ticks than the counter of        *)
(* milliseconds can hold, 24.8 days: past that it wraps.                   *)
THEOREM KernelImplementsConsole ==
  "Home" \notin Keys /\ MaxTicks <= IntMax => (KernelSpec => ImplementsConsole)
<1> SUFFICES ASSUME "Home" \notin Keys, MaxTicks <= IntMax
             PROVE  KernelSpec => ImplementsConsole
  OBVIOUS
<1>1. KernelInit => Running /\ K!Decoding /\ Abstract!CInit
  BY KernelStarts
<1>2. Running /\ K!Decoding /\ [KernelNext]_kernelvars => (Running /\ K!Decoding)'
  BY RunningStep
<1>3. Running /\ K!Decoding /\ [KernelNext]_kernelvars => [Abstract!CNext]_Abstract!cvars
  BY KernelIsStep
<1>4. QED
  BY <1>1, <1>2, <1>3, PTL DEF KernelSpec, ImplementsConsole, Abstract!CSpec
=============================================================================
