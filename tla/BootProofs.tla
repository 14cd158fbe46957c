----------------------------- MODULE BootProofs -----------------------------
(***************************************************************************)
(* Theorems about the boot, for whatever the firmware left behind and the  *)
(* timer counts, and about the two steps MCBoot looks at more closely: the *)
(* descriptor tables, for every size of a byte, place of the kernel and    *)
(* selector of the loader's, and the calibration, for every machine's      *)
(* clock and reload value.                                                 *)
(***************************************************************************)
EXTENDS MCBoot, SequenceTheorems, TLAPS

(* The steps of kernel_main by number. *)
LEMMA Steps ==
  /\ Len(kernel_main) = 11
  /\ kernel_main[1] = "cli" /\ kernel_main[2] = "init_gdt" /\ kernel_main[3] = "init_idt"
  /\ kernel_main[4] = "terminal_initialize" /\ kernel_main[5] = "banner"
  /\ kernel_main[6] = "detect_memory" /\ kernel_main[7] = "acpi"
  /\ kernel_main[8] = "mask_pic" /\ kernel_main[9] = "lapic"
  /\ kernel_main[10] = "ioapic_enable" /\ kernel_main[11] = "sti"
BY DEF kernel_main

Numbered == done \in 0 .. 11

LEMMA WhichStep ==
  ASSUME Numbered, NEW label, At(label)
  PROVE  /\ ~ panicked
         /\ label = "cli"                 => done = 0
         /\ label = "init_gdt"            => done = 1
         /\ label = "init_idt"            => done = 2
         /\ label = "terminal_initialize" => done = 3
         /\ label = "banner"              => done = 4
         /\ label = "detect_memory"       => done = 5
         /\ label = "acpi"                => done = 6
         /\ label = "mask_pic"            => done = 7
         /\ label = "lapic"               => done = 8
         /\ label = "ioapic_enable"       => done = 9
         /\ label = "sti"                 => done = 10
<1>1. /\ ~ panicked /\ done \in 0 .. 10 /\ kernel_main[done + 1] = label
  BY Steps DEF At, Numbered
<1>2. done + 1 \in {1, 2, 3, 4, 5, 6, 7, 8, 9, 10, 11}
  BY <1>1
<1>3. QED
  BY <1>1, <1>2, Steps

LEMMA EightOf ==
  /\ Len(apic_init) = 8
  /\ apic_init[1] = Write("TMR", Masked) /\ apic_init[2] = Write("PERF", To(NMI, FALSE))
  /\ apic_init[3] = Write("LINT0", Masked) /\ apic_init[4] = Write("LINT1", Masked)
  /\ apic_init[5] = Write("TASKPRIOR", 0) /\ apic_init[6] = Write("EOI", 0)
  /\ apic_init[7] = Write("TMR", To(TIMER, FALSE)) /\ apic_init[8] = Write("SPURIOUS", SPURIOUS)
BY DEF apic_init

LEMMA FourOf ==
  /\ Len(calibrate_timer) = 4
  /\ calibrate_timer[1] = Write("TMRINITCNT", FullCount)
  /\ calibrate_timer[2] = Write("TMR", Masked)
  /\ calibrate_timer[3] = Write("TMRINITCNT", ticksIn10ms \div 10)
  /\ calibrate_timer[4] = Write("TMR", To(TIMER, TRUE))
BY DEF calibrate_timer

LEMMA SequenceOfEight ==
  ASSUME NEW S, NEW a \in S, NEW b \in S, NEW c \in S, NEW d \in S, NEW e \in S, NEW f \in S,
         NEW g \in S, NEW h \in S
  PROVE  <<a, b, c, d, e, f, g, h>> \in Seq(S)
OBVIOUS

LEMMA SequenceOfFour ==
  ASSUME NEW S, NEW a \in S, NEW b \in S, NEW c \in S, NEW d \in S
  PROVE  <<a, b, c, d>> \in Seq(S)
OBVIOUS

(* The writes to the local APIC by number. *)
LEMMA Writes ==
  /\ Len(LapicWrites) = 12
  /\ LapicWrites[1] = Write("TMR", Masked) /\ LapicWrites[2] = Write("PERF", To(NMI, FALSE))
  /\ LapicWrites[3] = Write("LINT0", Masked) /\ LapicWrites[4] = Write("LINT1", Masked)
  /\ LapicWrites[5] = Write("TASKPRIOR", 0) /\ LapicWrites[6] = Write("EOI", 0)
  /\ LapicWrites[7] = Write("TMR", To(TIMER, FALSE))
  /\ LapicWrites[8] = Write("SPURIOUS", SPURIOUS)
  /\ LapicWrites[9] = Write("TMRINITCNT", FullCount)
  /\ LapicWrites[10] = Write("TMR", Masked)
  /\ LapicWrites[11] = Write("TMRINITCNT", ticksIn10ms \div 10)
  /\ LapicWrites[12] = Write("TMR", To(TIMER, TRUE))
<1>1. PICK S : /\ Write("TMR", Masked) \in S /\ Write("LINT0", Masked) \in S
               /\ Write("PERF", To(NMI, FALSE)) \in S
               /\ Write("LINT1", Masked) \in S /\ Write("TASKPRIOR", 0) \in S
               /\ Write("EOI", 0) \in S /\ Write("TMR", To(TIMER, FALSE)) \in S
               /\ Write("SPURIOUS", SPURIOUS) \in S /\ Write("TMRINITCNT", FullCount) \in S
               /\ Write("TMRINITCNT", ticksIn10ms \div 10) \in S
               /\ Write("TMR", To(TIMER, TRUE)) \in S
  <2> DEFINE S == {Write("TMR", Masked), Write("PERF", To(NMI, FALSE)), Write("LINT0", Masked), Write("LINT1", Masked),
                   Write("TASKPRIOR", 0), Write("EOI", 0), Write("TMR", To(TIMER, FALSE)),
                   Write("SPURIOUS", SPURIOUS), Write("TMRINITCNT", FullCount),
                   Write("TMRINITCNT", ticksIn10ms \div 10), Write("TMR", To(TIMER, TRUE))}
  <2>1. /\ Write("TMR", Masked) \in S /\ Write("LINT0", Masked) \in S
        /\ Write("PERF", To(NMI, FALSE)) \in S
        /\ Write("LINT1", Masked) \in S /\ Write("TASKPRIOR", 0) \in S
        /\ Write("EOI", 0) \in S /\ Write("TMR", To(TIMER, FALSE)) \in S
        /\ Write("SPURIOUS", SPURIOUS) \in S /\ Write("TMRINITCNT", FullCount) \in S
        /\ Write("TMRINITCNT", ticksIn10ms \div 10) \in S
        /\ Write("TMR", To(TIMER, TRUE)) \in S
    OBVIOUS
  <2> HIDE DEF S
  <2>2. QED
    BY <2>1
<1>2. apic_init \in Seq(S)
  BY <1>1, SequenceOfEight, Zenon DEF apic_init
<1>3. calibrate_timer \in Seq(S)
  BY <1>1, SequenceOfFour, Zenon DEF calibrate_timer
<1>4. /\ Len(LapicWrites) = Len(apic_init) + Len(calibrate_timer)
      /\ \A n \in 1 .. Len(apic_init) + Len(calibrate_timer) :
           LapicWrites[n] = IF n <= Len(apic_init) THEN apic_init[n]
                            ELSE calibrate_timer[n - Len(apic_init)]
  BY <1>2, <1>3, ConcatProperties, Zenon DEF LapicWrites
<1>5. /\ Len(LapicWrites) = 12
      /\ \A n \in 1 .. 12 : LapicWrites[n] = IF n <= 8 THEN apic_init[n] ELSE calibrate_timer[n - 8]
  BY <1>4, EightOf, FourOf
<1>6. /\ \A n \in 1 .. 8 : LapicWrites[n] = apic_init[n]
      /\ \A n \in 1 .. 4 : LapicWrites[n + 8] = calibrate_timer[n]
  BY <1>5
<1>7. /\ LapicWrites[1] = apic_init[1] /\ LapicWrites[2] = apic_init[2]
      /\ LapicWrites[3] = apic_init[3] /\ LapicWrites[4] = apic_init[4]
      /\ LapicWrites[5] = apic_init[5] /\ LapicWrites[6] = apic_init[6]
      /\ LapicWrites[7] = apic_init[7] /\ LapicWrites[8] = apic_init[8]
  BY <1>6
<1>8. /\ LapicWrites[9] = calibrate_timer[1] /\ LapicWrites[10] = calibrate_timer[2]
      /\ LapicWrites[11] = calibrate_timer[3] /\ LapicWrites[12] = calibrate_timer[4]
  <2>1. 1 + 8 = 9 /\ 2 + 8 = 10 /\ 3 + 8 = 11 /\ 4 + 8 = 12
    OBVIOUS
  <2>2. QED
    BY <1>6, <2>1
<1>9. QED
  BY <1>5, <1>7, <1>8, EightOf, FourOf, Zenon

-----------------------------------------------------------------------------
(* The inductive invariant: what each step of kernel_main, and each write  *)
(* to the local APIC, has left behind.                                     *)
Entries == {"TMR", "PERF", "LINT0", "LINT1", "ERR"}
Lvt     == [masked : BOOLEAN, vector : Vectors \cup {0}, periodic : BOOLEAN]

Gates ==
  [v \in Vectors |->
     CASE v = SYSCALL  -> "syscall_entry"
       [] v = TIMER    -> "timer_isr"
       [] v = KEYBOARD -> "keyboard_isr"
       [] v = SPURIOUS -> "spurious_isr"
       [] OTHER        -> "dummy_isr"]

Typed ==
  /\ done \in 0 .. 11 /\ writes \in 0 .. 12
  /\ lapic \in [enabled : BOOLEAN, priority : {0, 255}, in_service : {{}, {TIMER}}]
  /\ lvt \in [Entries -> Lvt] /\ pins \in [Pins -> Lvt]
  /\ others_closed \in BOOLEAN

Prepared ==
  /\ done >= 2 => gdt_loaded = TRUE
  /\ done >= 3 => idt = Gates
  /\ done >= 4 => screen_ready = TRUE
  /\ done >= 8 => pic_open = {}
  /\ done >= 10 => pins[KEYBOARD_PIN] = To(KEYBOARD, FALSE)
  /\ done = 11 => interrupts_on = TRUE
  /\ done # 11 => interrupts_on = FALSE
  /\ blind = FALSE

Written ==
  /\ done < 8 => writes = 0
  /\ done = 8 => writes < 12
  /\ done > 8 => writes = 12

Programmed ==
  /\ writes >= 2 => lvt["PERF"].vector = NMI
  /\ writes >= 3 => lvt["LINT0"].masked = TRUE
  /\ writes >= 4 => lvt["LINT1"].masked = TRUE
  /\ writes >= 5 => lapic.priority = 0
  /\ writes >= 6 => lapic.in_service = {}
  /\ writes >= 8 => lapic.enabled = TRUE
  /\ writes >= 11 => count = ticksIn10ms \div 10
  /\ writes >= 12 => lvt["TMR"] = To(TIMER, TRUE)

(* What the code never writes stays masked, if it was. *)
Untouched ==
  others_closed = TRUE =>
    /\ lvt["ERR"].masked = TRUE
    /\ \A p \in Pins \ {KEYBOARD_PIN} : pins[p].masked = TRUE

Booting == Typed /\ Prepared /\ Written /\ Programmed /\ Untouched

LEMMA InitBooting == Init => Booting
<1> SUFFICES ASSUME Init PROVE Booting
  OBVIOUS
<1>1. Firmware \subseteq Lvt
  BY DEF Firmware, Masked, To, PIC, Lvt, Vectors
<1>2. Typed
  <2>1. lvt \in [Entries -> Lvt]
    <3>1. lvt \in [Entries -> Firmware]
      BY Zenon DEF Init, Entries
    <3>2. QED
      BY <1>1, <3>1
  <2>2. lapic \in [enabled : BOOLEAN, priority : {0, 255}, in_service : {{}, {TIMER}}]
    BY Zenon DEF Init
  <2>3. done = 0 /\ writes = 0
    BY Zenon DEF Init
  <2>4. pins \in [Pins -> Lvt]
    <3>1. pins \in [Pins -> Firmware]
      BY Zenon DEF Init
    <3>2. QED
      BY <1>1, <3>1
  <2>5. others_closed = (LeftOpen = {})
    BY Zenon DEF Init
  <2>6. QED
    BY <2>1, <2>2, <2>3, <2>4, <2>5 DEF Typed
<1>3. Prepared /\ Written /\ Programmed
  BY DEF Init, Prepared, Written, Programmed
<1>4. Untouched
  <2> SUFFICES ASSUME others_closed = TRUE
               PROVE  /\ lvt["ERR"].masked = TRUE
                      /\ \A p \in Pins \ {KEYBOARD_PIN} : pins[p].masked = TRUE
    BY DEF Untouched
  <2>1. LeftOpen = {}
    BY Zenon DEF Init
  <2>2. Delivers(lvt["ERR"]) = {} /\ \A p \in Pins \ {KEYBOARD_PIN} : Delivers(pins[p]) = {}
    BY <2>1 DEF LeftOpen
  <2>3. \A e \in Lvt : Delivers(e) = {} => e.masked = TRUE
    BY DEF Lvt, Delivers
  <2>4. QED
    BY <1>2, <2>2, <2>3 DEF Typed, Entries
<1>5. QED
  BY <1>2, <1>3, <1>4 DEF Booting

(* What a write to an entry, to the count, and to each other register does. *)
LEMMA EntryWritten ==
  ASSUME NEW r \in Entries, NEW m \in BOOLEAN, NEW v \in Vectors \cup {0}, NEW p \in BOOLEAN,
         Typed, lapic_write(Write(r, [masked |-> m, vector |-> v, periodic |-> p]))
  PROVE  /\ lvt' = [lvt EXCEPT ![r] =
                      [masked |-> m \/ ~ lapic.enabled, vector |-> v, periodic |-> p]]
         /\ count' = count /\ lapic' = lapic
<1> DEFINE x == [masked |-> m, vector |-> v, periodic |-> p]
           w == Write(r, x)
<1>1. w.reg = r /\ w.value = x
  BY DEF Write
<1>2. r \in DOMAIN lvt /\ r # "TMRINITCNT" /\ r # "SPURIOUS" /\ r # "TASKPRIOR" /\ r # "EOI"
  BY DEF Typed, Entries
<1>3. [x EXCEPT !.masked = x.masked \/ ~ lapic.enabled]
        = [masked |-> m \/ ~ lapic.enabled, vector |-> v, periodic |-> p]
  <2>1. \A b : [x EXCEPT !.masked = b] = [masked |-> b, vector |-> v, periodic |-> p]
    OBVIOUS
  <2>2. x.masked = m
    BY Zenon
  <2>3. QED
    BY <2>1, <2>2, Zenon
<1>4. lvt' = [lvt EXCEPT ![w.reg] = [w.value EXCEPT !.masked = w.value.masked \/ ~ lapic.enabled]]
  BY <1>1, <1>2, Zenon DEF lapic_write
<1>5. count' = count /\ lapic' = lapic
  BY <1>1, <1>2 DEF lapic_write
<1>6. QED
  BY <1>1, <1>3, <1>4, <1>5, Zenon

LEMMA OtherWritten ==
  ASSUME NEW r, NEW x, r \in {"TMRINITCNT", "SPURIOUS", "TASKPRIOR", "EOI"},
         Typed, lapic_write(Write(r, x))
  PROVE  /\ lvt' = lvt
         /\ count' = IF r = "TMRINITCNT" THEN x ELSE count
         /\ lapic' = CASE r = "TMRINITCNT" -> lapic
                       [] r = "SPURIOUS"   -> [lapic EXCEPT !.enabled = TRUE]
                       [] r = "TASKPRIOR"  -> [lapic EXCEPT !.priority = x]
                       [] r = "EOI"        -> [lapic EXCEPT !.in_service =
                                                 {v \in lapic.in_service :
                                                   \E u \in lapic.in_service : u > v}]
<1> DEFINE w == Write(r, x)
<1>1. w.reg = r /\ w.value = x
  BY DEF Write
<1>2. r \notin DOMAIN lvt
  BY DEF Typed, Entries
<1>3. lvt' = lvt
  BY <1>1, <1>2 DEF lapic_write
<1>4. count' = IF w.reg = "TMRINITCNT" THEN w.value ELSE count
  BY DEF lapic_write
<1>5. lapic' = CASE w.reg = "SPURIOUS"  -> [lapic EXCEPT !.enabled = TRUE]
                 [] w.reg = "TASKPRIOR" -> [lapic EXCEPT !.priority = w.value]
                 [] w.reg = "EOI"       -> [lapic EXCEPT !.in_service =
                                              {v \in lapic.in_service :
                                                \E u \in lapic.in_service : u > v}]
                 [] OTHER               -> lapic
  BY DEF lapic_write
<1>6. QED
  <2> HIDE DEF w
  <2> QED BY <1>1, <1>3, <1>4, <1>5

(* The registers after the nth write. *)
LEMMA WriteProgrammed ==
  ASSUME Typed, Programmed, writes \in 0 .. 11, lapic_write(LapicWrites[writes + 1]),
         writes' = writes + 1, ticksIn10ms' = ticksIn10ms
  PROVE  /\ Programmed'
         /\ lapic' \in [enabled : BOOLEAN, priority : {0, 255}, in_service : {{}, {TIMER}}]
         /\ lvt' \in [Entries -> Lvt] /\ lvt'["ERR"] = lvt["ERR"]
<1> DEFINE L == [enabled : BOOLEAN, priority : {0, 255}, in_service : {{}, {TIMER}}]
<1>1. lapic \in L /\ lvt \in [Entries -> Lvt]
  BY DEF Typed
<1>2. ASSUME NEW r \in Entries, NEW m \in BOOLEAN, NEW v \in Vectors \cup {0}, NEW p \in BOOLEAN,
             LapicWrites[writes + 1] = Write(r, [masked |-> m, vector |-> v, periodic |-> p])
      PROVE  /\ lvt' \in [Entries -> Lvt] /\ lapic' = lapic /\ count' = count
             /\ \A q \in Entries \ {r} : lvt'[q] = lvt[q]
             /\ m = TRUE => lvt'[r].masked = TRUE
             /\ lapic.enabled = TRUE =>
                  lvt'[r] = [masked |-> m, vector |-> v, periodic |-> p]
  <2> DEFINE x == [masked |-> m \/ ~ lapic.enabled, vector |-> v, periodic |-> p]
  <2>1. lvt' = [lvt EXCEPT ![r] = x] /\ lapic' = lapic /\ count' = count
    BY <1>2, EntryWritten
  <2>2. x \in Lvt
    BY DEF Lvt
  <2>3. m = TRUE => x.masked = TRUE
    BY Zenon
  <2>4. lapic.enabled = TRUE => x = [masked |-> m, vector |-> v, periodic |-> p]
    <3>1. ASSUME lapic.enabled = TRUE PROVE (m \/ ~ lapic.enabled) = m
      BY <3>1
    <3>2. QED
      BY <3>1, Zenon
  <2>5. QED
    <3> HIDE DEF x
    <3> QED BY <1>1, <2>1, <2>2, <2>3, <2>4
<1>3. ASSUME NEW r \in Entries, LapicWrites[writes + 1] = Write(r, Masked)
      PROVE  /\ lvt' \in [Entries -> Lvt] /\ lapic' = lapic /\ count' = count
             /\ \A q \in Entries \ {r} : lvt'[q] = lvt[q]
             /\ lvt'[r].masked = TRUE
  <2>1. LapicWrites[writes + 1] = Write(r, [masked |-> TRUE, vector |-> 0, periodic |-> FALSE])
    BY <1>3 DEF Masked
  <2>2. 0 \in Vectors \cup {0}
    OBVIOUS
  <2>3. QED
    BY <1>2, <2>1, <2>2
<1>4. ASSUME NEW p \in BOOLEAN, LapicWrites[writes + 1] = Write("TMR", To(TIMER, p))
      PROVE  /\ lvt' \in [Entries -> Lvt] /\ lapic' = lapic /\ count' = count
             /\ lvt'["PERF"] = lvt["PERF"] /\ lvt'["LINT0"] = lvt["LINT0"]
             /\ lvt'["LINT1"] = lvt["LINT1"] /\ lvt'["ERR"] = lvt["ERR"]
             /\ lapic.enabled = TRUE => lvt'["TMR"] = To(TIMER, p)
  <2>1. LapicWrites[writes + 1] = Write("TMR", [masked |-> FALSE, vector |-> TIMER, periodic |-> p])
    BY <1>4 DEF To
  <2>2. /\ TIMER \in Vectors \cup {0} /\ "TMR" \in Entries
        /\ "PERF" \in Entries \ {"TMR"} /\ "LINT0" \in Entries \ {"TMR"}
        /\ "LINT1" \in Entries \ {"TMR"} /\ "ERR" \in Entries \ {"TMR"}
    BY DEF Vectors, Entries
  <2>3. QED
    BY <1>2, <2>1, <2>2 DEF To
<1>5. \A r \in {"TMR", "PERF", "LINT0", "LINT1"} :
        /\ r \in Entries
        /\ \A q \in {"TMR", "PERF", "LINT0", "LINT1", "ERR"} : q # r => q \in Entries \ {r}
  BY DEF Entries
<1>6. CASE writes = 0
  <2>1. LapicWrites[writes + 1] = Write("TMR", Masked) /\ writes' = 1
    BY <1>6, Writes
  <2>2. /\ lvt' \in [Entries -> Lvt] /\ lapic' = lapic /\ count' = count
         /\ lvt'["TMR"].masked = TRUE
         /\ lvt'["PERF"] = lvt["PERF"] /\ lvt'["LINT0"] = lvt["LINT0"]
         /\ lvt'["LINT1"] = lvt["LINT1"] /\ lvt'["ERR"] = lvt["ERR"]
    BY <1>3, <1>5, <2>1
  <2>3. QED
    BY <1>1, <1>6, <2>1, <2>2 DEF Programmed
<1>7. CASE writes = 1
  <2>1. LapicWrites[writes + 1] = Write("PERF", [masked |-> FALSE, vector |-> NMI, periodic |-> FALSE])
        /\ writes' = 2
    <3>1. writes + 1 = 2 /\ writes' = 2
      BY <1>7
    <3>2. QED
      BY <3>1, Writes, Zenon DEF To
  <2>2. NMI \in Vectors \cup {0}
    BY DEF Vectors
  <2>3. /\ lvt' \in [Entries -> Lvt] /\ lapic' = lapic /\ count' = count
        /\ lvt'["TMR"] = lvt["TMR"] /\ lvt'["LINT0"] = lvt["LINT0"]
        /\ lvt'["LINT1"] = lvt["LINT1"] /\ lvt'["ERR"] = lvt["ERR"]
    BY <1>2, <1>5, <2>1, <2>2
  <2>4. lvt'["PERF"].vector = NMI
    <3> DEFINE x == [masked |-> FALSE \/ ~ lapic.enabled, vector |-> NMI, periodic |-> FALSE]
    <3>1. lvt' = [lvt EXCEPT !["PERF"] = x]
      <4>1. /\ "PERF" \in Entries /\ FALSE \in BOOLEAN
            /\ lapic_write(Write("PERF", [masked |-> FALSE, vector |-> NMI, periodic |-> FALSE]))
        BY <1>5, <2>1, Zenon
      <4>2. QED
        BY <2>2, <4>1, EntryWritten, Zenon
    <3>2. x.vector = NMI
      BY Zenon
    <3>3. QED
      <4> HIDE DEF x
      <4> QED BY <1>1, <1>5, <3>1, <3>2
  <2>5. QED
    BY <1>1, <1>7, <2>1, <2>3, <2>4 DEF Programmed
<1>8. CASE writes = 2
  <2>1. LapicWrites[writes + 1] = Write("LINT0", Masked) /\ writes' = 3
    BY <1>8, Writes
  <2>2. /\ lvt' \in [Entries -> Lvt] /\ lapic' = lapic /\ count' = count
         /\ lvt'["LINT0"].masked = TRUE
         /\ lvt'["TMR"] = lvt["TMR"] /\ lvt'["PERF"] = lvt["PERF"]
         /\ lvt'["LINT1"] = lvt["LINT1"] /\ lvt'["ERR"] = lvt["ERR"]
    BY <1>3, <1>5, <2>1
  <2>3. QED
    BY <1>1, <1>8, <2>1, <2>2 DEF Programmed
<1>9. CASE writes = 3
  <2>1. LapicWrites[writes + 1] = Write("LINT1", Masked) /\ writes' = 4
    BY <1>9, Writes
  <2>2. /\ lvt' \in [Entries -> Lvt] /\ lapic' = lapic /\ count' = count
         /\ lvt'["LINT1"].masked = TRUE
         /\ lvt'["TMR"] = lvt["TMR"] /\ lvt'["PERF"] = lvt["PERF"]
         /\ lvt'["LINT0"] = lvt["LINT0"] /\ lvt'["ERR"] = lvt["ERR"]
    BY <1>3, <1>5, <2>1
  <2>3. QED
    BY <1>1, <1>9, <2>1, <2>2 DEF Programmed
<1>10. CASE writes = 4
  <2>1. LapicWrites[writes + 1] = Write("TASKPRIOR", 0) /\ writes' = 5
    BY <1>10, Writes
  <2>2. lvt' = lvt /\ count' = count /\ lapic' = [lapic EXCEPT !.priority = 0]
    BY <2>1, OtherWritten
  <2>3. QED
    BY <1>1, <1>10, <2>1, <2>2 DEF Programmed
<1>11. CASE writes = 5
  <2>1. LapicWrites[writes + 1] = Write("EOI", 0) /\ writes' = 6
    BY <1>11, Writes
  <2> DEFINE rest == {v \in lapic.in_service : \E u \in lapic.in_service : u > v}
  <2>2. lvt' = lvt /\ count' = count /\ lapic' = [lapic EXCEPT !.in_service = rest]
    BY <2>1, OtherWritten
  <2>3. rest = {}
    <3>1. lapic.in_service = {} \/ lapic.in_service = {TIMER}
      BY <1>1
    <3>2. QED
      BY <3>1 DEF TIMER
  <2>4. QED
    <3> HIDE DEF rest
    <3> QED BY <1>1, <1>11, <2>1, <2>2, <2>3 DEF Programmed
<1>12. CASE writes = 6
  <2>1. LapicWrites[writes + 1] = Write("TMR", To(TIMER, FALSE)) /\ writes' = 7
    <3>1. writes + 1 = 7 /\ writes' = 7
      BY <1>12
    <3>2. QED
      BY <3>1, Writes, Zenon
  <2>2. /\ lvt' \in [Entries -> Lvt] /\ lapic' = lapic /\ count' = count
        /\ lvt'["PERF"] = lvt["PERF"] /\ lvt'["LINT0"] = lvt["LINT0"]
        /\ lvt'["LINT1"] = lvt["LINT1"] /\ lvt'["ERR"] = lvt["ERR"]
    BY <1>4, <2>1
  <2>3. QED
    BY <1>1, <1>12, <2>1, <2>2 DEF Programmed
<1>13. CASE writes = 7
  <2>1. LapicWrites[writes + 1] = Write("SPURIOUS", SPURIOUS) /\ writes' = 8
    BY <1>13, Writes
  <2>2. lvt' = lvt /\ count' = count /\ lapic' = [lapic EXCEPT !.enabled = TRUE]
    BY <2>1, OtherWritten
  <2>3. /\ lapic' \in L /\ lapic'.enabled = TRUE
        /\ lapic'.priority = lapic.priority /\ lapic'.in_service = lapic.in_service
    BY <1>1, <2>2
  <2>4. QED
    BY <1>1, <1>13, <2>1, <2>2, <2>3 DEF Programmed
<1>14. CASE writes = 8
  <2>1. LapicWrites[writes + 1] = Write("TMRINITCNT", FullCount) /\ writes' = 9
    BY <1>14, Writes
  <2>2. lvt' = lvt /\ lapic' = lapic
    BY <2>1, OtherWritten
  <2>3. QED
    BY <1>1, <1>14, <2>1, <2>2 DEF Programmed
<1>15. CASE writes = 9
  <2>1. LapicWrites[writes + 1] = Write("TMR", Masked) /\ writes' = 10
    BY <1>15, Writes
  <2>2. /\ lvt' \in [Entries -> Lvt] /\ lapic' = lapic /\ count' = count
         /\ lvt'["TMR"].masked = TRUE
         /\ lvt'["PERF"] = lvt["PERF"] /\ lvt'["LINT0"] = lvt["LINT0"]
         /\ lvt'["LINT1"] = lvt["LINT1"] /\ lvt'["ERR"] = lvt["ERR"]
    BY <1>3, <1>5, <2>1
  <2>3. QED
    BY <1>1, <1>15, <2>1, <2>2 DEF Programmed
<1>16. CASE writes = 10
  <2>1. LapicWrites[writes + 1] = Write("TMRINITCNT", ticksIn10ms \div 10) /\ writes' = 11
    BY <1>16, Writes
  <2>2. lvt' = lvt /\ lapic' = lapic /\ count' = ticksIn10ms \div 10
    BY <2>1, OtherWritten
  <2>3. QED
    BY <1>1, <1>16, <2>1, <2>2 DEF Programmed
<1>17. CASE writes = 11
  <2>1. LapicWrites[writes + 1] = Write("TMR", To(TIMER, TRUE)) /\ writes' = 12
    <3>1. writes + 1 = 12 /\ writes' = 12
      BY <1>17
    <3>2. QED
      BY <3>1, Writes, Zenon
  <2>2. /\ lvt' \in [Entries -> Lvt] /\ lapic' = lapic /\ count' = count
        /\ lvt'["PERF"] = lvt["PERF"] /\ lvt'["LINT0"] = lvt["LINT0"]
        /\ lvt'["LINT1"] = lvt["LINT1"] /\ lvt'["ERR"] = lvt["ERR"]
        /\ lvt'["TMR"] = To(TIMER, TRUE)
    <3>1. lapic.enabled = TRUE
      BY <1>17 DEF Programmed
    <3>2. QED
      BY <1>4, <2>1, <3>1, Zenon
  <2>3. QED
    BY <1>1, <1>17, <2>1, <2>2 DEF Programmed
<1>18. QED
  BY <1>6, <1>7, <1>8, <1>9, <1>10, <1>11, <1>12, <1>13, <1>14, <1>15, <1>16, <1>17

-----------------------------------------------------------------------------
(* Every step of kernel_main keeps the invariant. *)
LEMMA Printing ==
  ASSUME Prepared, done >= 4, Prints
  PROVE  blind' = FALSE /\ screen_ready' = TRUE
<1>1. blind = FALSE /\ screen_ready = TRUE
  BY DEF Prepared
<1>2. QED
  BY <1>1, Zenon DEF Prints

LEMMA PrintingPrepared ==
  ASSUME Prepared, Prints, done \in {4, 5, 6, 9}, done' = done \/ done' = done + 1,
         UNCHANGED <<gdt_loaded, idt, pic_open>>, interrupts_on' = FALSE,
         done' >= 10 => pins'[KEYBOARD_PIN] = To(KEYBOARD, FALSE)
  PROVE  Prepared'
<1>1. blind' = FALSE /\ screen_ready' = TRUE
  <2>1. done >= 4
    OBVIOUS
  <2>2. QED
    BY <2>1, Printing, Zenon
<1>2. gdt_loaded' = TRUE /\ idt' = Gates
  <2>1. gdt_loaded = TRUE /\ idt = Gates
    BY DEF Prepared
  <2>2. QED
    BY <2>1, Zenon
<1>3. done' >= 8 => pic_open' = {}
  BY DEF Prepared
<1>4. done' # 11
  OBVIOUS
<1>5. QED
  BY <1>1, <1>2, <1>3, <1>4, Zenon DEF Prepared

LEMMA StepBooting ==
  ASSUME Booting, NEW label, At(label), Step,
         label \in {"cli", "init_gdt", "init_idt", "terminal_initialize", "banner",
                   "detect_memory", "acpi", "mask_pic", "ioapic_enable", "sti"},
         UNCHANGED <<apic, writes, given>>,
         pins' = pins \/ pins' = [pins EXCEPT ![KEYBOARD_PIN] = To(KEYBOARD, FALSE)],
         Prepared'
  PROVE  Booting'
<1>1. done' = done + 1 /\ Numbered
  BY DEF Step, Booting, Typed, Numbered
<1>2. UNCHANGED <<lapic, lvt, count, writes, ticksIn10ms, others_closed>>
  BY DEF apic, given
<1>3. done \in 0 .. 10 /\ done # 8
  BY <1>1, WhichStep
<1>4. Typed'
  <2>1. pins' \in [Pins -> Lvt]
    <3>1. To(KEYBOARD, FALSE) \in Lvt
      BY DEF To, Lvt, Vectors
    <3>2. pins \in [Pins -> Lvt]
      BY DEF Booting, Typed
    <3>3. QED
      <4> DEFINE e == To(KEYBOARD, FALSE)
      <4> HIDE DEF e
      <4> QED BY <3>1, <3>2
  <2>2. QED
    BY <1>1, <1>2, <1>3, <2>1 DEF Booting, Typed
<1>5. Programmed'
  BY <1>2 DEF Booting, Programmed
<1>6. Written'
  BY <1>1, <1>2, <1>3 DEF Booting, Written, Typed
<1>7. Untouched'
  <2>1. \A p \in Pins \ {KEYBOARD_PIN} : pins'[p] = pins[p]
    <3> DEFINE e == To(KEYBOARD, FALSE)
    <3>1. pins \in [Pins -> Lvt] /\ (pins' = pins \/ pins' = [pins EXCEPT ![KEYBOARD_PIN] = e])
      BY DEF Booting, Typed
    <3> HIDE DEF e
    <3>2. QED
      BY <3>1
  <2>2. QED
    BY <1>2, <2>1 DEF Booting, Untouched
<1>8. QED
  BY <1>4, <1>5, <1>6, <1>7 DEF Booting

LEMMA PanicBooting ==
  ASSUME Booting, panic, done \in {5, 6}
  PROVE  Booting'
<1>1. /\ interrupts_on' = FALSE /\ Prints
      /\ UNCHANGED <<done, gdt_loaded, idt, pic_open, lapic, lvt, count, pins, writes, ticksIn10ms,
                   others_closed>>
  BY DEF panic, apic, given
<1>2. Prepared'
  <2>1. /\ done \in {4, 5, 6, 9} /\ (done' = done \/ done' = done + 1)
        /\ done' >= 10 => pins'[KEYBOARD_PIN] = To(KEYBOARD, FALSE)
    <3>1. done' = done
      BY <1>1, Zenon
    <3>2. done \in {4, 5, 6, 9} /\ ~ (done' >= 10)
      BY <3>1
    <3>3. QED
      BY <3>1, <3>2, Zenon
  <2>2. UNCHANGED <<gdt_loaded, idt, pic_open>>
    BY <1>1
  <2>3. QED
    BY <1>1, <2>1, <2>2, PrintingPrepared, Zenon DEF Booting
<1>3. Typed' /\ Written' /\ Programmed' /\ Untouched'
  <2>1. UNCHANGED <<done, lapic, lvt, count, pins, writes, ticksIn10ms, others_closed>>
    BY <1>1
  <2>2. Typed' /\ Written'
    BY <2>1 DEF Booting, Typed, Written
  <2>3. Programmed' /\ Untouched'
    BY <2>1, Zenon DEF Booting, Programmed, Untouched
  <2>4. QED
    BY <2>2, <2>3
<1>4. QED
  BY <1>2, <1>3 DEF Booting

LEMMA NextBooting ==
  ASSUME Booting, [Next]_vars
  PROVE  Booting'
<1> USE DEF cpu, out
<1>1. Numbered /\ Typed /\ Prepared
  BY DEF Booting, Typed, Numbered
<1>2. CASE Cli
  <2>1. At("cli") /\ done = 0 /\ Step /\ done' = 1
    BY <1>1, <1>2, WhichStep DEF Cli, Step
  <2>2. Prepared'
    BY <1>1, <1>2, <2>1 DEF Cli, Prepared
  <2>3. UNCHANGED <<apic, pins, writes, given>>
    BY <1>2 DEF Cli
  <2>4. QED
    BY <2>1, <2>2, <2>3, StepBooting
<1>3. CASE init_gdt
  <2>1. At("init_gdt") /\ done = 1 /\ Step /\ done' = 2
    BY <1>1, <1>3, WhichStep DEF init_gdt, Step
  <2>2. Prepared'
    BY <1>1, <1>3, <2>1 DEF init_gdt, Prepared
  <2>3. UNCHANGED <<apic, pins, writes, given>>
    BY <1>3 DEF init_gdt
  <2>4. QED
    BY <2>1, <2>2, <2>3, StepBooting
<1>4. CASE init_idt
  <2>1. At("init_idt") /\ done = 2 /\ Step /\ done' = 3
    BY <1>1, <1>4, WhichStep DEF init_idt, Step
  <2>2. idt' = Gates
    BY <1>4 DEF init_idt, Gates
  <2>3. Prepared'
    BY <1>1, <1>4, <2>1, <2>2 DEF init_idt, Prepared
  <2>4. UNCHANGED <<apic, pins, writes, given>>
    BY <1>4 DEF init_idt
  <2>5. QED
    BY <2>1, <2>3, <2>4, StepBooting
<1>5. CASE terminal_initialize
  <2>1. At("terminal_initialize") /\ done = 3 /\ Step /\ done' = 4
    BY <1>1, <1>5, WhichStep DEF terminal_initialize, Step
  <2>2. Prepared'
    BY <1>1, <1>5, <2>1 DEF terminal_initialize, Prepared
  <2>3. UNCHANGED <<apic, pins, writes, given>>
    BY <1>5 DEF terminal_initialize
  <2>4. QED
    BY <2>1, <2>2, <2>3, StepBooting
<1>6. CASE Banner
  <2>1. At("banner") /\ done = 4 /\ Step /\ done' = 5
    BY <1>1, <1>6, WhichStep DEF Banner, Step
  <2>2. Prepared'
    <3>1. Prints /\ UNCHANGED cpu /\ UNCHANGED pic_open
      BY <1>6 DEF Banner
    <3>2. interrupts_on = FALSE
      BY <1>1, <2>1 DEF Prepared
    <3>3. interrupts_on' = FALSE /\ UNCHANGED <<gdt_loaded, idt, pic_open>>
      BY <3>1, <3>2, Zenon
    <3>4. /\ done \in {4, 5, 6, 9} /\ (done' = done \/ done' = done + 1)
          /\ done' >= 10 => pins'[KEYBOARD_PIN] = To(KEYBOARD, FALSE)
      BY <2>1, <3>1
    <3>5. QED
      BY <1>1, <3>1, <3>3, <3>4, PrintingPrepared, Zenon
  <2>3. UNCHANGED <<apic, pins, writes, given>>
    BY <1>6 DEF Banner
  <2>4. QED
    BY <2>1, <2>2, <2>3, StepBooting
<1>7. ASSUME NEW label \in {"detect_memory", "acpi"}, NEW given_, NeedsGiven(label, given_)
      PROVE  Booting'
  <2>1. At(label) /\ (done = 5 \/ done = 6)
    BY <1>1, <1>7, WhichStep DEF NeedsGiven
  <2>2. CASE panic
    BY <2>1, <2>2, PanicBooting
  <2>3. CASE Step /\ Prints /\ UNCHANGED <<cpu, pic_open, apic, pins, writes, given>>
    <3>1. interrupts_on = FALSE /\ done' = done + 1
      BY <1>1, <2>1, <2>3 DEF Prepared, Step
    <3>2. interrupts_on' = FALSE /\ UNCHANGED <<gdt_loaded, idt, pic_open>>
      BY <2>3, <3>1, Zenon
    <3>3. Prepared'
      <4>1. /\ done \in {4, 5, 6, 9} /\ (done' = done \/ done' = done + 1)
            /\ done' >= 10 => pins'[KEYBOARD_PIN] = To(KEYBOARD, FALSE)
        <5>1. done' = done + 1
          BY <3>1, Zenon
        <5>2. done \in {4, 5, 6, 9} /\ ~ (done' >= 10)
          BY <2>1, <5>1
        <5>3. QED
          BY <5>1, <5>2, Zenon
      <4>2. QED
        BY <1>1, <2>3, <3>2, <4>1, PrintingPrepared, Zenon
    <3>4. UNCHANGED <<apic, pins, writes, given>>
      BY <2>3
    <3>5. QED
      BY <1>7, <2>1, <2>3, <3>3, <3>4, StepBooting
  <2>4. QED
    BY <1>7, <2>2, <2>3 DEF NeedsGiven
<1>8. CASE MaskPic
  <2>1. At("mask_pic") /\ done = 7 /\ Step /\ done' = 8
    BY <1>1, <1>8, WhichStep DEF MaskPic, Step
  <2>2. Prepared'
    BY <1>1, <1>8, <2>1 DEF MaskPic, Prepared
  <2>3. UNCHANGED <<apic, pins, writes, given>>
    BY <1>8 DEF MaskPic
  <2>4. QED
    BY <2>1, <2>2, <2>3, StepBooting
<1>9. CASE WriteLapic
  <2>1. /\ done = 8 /\ lapic_write(LapicWrites[writes + 1]) /\ writes' = writes + 1
        /\ IF writes' = Len(LapicWrites) THEN Step ELSE UNCHANGED <<done, panicked>>
        /\ UNCHANGED <<cpu, out, pic_open, pins, given>>
    BY <1>1, <1>9, WhichStep DEF WriteLapic
  <2>2. writes \in 0 .. 11 /\ UNCHANGED <<ticksIn10ms, others_closed, pins>>
    BY <2>1 DEF Booting, Typed, Written, given
  <2>3. /\ Programmed'
        /\ lapic' \in [enabled : BOOLEAN, priority : {0, 255}, in_service : {{}, {TIMER}}]
        /\ lvt' \in [Entries -> Lvt] /\ lvt'["ERR"] = lvt["ERR"]
    BY <2>1, <2>2, WriteProgrammed DEF Booting
  <2>4. \/ writes' = 12 /\ done' = 9
        \/ writes' \in 1 .. 11 /\ done' = 8
    BY <2>1, <2>2, Writes DEF Step
  <2>5. Typed' /\ Written' /\ Untouched'
    BY <1>1, <2>2, <2>3, <2>4 DEF Booting, Typed, Written, Untouched
  <2>6. Prepared'
    <3>1. /\ gdt_loaded = TRUE /\ idt = Gates /\ screen_ready = TRUE /\ pic_open = {}
          /\ interrupts_on = FALSE /\ blind = FALSE
      BY <1>1, <2>1 DEF Prepared
    <3>2. /\ gdt_loaded' = TRUE /\ idt' = Gates /\ screen_ready' = TRUE /\ pic_open' = {}
          /\ interrupts_on' = FALSE /\ blind' = FALSE
      BY <2>1, <3>1, Zenon
    <3>3. ~ (done' >= 10) /\ done' # 11
      BY <2>4
    <3>4. QED
      BY <3>2, <3>3, Zenon DEF Prepared
  <2>7. QED
    BY <2>3, <2>5, <2>6 DEF Booting
<1>10. CASE ioapic_enable
  <2>1. At("ioapic_enable") /\ done = 9 /\ Step /\ done' = 10
    BY <1>1, <1>10, WhichStep DEF ioapic_enable, Step
  <2>2. Prepared'
    <3>1. /\ Prints /\ UNCHANGED cpu /\ UNCHANGED pic_open
          /\ pins'[KEYBOARD_PIN] = To(KEYBOARD, FALSE)
      <4>1. KEYBOARD_PIN \in DOMAIN pins
        BY <1>1, PinsAssumption DEF Typed
      <4>2. QED
        BY <1>10, <4>1, Zenon DEF ioapic_enable
    <3>2. interrupts_on = FALSE
      BY <1>1, <2>1 DEF Prepared
    <3>3. interrupts_on' = FALSE /\ UNCHANGED <<gdt_loaded, idt, pic_open>>
      BY <3>1, <3>2, Zenon
    <3>4. /\ done \in {4, 5, 6, 9} /\ (done' = done \/ done' = done + 1)
          /\ done' >= 10 => pins'[KEYBOARD_PIN] = To(KEYBOARD, FALSE)
      BY <2>1, <3>1
    <3>5. QED
      BY <1>1, <3>1, <3>3, <3>4, PrintingPrepared, Zenon
  <2>3. /\ UNCHANGED <<apic, writes, given>>
        /\ pins' = [pins EXCEPT ![KEYBOARD_PIN] = To(KEYBOARD, FALSE)]
    BY <1>10 DEF ioapic_enable
  <2>4. QED
    BY <2>1, <2>2, <2>3, StepBooting
<1>11. CASE Sti
  <2>1. At("sti") /\ done = 10 /\ Step /\ done' = 11
    BY <1>1, <1>11, WhichStep DEF Sti, Step
  <2>2. Prepared'
    <3>1. /\ interrupts_on' = TRUE
          /\ UNCHANGED <<gdt_loaded, idt, screen_ready, blind, pic_open, pins>>
      BY <1>11 DEF Sti
    <3>2. /\ gdt_loaded = TRUE /\ idt = Gates /\ screen_ready = TRUE /\ pic_open = {}
          /\ blind = FALSE
      BY <1>1, <2>1 DEF Prepared
    <3>3. pins[KEYBOARD_PIN] = To(KEYBOARD, FALSE)
      <4>1. done >= 10
        BY <2>1
      <4>2. QED
        BY <1>1, <4>1, Zenon DEF Prepared
    <3>4. ~ (done' # 11)
      BY <2>1
    <3>5. QED
      BY <3>1, <3>2, <3>3, <3>4, Zenon DEF Prepared
  <2>3. UNCHANGED <<apic, pins, writes, given>>
    BY <1>11 DEF Sti
  <2>4. QED
    BY <2>1, <2>2, <2>3, StepBooting
<1>12. CASE UNCHANGED vars
  <2>1. UNCHANGED <<done, interrupts_on, gdt_loaded, idt, screen_ready, blind, pic_open, lapic,
                    lvt, count, pins, writes, ticksIn10ms, others_closed>>
    BY <1>12 DEF vars, apic, given
  <2>2. Prepared'
    BY <1>1, <2>1, Zenon DEF Prepared
  <2>3. Typed' /\ Written'
    BY <2>1 DEF Booting, Typed, Written
  <2>4. Programmed' /\ Untouched'
    BY <2>1, Zenon DEF Booting, Programmed, Untouched
  <2>5. QED
    BY <2>2, <2>3, <2>4 DEF Booting
<1>13. QED
  BY <1>2, <1>3, <1>4, <1>5, <1>6, <1>7, <1>8, <1>9, <1>10, <1>11, <1>12
  DEF Next, detect_memory, FindControllers

LEMMA AlwaysBooting == Spec => []Booting
BY InitBooting, NextBooting, PTL DEF Spec

-----------------------------------------------------------------------------
(* Nothing is printed before there is a screen, by a panic either. *)
THEOREM NothingPrintedBlind == Spec => []NothingBlind
<1>1. Booting => NothingBlind
  BY DEF Booting, Prepared, NothingBlind
<1>2. QED
  BY <1>1, AlwaysBooting, PTL

(* Once interrupts are on, whatever the firmware had left on what the code *)
(* programs: each that can arrive has a handler.  If what the code never   *)
(* writes (APIC_LVT_ERR, further entries, pins but the keyboard's) was     *)
(* left masked, that is so of every interrupt there is.                    *)
THEOREM SourcesAlwaysHandled == Spec => []SourcesHaveHandlers
<1>1. ASSUME Booting, interrupts_on
      PROVE  /\ gdt_loaded
             /\ \A v \in OpenVectors : HasHandler(v)
             /\ others_closed => LeftOpen = {}
  <2>1. done = 11 /\ writes = 12 /\ gdt_loaded /\ idt = Gates /\ pic_open = {}
        /\ pins[KEYBOARD_PIN] = To(KEYBOARD, FALSE)
    <3>1. done = 11
      <4>1. done # 11 => interrupts_on = FALSE
        BY <1>1 DEF Booting, Prepared
      <4>2. QED
        BY <1>1, <4>1, Zenon
    <3>2. gdt_loaded = TRUE /\ idt = Gates /\ pic_open = {} /\ pins[KEYBOARD_PIN] = To(KEYBOARD, FALSE)
      <4>1. done >= 2 /\ done >= 3 /\ done >= 8 /\ done >= 10
        BY <3>1
      <4>2. QED
        BY <1>1, <4>1, Zenon DEF Booting, Prepared
    <3>3. writes = 12
      BY <1>1, <3>1 DEF Booting, Written
    <3>4. QED
      BY <3>1, <3>2, <3>3, Zenon
  <2>2. /\ lvt["PERF"].vector = NMI /\ lvt["LINT0"].masked = TRUE
        /\ lvt["LINT1"].masked = TRUE /\ lvt["TMR"] = To(TIMER, TRUE)
    <3>1. writes >= 2 /\ writes >= 3 /\ writes >= 4 /\ writes >= 12
      BY <2>1
    <3>2. QED
      BY <1>1, <3>1, Zenon DEF Booting, Programmed
  <2>3. DOMAIN lvt = Entries
    BY <1>1 DEF Booting, Typed
  <2>4. \A r \in DOMAIN lvt \ {"ERR"} : Delivers(lvt[r]) \subseteq {NMI, TIMER}
    <3>1. lvt["TMR"].vector = TIMER
      BY <2>2 DEF To
    <3>2. QED
      BY <2>2, <2>3, <3>1 DEF Entries, Delivers
  <2>5. OpenVectors \subseteq {NMI, SPURIOUS, TIMER, KEYBOARD}
    <3>1. Delivers(pins[KEYBOARD_PIN]) \subseteq {KEYBOARD}
      <4>1. Delivers(To(KEYBOARD, FALSE)) \subseteq {KEYBOARD}
        BY DEF To, Delivers
      <4>2. QED
        BY <2>1, <4>1, Zenon
    <3>2. ASSUME NEW v \in OpenVectors PROVE v \in {NMI, SPURIOUS, TIMER, KEYBOARD}
      <4>1. \/ v \in (IF pic_open # {} THEN {PIC} ELSE {})
            \/ v \in (IF lapic.enabled THEN {SPURIOUS} ELSE {})
            \/ \E r \in DOMAIN lvt \ {"ERR"} : v \in Delivers(lvt[r])
            \/ v \in Delivers(pins[KEYBOARD_PIN])
        BY DEF OpenVectors
      <4>2. v \notin (IF pic_open # {} THEN {PIC} ELSE {})
        BY <2>1, Zenon
      <4>3. v \in (IF lapic.enabled THEN {SPURIOUS} ELSE {}) => v = SPURIOUS
        OBVIOUS
      <4>4. QED
        BY <2>4, <3>1, <4>1, <4>2, <4>3, Zenon
    <3>3. QED
      BY <3>2
  <2>6. /\ Gates[NMI] = "dummy_isr" /\ Gates[SPURIOUS] = "spurious_isr"
        /\ Gates[TIMER] = "timer_isr" /\ Gates[KEYBOARD] = "keyboard_isr"
    BY DEF Gates, Vectors, NMI, SPURIOUS, TIMER, KEYBOARD, SYSCALL
  <2>7. \A v \in OpenVectors : HasHandler(v)
    BY <2>1, <2>5, <2>6 DEF HasHandler
  <2>8. ASSUME others_closed PROVE LeftOpen = {}
    <3>1. others_closed = TRUE
      BY <1>1, <2>8 DEF Booting, Typed
    <3>2. /\ lvt["ERR"].masked = TRUE
          /\ \A p \in Pins \ {KEYBOARD_PIN} : pins[p].masked = TRUE
      BY <1>1, <3>1 DEF Booting, Untouched
    <3>3. QED
      BY <3>2 DEF LeftOpen, Delivers
  <2>9. QED
    BY <2>1, <2>7, <2>8
<1>2. Booting => SourcesHaveHandlers
  BY <1>1 DEF SourcesHaveHandlers
<1>3. QED
  BY <1>2, AlwaysBooting, PTL

(* Whatever the firmware left on, with at most one interrupt in service,   *)
(* in the idle loop the local APIC delivers the timer and the I/O APIC the *)
(* keyboard.                                                               *)
THEOREM IdleAlwaysServes == Spec => []IdleServes
<1>1. ASSUME Booting, Idle PROVE IdleServes
  <2>1. done = 11 /\ writes = 12 /\ interrupts_on
    <3>1. done = 11
      BY <1>1, Steps DEF Idle
    <3>2. writes = 12 /\ interrupts_on = TRUE
      BY <1>1, <3>1 DEF Booting, Prepared, Written
    <3>3. QED
      BY <3>1, <3>2, Zenon
  <2>2. pins[KEYBOARD_PIN] = To(KEYBOARD, FALSE)
    <3>1. done >= 10
      BY <2>1
    <3>2. QED
      BY <1>1, <3>1, Zenon DEF Booting, Prepared
  <2>3. /\ lapic.enabled = TRUE /\ lapic.priority = 0 /\ lapic.in_service = {}
        /\ lvt["TMR"] = To(TIMER, TRUE) /\ count = ticksIn10ms \div 10
    <3>1. /\ writes >= 5 /\ writes >= 6 /\ writes >= 8 /\ writes >= 11 /\ writes >= 12
      BY <2>1
    <3>2. QED
      BY <1>1, <3>1, Zenon DEF Booting, Programmed
  <2>4. lapic = [enabled |-> TRUE, priority |-> 0, in_service |-> {}]
    <3>1. lapic \in [enabled : BOOLEAN, priority : {0, 255}, in_service : {{}, {TIMER}}]
      BY <1>1 DEF Booting, Typed
    <3>2. lapic = [enabled |-> lapic.enabled, priority |-> lapic.priority,
                   in_service |-> lapic.in_service]
      BY <3>1, Zenon
    <3>3. QED
      BY <2>3, <3>2, Zenon
  <2>5. QED
    BY <2>1, <2>2, <2>3, <2>4, Zenon DEF IdleServes
<1>2. Booting => IdleServes
  BY <1>1 DEF IdleServes
<1>3. QED
  BY <1>2, AlwaysBooting, PTL

-----------------------------------------------------------------------------
(* Division with remainder. *)
LEMMA Remainder ==
  ASSUME NEW x \in Nat, NEW d \in Nat \ {0}
  PROVE  \E q \in Nat, r \in Nat : q = x \div d /\ r = x % d /\ x = d * q + r /\ r < d
<1>1. x - d * (x \div d) = x % d
  OBVIOUS
<1>2. x \div d \in Int
  OBVIOUS
<1>3. x \div d >= 0
  OBVIOUS
<1>4. x % d \in 0 .. d - 1
  OBVIOUS
<1>5. PICK q : q = x \div d
  OBVIOUS
<1>6. PICK r : r = x % d
  OBVIOUS
<1>7. q \in Nat
  BY <1>2, <1>3, <1>5
<1>8. r \in Nat /\ r < d
  BY <1>4, <1>6
<1>9. x - d * q = r
  BY <1>1, <1>5, <1>6, Zenon
<1>10. x = d * q + r
  BY <1>7, <1>8, <1>9
<1>11. QED
  BY <1>5, <1>6, <1>7, <1>8, <1>10, Zenon

LEMMA Quotient ==
  ASSUME NEW x \in Nat, NEW d \in Nat \ {0}, NEW q \in Int, NEW r \in Int,
         x = d * q + r, 0 <= r, r < d
  PROVE  x \div d = q /\ x % d = r
OBVIOUS

(* The quotient of what is less than d * n. *)
LEMMA Below ==
  ASSUME NEW x \in Nat, NEW d \in Nat \ {0}, NEW n \in Nat, x < d * n
  PROVE  x \div d \in 0 .. n - 1
<1>1. PICK q \in Nat, r \in Nat : q = x \div d /\ r = x % d /\ x = d * q + r /\ r < d
  BY Remainder, Zenon
<1>2. SUFFICES q < n
  BY <1>1
<1>3. SUFFICES ASSUME q >= n PROVE FALSE
  OBVIOUS
<1>4. d * q >= d * n
  BY <1>3
<1>5. QED
  BY <1>1, <1>4

(* A quotient of a quotient. *)
LEMMA Twice ==
  ASSUME NEW x \in Nat, NEW a \in Nat \ {0}, NEW b \in Nat \ {0}
  PROVE  x \div (a * b) = (x \div a) \div b
<1>1. PICK q \in Nat, r \in Nat : q = x \div a /\ r = x % a /\ x = a * q + r /\ r < a
  BY Remainder, Zenon
<1>2. PICK h \in Nat, s \in Nat : h = q \div b /\ s = q % b /\ q = b * h + s /\ s < b
  BY Remainder, Zenon
<1>3. a * q = a * (b * h) + a * s /\ a * (b * h) = (a * b) * h
  BY <1>2
<1>4. a * b \in Nat \ {0} /\ a * s \in Nat /\ (a * b) * h \in Nat
  OBVIOUS
<1>5. a * s <= a * (b - 1) /\ a * (b - 1) = a * b - a
  BY <1>2
<1>6. a * s + r < a * b
  BY <1>1, <1>4, <1>5
<1>7. x = (a * b) * h + (a * s + r)
  BY <1>1, <1>3, <1>4
<1>8. x \div (a * b) = h
  BY <1>4, <1>6, <1>7, Quotient
<1>9. QED
  BY <1>1, <1>2, <1>8, Zenon

-----------------------------------------------------------------------------
(* The sizes of the tables' fields. *)
LEMMA Sizes ==
  /\ Nibble \in Nat \ {0} /\ D!Byte \in Nat \ {0} /\ D!Word \in Nat \ {0}
  /\ D!Double \in Nat \ {0} /\ D!Page \in Nat \ {0}
  /\ D!Word = D!Byte * D!Byte /\ D!Double = D!Word * D!Word
  /\ D!Word * Nibble * D!Page = D!Double
  /\ \E k \in Nat \ {0} : D!Word = Nibble * k
  /\ TssSize \in 1 .. D!Word
<1>1. Nibble \in Nat \ {0, 1} /\ TssSize \in 1 .. D!Word
  BY PartsAssumption DEF D!SizesAssumption
<1> DEFINE c == Nibble * Nibble * Nibble
<1>2. D!Byte = Nibble * Nibble /\ D!Byte \in Nat \ {0}
  BY <1>1 DEF D!Byte
<1>3. c \in Nat \ {0} /\ D!Word = Nibble * c /\ D!Word \in Nat \ {0}
  BY <1>1, <1>2 DEF D!Word
<1>4. D!Double \in Nat \ {0} /\ D!Double = (D!Word * Nibble) * c
  <2>1. D!Double = D!Word * (Nibble * c)
    BY <1>3 DEF D!Double
  <2> HIDE DEF c
  <2>2. D!Double \in Nat \ {0}
    BY <1>3 DEF D!Double
  <2>3. QED
    BY <1>1, <1>3, <2>1, <2>2
<1>5. D!Page = c
  <2> HIDE DEF c
  <2>1. D!Word * Nibble \in Nat \ {0}
    BY <1>1, <1>3
  <2>2. D!Double \div (D!Word * Nibble) = c
    BY <1>3, <1>4, <2>1, Quotient
  <2>3. QED
    BY <2>2 DEF D!Page
<1>6. QED
  <2> HIDE DEF c
  <2>1. D!Word * Nibble * D!Page = D!Double
    BY <1>1, <1>3, <1>4, <1>5
  <2>2. QED
    BY <1>1, <1>2, <1>3, <1>4, <1>5, <2>1 DEF D!Word, D!Double

(* An address, cut into two or three parts and put together again. *)
LEMMA Halves ==
  ASSUME NEW x \in D!Address
  PROVE  (x % D!Word) + D!Word * ((x \div D!Word) % D!Word) = x
<1>1. x \in Nat /\ x < D!Word * D!Word /\ D!Word \in Nat \ {0}
  BY Sizes DEF D!Address
<1>2. PICK q \in Nat, r \in Nat :
        q = x \div D!Word /\ r = x % D!Word /\ x = D!Word * q + r /\ r < D!Word
  BY <1>1, Remainder, Zenon
<1>3. q \in 0 .. D!Word - 1
  <2>1. x \div D!Word \in 0 .. D!Word - 1
    <3>1. D!Word \in Nat
      BY <1>1
    <3>2. QED
      BY <1>1, <3>1, Below, Zenon
  <2>2. QED
    BY <1>2, <2>1, Zenon
<1>4. q % D!Word = q
  BY <1>1, <1>3
<1>5. r + D!Word * q = x
  BY <1>1, <1>2
<1>6. QED
  BY <1>2, <1>4, <1>5, Zenon

LEMMA Thirds ==
  ASSUME NEW x \in D!Address
  PROVE  (x % D!Word) + D!Word * (((x \div D!Word) % D!Byte)
                                   + D!Byte * ((x \div (D!Word * D!Byte)) % D!Byte)) = x
<1>1. /\ x \in Nat /\ x < D!Word * D!Word /\ D!Word \in Nat \ {0} /\ D!Word \in Nat
      /\ D!Byte \in Nat \ {0} /\ D!Byte \in Nat
  BY Sizes DEF D!Address
<1>2. PICK q \in Nat, r \in Nat :
        q = x \div D!Word /\ r = x % D!Word /\ x = D!Word * q + r /\ r < D!Word
  BY <1>1, Remainder, Zenon
<1>3. PICK h \in Nat, s \in Nat :
        h = q \div D!Byte /\ s = q % D!Byte /\ q = D!Byte * h + s /\ s < D!Byte
  BY <1>1, Remainder, Zenon
<1>4. q < D!Byte * D!Byte
  <2>1. x \div D!Word \in 0 .. D!Word - 1
    BY <1>1, Below, Zenon
  <2>2. q \in 0 .. D!Word - 1
    BY <1>2, <2>1, Zenon
  <2>3. QED
    BY <1>1, <2>2, Sizes
<1>5. h % D!Byte = h
  <2>1. q \div D!Byte \in 0 .. D!Byte - 1
    BY <1>1, <1>4, Below, Zenon
  <2>2. h \in 0 .. D!Byte - 1
    BY <1>3, <2>1, Zenon
  <2>3. QED
    BY <1>1, <2>2
<1>6. x \div (D!Word * D!Byte) = h
  BY <1>1, <1>2, <1>3, Twice, Zenon
<1>7. r + D!Word * (s + D!Byte * h) = x
  <2>1. x = D!Word * q + r /\ q = D!Byte * h + s
    BY <1>2, <1>3, Zenon
  <2>2. D!Word * q \in Nat /\ D!Byte * h \in Nat
    BY <1>1
  <2>3. s + D!Byte * h = q /\ r + D!Word * q = x
    BY <2>1, <2>2
  <2>4. QED
    BY <2>3, Zenon
<1>8. (x \div D!Word) % D!Byte = s /\ (x \div (D!Word * D!Byte)) % D!Byte = h
        /\ x % D!Word = r
  BY <1>2, <1>3, <1>5, <1>6, Zenon
<1>9. \A a, b, c : a = r /\ b = s /\ c = h => a + D!Word * (b + D!Byte * c) = x
  BY <1>7
<1>10. QED
  BY <1>8, <1>9, Zenon

(* Whatever base a segment or a gate is given, the CPU reads it back; all  *)
(* of memory is within the limit of a flat segment, the whole TSS within   *)
(* its own.                                                                *)
LEMMA BaseKept ==
  ASSUME NEW x \in D!Address, NEW limit, NEW access
  PROVE  D!BaseOf(D!gdt_register(x, limit, access)) = x
BY Thirds DEF D!BaseOf, D!gdt_register

LEMMA GateKept ==
  ASSUME NEW x \in D!Address, NEW sel, NEW flags
  PROVE  D!EntryAt(D!idt_register(x, sel, flags)) = x
BY Halves DEF D!EntryAt, D!idt_register

LEMMA FlatLimit ==
  ASSUME NEW base, NEW access
  PROVE  D!LimitOf(D!gdt_register(base, D!Double - 1, access)) = D!Double - 1
<1> DEFINE W == D!Word
<1>1. W \in Nat \ {0} /\ Nibble \in Nat \ {0} /\ D!Double = W * W /\ D!Page \in Nat \ {0}
      /\ W * Nibble * D!Page = D!Double
  BY Sizes
<1>2. PICK k \in Nat \ {0} : W = Nibble * k
  BY Sizes
<1> HIDE DEF W
<1>3. D!Double - 1 \in Nat /\ D!Double - 1 = W * (W - 1) + (W - 1)
  BY <1>1
<1>4. (D!Double - 1) % W = W - 1 /\ (D!Double - 1) \div W = W - 1
  BY <1>1, <1>3, Quotient
<1>5. W - 1 = Nibble * (k - 1) + (Nibble - 1)
  BY <1>1, <1>2
<1>6. (W - 1) % Nibble = Nibble - 1
  BY <1>1, <1>5, Quotient
<1>7. (W - 1) + W * (Nibble - 1) + 1 = W * Nibble
  BY <1>1
<1>8. QED
  BY <1>1, <1>4, <1>6, <1>7 DEF W, D!LimitOf, D!gdt_register

LEMMA TaskLimit ==
  ASSUME NEW base, NEW access
  PROVE  D!LimitOf(D!gdt_register(base, TssSize - 1, access)) >= TssSize - 1
<1> DEFINE n == TssSize - 1
<1>1. n \in 0 .. D!Word - 1 /\ D!Word \in Nat \ {0} /\ Nibble \in Nat \ {0} /\ D!Page \in Nat \ {0}
  BY Sizes
<1> HIDE DEF n
<1>2. n % D!Word = n /\ n \div D!Word = 0
  BY <1>1, Quotient
<1>3. 0 % Nibble = 0
  BY <1>1
<1>4. (n + 1) * D!Page >= n + 1
  BY <1>1
<1>5. D!LimitOf(D!gdt_register(base, n, access)) = (n + D!Word * 0 + 1) * D!Page - 1
  BY <1>2, <1>3 DEF D!LimitOf, D!gdt_register
<1>6. (n + D!Word * 0 + 1) * D!Page - 1 >= n
  BY <1>1, <1>4
<1>7. QED
  BY <1>5, <1>6 DEF n

-----------------------------------------------------------------------------
(* The inductive invariant: which table, registers and return address each *)
(* step of load_gdt and init_idt leaves.  Nothing in it asks what selectors *)
(* the loader had in the segment registers.                                *)
FlatCode == D!gdt_register(0, D!Double - 1, {"SEGMENT", "EXEC", "RW"})
FlatData == D!gdt_register(0, D!Double - 1, {"SEGMENT", "RW"})
Task     == D!gdt_register(at["TSS"], TssSize - 1, {"EXEC", "ACCESSED"})

Loaded ==
  /\ step \in 0 .. 5 /\ fault = FALSE
  /\ at \in [D!Handlers \cup {"TSS"} -> D!Address]
  /\ step >= 1 => gdt = D!GDT
  /\ step >= 2 => seg["DATA"].entry = FlatData
  /\ step >= 3 => seg["TR"].entry = Task
  /\ step >= 4 => seg["CS"] = [sel |-> D!Sel(1, 0), entry |-> FlatCode]
  /\ DOMAIN seg = {"CS", "DATA", "TR"}
  /\ step < 5 => gates = <<>> /\ ip = D!Kernel
  /\ step = 5 => gates = D!IDT
  /\ ip # D!Kernel => frames = <<D!Sel(1, 0)>>

LEMMA LoadSteps ==
  /\ Len(D!load_gdt) = 5
  /\ D!load_gdt[1] = "lgdt" /\ D!load_gdt[2] = "data" /\ D!load_gdt[3] = "ltr"
  /\ D!load_gdt[4] = "ljmp" /\ D!load_gdt[5] = "idt"
BY DEF D!load_gdt

LEMMA WhichLoad ==
  ASSUME Loaded, NEW s, D!At(s)
  PROVE  /\ s = "lgdt" => step = 0 /\ step' = 1
         /\ s = "data" => step = 1 /\ step' = 2
         /\ s = "ltr"  => step = 2 /\ step' = 3
         /\ s = "ljmp" => step = 3 /\ step' = 4
         /\ s = "idt"  => step = 4 /\ step' = 5
<1>1. step \in 0 .. 4 /\ D!load_gdt[step + 1] = s /\ step' = step + 1
  BY LoadSteps DEF D!At, Loaded
<1>2. step + 1 \in {1, 2, 3, 4, 5}
  BY <1>1
<1>3. QED
  BY <1>1, <1>2, LoadSteps

(* The CPU takes the entries load_gdt and the gates name. *)
LEMMA TableEntries ==
  /\ DOMAIN D!GDT = 0 .. 5
  /\ D!GDT[1] = FlatCode /\ D!GDT[2] = FlatData /\ D!GDT[5] = Task
BY DEF D!GDT, FlatCode, FlatData, Task

LEMMA EntryAccess ==
  /\ FlatCode.access = {"SEGMENT", "EXEC", "RW", "PRESENT"}
  /\ FlatData.access = {"SEGMENT", "RW", "PRESENT"}
  /\ Task.access = {"EXEC", "ACCESSED", "PRESENT"}
BY DEF FlatCode, FlatData, Task, D!gdt_register

LEMMA Selected == \A i, r : D!Sel(i, r).index = i /\ D!Sel(i, r).ring = r
BY DEF D!Sel

LEMMA CodeTaken ==
  ASSUME gdt = D!GDT
  PROVE  /\ D!Takes("CS", D!Sel(1, 0)) /\ D!Takes("DATA", D!Sel(2, 0))
         /\ D!Takes("TR", D!Sel(5, 3))
<1>1. D!Takes("CS", D!Sel(1, 0))
  BY TableEntries, EntryAccess, Selected DEF D!Takes, D!Ring
<1>2. D!Takes("DATA", D!Sel(2, 0))
  BY TableEntries, EntryAccess, Selected DEF D!Takes, D!Ring
<1>3. D!Takes("TR", D!Sel(5, 3))
  BY TableEntries, EntryAccess, Selected DEF D!Takes, D!Ring
<1>4. QED
  BY <1>1, <1>2, <1>3

LEMMA AddressOf ==
  ASSUME NEW n \in Nat
  PROVE  n % D!Double \in D!Address
BY Sizes DEF D!Address

LEMMA InitLoaded == D!Init => Loaded
<1> SUFFICES ASSUME D!Init PROVE Loaded
  OBVIOUS
<1>1. at \in [D!Handlers \cup {"TSS"} -> D!Address]
  <2> DEFINE O == D!Handlers \cup {"TSS"}
             offset(o) == CASE o = "TSS" -> 3 * D!Word [] o = "dummy_isr" -> 0
                            [] o = "timer_isr" -> 1 [] o = "keyboard_isr" -> D!Byte
                            [] o = "spurious_isr" -> D!Word - 1
                            [] o = "syscall_entry" -> D!Word + D!Byte
  <2>1. PICK load \in D!Address : at = [o \in O |-> (load + offset(o)) % D!Double]
    BY Zenon DEF D!Init
  <2>2. \A o \in O : offset(o) \in Nat
    BY Sizes DEF D!Handlers
  <2> HIDE DEF offset
  <2>3. \A o \in O : load + offset(o) \in Nat
    BY <2>2, Sizes DEF D!Address
  <2>4. \A o \in O : (load + offset(o)) % D!Double \in D!Address
    BY <2>3, AddressOf
  <2>5. QED
    BY <2>1, <2>4
<1>2. DOMAIN seg = {"CS", "DATA", "TR"}
  BY DEF D!Init
<1>3. step = 0 /\ fault = FALSE /\ gates = <<>> /\ ip = D!Kernel
  BY Zenon DEF D!Init
<1>4. QED
  BY <1>1, <1>2, <1>3 DEF Loaded

(* A load of a selector the CPU takes. *)
LEMMA Loading ==
  ASSUME NEW reg \in DOMAIN seg, NEW sel, D!Load(reg, sel), D!Takes(reg, sel)
  PROVE  /\ fault' = fault
         /\ DOMAIN seg' = DOMAIN seg
         /\ seg'[reg] = [sel |-> sel, entry |-> gdt[sel.index]]
         /\ \A other \in DOMAIN seg \ {reg} : seg'[other] = seg[other]
<1>1. seg' = [seg EXCEPT ![reg] = [sel |-> sel, entry |-> gdt[sel.index]]] /\ fault' = fault
  BY Zenon DEF D!Load
<1>2. QED
  BY <1>1

LEMMA NextLoaded ==
  ASSUME Loaded, [D!Next]_(D!vars)
  PROVE  Loaded'
<1>1. CASE D!lgdt
  <2>1. step = 0 /\ step' = 1
    BY <1>1, WhichLoad DEF D!lgdt
  <2>2. gdt' = D!GDT /\ UNCHANGED <<at, gates, seg, frames, ip, fault>>
    BY <1>1 DEF D!lgdt
  <2>3. D!GDT' = D!GDT
    BY <2>2 DEF D!GDT
  <2>4. QED
    BY <2>1, <2>2, <2>3 DEF Loaded
<1>2. ASSUME NEW name \in {"data", "ltr", "ljmp"}, NEW reg, NEW sel,
             D!LoadRegister(name, reg, sel),
             \/ name = "data" /\ reg = "DATA" /\ sel = D!Sel(2, 0)
             \/ name = "ltr" /\ reg = "TR" /\ sel = D!Sel(5, 3)
             \/ name = "ljmp" /\ reg = "CS" /\ sel = D!Sel(1, 0)
      PROVE  Loaded'
  <2>1. /\ name = "data" => step = 1 /\ step' = 2
        /\ name = "ltr"  => step = 2 /\ step' = 3
        /\ name = "ljmp" => step = 3 /\ step' = 4
    BY <1>2, WhichLoad DEF D!LoadRegister
  <2>2. gdt = D!GDT
    BY <1>2, <2>1 DEF Loaded
  <2>3. D!Takes(reg, sel) /\ reg \in DOMAIN seg
    BY <1>2, <2>2, CodeTaken DEF Loaded
  <2>4. /\ UNCHANGED <<at, gdt, gates, frames, ip>> /\ fault' = fault
        /\ DOMAIN seg' = DOMAIN seg
        /\ seg'[reg] = [sel |-> sel, entry |-> gdt[sel.index]]
        /\ \A other \in DOMAIN seg \ {reg} : seg'[other] = seg[other]
    BY <1>2, <2>3, Loading DEF D!LoadRegister
  <2>5. D!GDT' = D!GDT /\ Task' = Task /\ FlatData' = FlatData /\ FlatCode' = FlatCode
    BY <2>4 DEF D!GDT, Task, FlatData, FlatCode
  <2>6. /\ step' >= 2 => seg'["DATA"].entry = FlatData
        /\ step' >= 3 => seg'["TR"].entry = Task
        /\ step' >= 4 => seg'["CS"] = [sel |-> D!Sel(1, 0), entry |-> FlatCode]
    BY <1>2, <2>1, <2>2, <2>4, TableEntries, Selected DEF Loaded
  <2>7. QED
    BY <1>2, <2>1, <2>2, <2>4, <2>5, <2>6 DEF Loaded
<1>3. CASE D!init_idt
  <2>1. step = 4 /\ step' = 5
    BY <1>3, WhichLoad DEF D!init_idt
  <2>2. gates' = D!IDT /\ UNCHANGED <<at, gdt, seg, frames, ip, fault>>
    BY <1>3 DEF D!init_idt
  <2>3. D!IDT' = D!IDT /\ D!GDT' = D!GDT /\ Task' = Task /\ FlatData' = FlatData
        /\ FlatCode' = FlatCode
    BY <2>2 DEF D!IDT, D!GDT, Task, FlatData, FlatCode
  <2>4. QED
    BY <2>1, <2>2, <2>3 DEF Loaded
<1>4. ASSUME D!Ready, D!Load("CS", D!Sel(1, 0)), UNCHANGED <<step, at, gdt, gates>>,
             ip' # D!Kernel => frames' = <<D!Sel(1, 0)>>
      PROVE  Loaded'
  <2>1. step = 5 /\ gdt = D!GDT
    BY <1>4 DEF Loaded, D!Ready
  <2>2. D!Takes("CS", D!Sel(1, 0)) /\ "CS" \in DOMAIN seg
    BY <2>1, CodeTaken DEF Loaded
  <2>3. /\ fault' = fault /\ DOMAIN seg' = DOMAIN seg
        /\ seg'["CS"] = [sel |-> D!Sel(1, 0), entry |-> FlatCode]
        /\ seg'["DATA"] = seg["DATA"] /\ seg'["TR"] = seg["TR"]
    BY <1>4, <2>1, <2>2, Loading, TableEntries, Selected DEF Loaded
  <2>4. D!IDT' = D!IDT /\ D!GDT' = D!GDT /\ Task' = Task /\ FlatData' = FlatData
        /\ FlatCode' = FlatCode
    BY <1>4 DEF D!IDT, D!GDT, Task, FlatData, FlatCode
  <2>5. QED
    BY <1>4, <2>1, <2>3, <2>4 DEF Loaded
<1>5. ASSUME NEW v \in D!Vectors, D!Interrupt(v)
      PROVE  Loaded'
  <2>1. D!Ready /\ gates = D!IDT /\ step = 5
    BY <1>5 DEF D!Interrupt, D!Ready, Loaded
  <2>2. gates[v].sel = D!Sel(1, 0)
    BY <2>1 DEF D!IDT, D!idt_register
  <2>3. seg["CS"].sel = D!Sel(1, 0)
    BY <2>1 DEF Loaded
  <2>4. /\ D!Load("CS", D!Sel(1, 0)) /\ frames' = <<D!Sel(1, 0)>>
        /\ UNCHANGED <<step, at, gdt, gates>>
    BY <1>5, <2>2, <2>3 DEF D!Interrupt
  <2>5. QED
    BY <1>4, <2>1, <2>4
<1>6. CASE D!iret
  <2>1. D!Ready /\ frames[1] = D!Sel(1, 0)
    BY <1>6 DEF D!iret, Loaded
  <2>2. /\ D!Load("CS", D!Sel(1, 0)) /\ ip' = D!Kernel
        /\ UNCHANGED <<step, at, gdt, gates>>
    BY <1>6, <2>1 DEF D!iret
  <2>3. QED
    BY <1>4, <2>1, <2>2
<1>7. CASE UNCHANGED D!vars
  <2>1. UNCHANGED <<step, at, gdt, gates, seg, frames, ip, fault>>
    BY <1>7 DEF D!vars
  <2>2. D!IDT' = D!IDT /\ D!GDT' = D!GDT /\ Task' = Task /\ FlatData' = FlatData
        /\ FlatCode' = FlatCode
    BY <2>1 DEF D!IDT, D!GDT, Task, FlatData, FlatCode
  <2>3. QED
    BY <2>1, <2>2 DEF Loaded
<1>8. QED
  <2>1. D!Loads => Loaded'
    BY <1>2 DEF D!Loads
  <2>2. QED
    BY <1>1, <1>3, <1>5, <1>6, <1>7, <2>1 DEF D!Next

(* Packed and unpacked, the entries say what they were given. *)
LEMMA LoadedReaches == Loaded => D!EntriesReach
<1> SUFFICES ASSUME Loaded, D!Ready
             PROVE  /\ \A r \in {"CS", "DATA"} :
                         /\ D!BaseOf(seg[r].entry) = 0
                         /\ D!LimitOf(seg[r].entry) = D!Double - 1
                    /\ D!BaseOf(seg["TR"].entry) = at["TSS"]
                    /\ D!LimitOf(seg["TR"].entry) >= TssSize - 1
                    /\ \A v \in D!Vectors :
                         /\ D!EntryAt(gates[v]) = at[D!Handler(v)]
                         /\ D!Ring([access |-> gates[v].flags]) = 3 <=> v = 128
  BY DEF D!EntriesReach
<1>1. step = 5 /\ at \in [D!Handlers \cup {"TSS"} -> D!Address]
  BY DEF Loaded, D!Ready
<1>2. gates = D!IDT /\ seg["CS"].entry = FlatCode /\ seg["DATA"].entry = FlatData
      /\ seg["TR"].entry = Task
  BY <1>1 DEF Loaded
<1>3. 0 \in D!Address
  BY Sizes DEF D!Address
<1>4. ASSUME NEW r \in {"CS", "DATA"}
      PROVE  D!BaseOf(seg[r].entry) = 0 /\ D!LimitOf(seg[r].entry) = D!Double - 1
  BY <1>2, <1>3, <1>4, BaseKept, FlatLimit DEF FlatCode, FlatData
<1>5. D!BaseOf(seg["TR"].entry) = at["TSS"] /\ D!LimitOf(seg["TR"].entry) >= TssSize - 1
  <2>1. at["TSS"] \in D!Address
    BY <1>1
  <2>2. QED
    BY <1>2, <2>1, BaseKept, TaskLimit DEF Task
<1>6. ASSUME NEW v \in D!Vectors
      PROVE  /\ D!EntryAt(gates[v]) = at[D!Handler(v)]
             /\ D!Ring([access |-> gates[v].flags]) = 3 <=> v = 128
  <2> DEFINE flags == {"PRESENT", "INTERRUPT"} \cup (IF v = 128 THEN {"RING3"} ELSE {})
  <2>1. gates[v] = D!idt_register(at[D!Handler(v)], D!Sel(1, 0), flags)
    BY <1>2 DEF D!IDT
  <2>2. D!Handler(v) \in D!Handlers
    BY DEF D!Handler, D!Handlers
  <2>3. at[D!Handler(v)] \in D!Address
    BY <1>1, <2>2
  <2>4. gates[v].flags = flags
    BY <2>1 DEF D!idt_register
  <2>5. "RING3" \in flags <=> v = 128
    OBVIOUS
  <2> HIDE DEF flags
  <2>6. D!EntryAt(gates[v]) = at[D!Handler(v)]
    BY <2>1, <2>3, GateKept
  <2>7. [access |-> gates[v].flags].access = flags
    BY <2>4
  <2>8. D!Ring([access |-> gates[v].flags]) = 3 <=> v = 128
    BY <2>5, <2>7 DEF D!Ring
  <2>9. QED
    BY <2>6, <2>8
<1>7. QED
  BY <1>4, <1>5, <1>6

LEMMA AlwaysLoaded == MCSpec => [](part = "descriptors" => Loaded)
<1>1. MCInit => (part = "descriptors" => Loaded)
  BY InitLoaded DEF MCInit
<1>2. (part = "descriptors" => Loaded) /\ [MCNext]_<<part, vars, descriptors, calibration>>
        => (part = "descriptors" => Loaded)'
  <2> SUFFICES ASSUME part = "descriptors" => Loaded, part' = "descriptors",
                      [MCNext]_<<part, vars, descriptors, calibration>>
               PROVE  Loaded'
    OBVIOUS
  <2>1. CASE MCNext
    <3>1. part = "descriptors" /\ D!Next
      BY <2>1 DEF MCNext
    <3>2. QED
      BY <3>1, NextLoaded
  <2>2. CASE UNCHANGED <<part, vars, descriptors, calibration>>
    <3>1. UNCHANGED D!vars
      BY <2>2 DEF descriptors, D!vars
    <3>2. part = "descriptors"
      BY <2>2
    <3>3. QED
      BY <3>1, <3>2, NextLoaded
  <2>3. QED
    BY <2>1, <2>2
<1>3. QED
  BY <1>1, <1>2, PTL DEF MCSpec

(* The CPU takes every selector load_gdt, a gate or an iret gives it.      *)
THEOREM LoadsAlwaysSucceed == MCSpec => []LoadsSucceed
<1>1. (part = "descriptors" => Loaded) => LoadsSucceed
  BY DEF Loaded, LoadsSucceed, D!LoadsSucceed
<1>2. QED
  BY <1>1, AlwaysLoaded, PTL

(* Wherever the kernel lies and whatever the width of a byte, segments,    *)
(* task and gates lead where they should.                                  *)
THEOREM EntriesAlwaysReach == MCSpec => []EntriesReach
<1>1. (part = "descriptors" => Loaded) => EntriesReach
  BY LoadedReaches DEF EntriesReach
<1>2. QED
  BY <1>1, AlwaysLoaded, PTL

-----------------------------------------------------------------------------
(* The calibration where the PIT's output is high while it counts.  What   *)
(* was counted is told by what the one-shot has left, up to the unit that  *)
(* may pass between its start and the timer's.                             *)
Waiting ==
  /\ left \in 0 .. Reload
  /\ left = 0 => lag = 1
  /\ \E n \in {Reload - left, Reload - left - 1} : n >= 0 /\ counted = rate * n

Calibrating ==
  /\ gate \in {0, 1} /\ others \in 0 .. 7 /\ lag \in {0, 1} /\ rate \in Rates
  /\ pc # "init_pit" => others \in {0, 2, 4, 6}
  /\ pc \in {"init_pit", "lsb"} => written = <<>>
  /\ pc = "msb" => written = <<Reload % Base>>
  /\ pc \in {"gate_low", "gate_high"} => written = <<Reload % Base, Reload \div Base>>
  /\ pc \in {"init_pit", "lsb", "msb", "gate_low", "gate_high"} => left = 0
  /\ pc \in {"init_pit", "lsb", "msb", "gate_low", "gate_high", "start"} => counted = -1
  /\ pc = "gate_high" => gate = 0
  /\ pc = "start" => left = Reload - lag
  /\ pc \in {"start", "wait"} => gate = 1
  /\ pc = "wait" => Waiting
  /\ pc = "program" => \E n \in {Reload - 1, Reload, Reload + lag} : counted = rate * n
  /\ pc = "done" => \E n \in Reload - 1 .. Reload + 1 : period = (rate * n) \div 10

LEMMA Machine ==
  ASSUME rate \in Rates
  PROVE  /\ rate \in Nat /\ Reload \in Nat /\ Reload >= 2 /\ Base \in Nat \ {0} /\ MaxCount \in Nat
         /\ rate * (Reload - 1) >= 10 /\ rate * (Reload + 2) <= MaxCount
<1>1. Base \in Nat \ {0} /\ Base * Base \in Nat
  BY PartsAssumption DEF C!CalibrationAssumption
<1>2. QED
  BY <1>1, PartsAssumption DEF C!CalibrationAssumption

LEMMA InitCalibrating == C!Init => Calibrating
BY DEF C!Init, Calibrating, C!pit

(* The gate going up after both bytes starts the one-shot from Reload.     *)
LEMMA OneShot ==
  ASSUME gate = 0, written = <<Reload % Base, Reload \div Base>>, C!SetGate(1), rate \in Rates
  PROVE  gate' = 1 /\ left' = Reload
<1>1. Base \in Nat \ {0} /\ Reload \in Nat
  BY Machine
<1>2. PICK q \in Nat, r \in Nat :
        q = Reload \div Base /\ r = Reload % Base /\ Reload = Base * q + r /\ r < Base
  BY <1>1, Remainder, Zenon
<1>3. written = <<r, q>>
  BY <1>2, Zenon
<1>4. Len(written) = 2 /\ written[1] = r /\ written[2] = q
  BY <1>3
<1>5. gate' = 1 /\ left' = r + Base * q
  BY <1>4 DEF C!SetGate
<1>6. Reload = Base * q + r
  BY <1>2, Zenon
<1>7. QED
  BY <1>1, <1>5, <1>6

(* The whole port is above 0x20 for as long as the one-shot runs.          *)
LEMMA PortTells ==
  ASSUME gate = 1, others \in {0, 2, 4, 6}, CountingHigh = TRUE, NEW refresh \in BOOLEAN,
         left \in Nat
  PROVE  C!Port61(refresh) > 32 <=> left > 0
<1>1. C!Out <=> left > 0
  BY Zenon DEF C!Out
<1>2. CASE left > 0
  <2>1. C!Port61(refresh) = gate + 2 * others + (IF refresh THEN 16 ELSE 0) + 32
    BY <1>1, <1>2, Zenon DEF C!Port61
  <2>2. (IF refresh THEN 16 ELSE 0) \in {0, 16}
    OBVIOUS
  <2>3. QED
    BY <1>2, <2>1, <2>2
<1>3. CASE ~ (left > 0)
  <2>1. C!Port61(refresh) = gate + 2 * others + (IF refresh THEN 16 ELSE 0) + 0
    BY <1>1, <1>3, Zenon DEF C!Port61
  <2>2. (IF refresh THEN 16 ELSE 0) \in {0, 16}
    OBVIOUS
  <2>3. QED
    BY <1>3, <2>1, <2>2
<1>4. QED
  BY <1>2, <1>3

LEMMA PassCalibrating ==
  ASSUME Calibrating, C!Pass
  PROVE  Calibrating'
<1>1. /\ lag = 0 /\ lag' = 1 /\ pc # "done" /\ UNCHANGED <<pc, gate, others, written, rate, period>>
      /\ left' = IF left = 0 THEN 0 ELSE left - 1
      /\ counted' = IF counted = -1 THEN -1
                    ELSE IF counted + rate > MaxCount THEN MaxCount ELSE counted + rate
  BY DEF C!Pass, C!pit
<1>2. rate \in Nat /\ Reload \in Nat /\ Reload >= 2 /\ MaxCount \in Nat
      /\ rate * (Reload + 2) <= MaxCount /\ rate * (Reload - 1) >= 10
  BY Machine DEF Calibrating
<1>3. ASSUME NEW n \in 0 .. Reload, counted = rate * n
      PROVE  counted' = rate * (n + 1)
  <2>1. counted \in Nat /\ counted # -1 /\ counted + rate = rate * (n + 1)
    BY <1>2, <1>3
  <2>2. rate * (n + 1) <= rate * (Reload + 2)
    BY <1>2
  <2>3. rate * (n + 1) \in Nat /\ rate * (Reload + 2) \in Nat
    BY <1>2
  <2>4. ~ (counted + rate > MaxCount)
    BY <1>2, <2>1, <2>2, <2>3
  <2>5. QED
    BY <1>1, <2>1, <2>4
<1>4. ASSUME pc = "wait" PROVE Waiting'
  <2>1. left \in 1 .. Reload
    BY <1>1, <1>4 DEF Calibrating, Waiting
  <2>2. PICK n \in {Reload - left, Reload - left - 1} : n >= 0 /\ counted = rate * n
    BY <1>4 DEF Calibrating, Waiting
  <2>3. counted' = rate * (n + 1)
    BY <1>2, <1>3, <2>1, <2>2
  <2>4. left' = left - 1 /\ left' \in 0 .. Reload
    BY <1>1, <1>2, <2>1
  <2>5. n + 1 \in {Reload - left', Reload - left' - 1} /\ n + 1 >= 0
    BY <1>2, <2>1, <2>2, <2>4
  <2>6. QED
    BY <1>1, <2>3, <2>4, <2>5 DEF Waiting
<1>5. ASSUME pc = "program"
      PROVE  \E n \in {Reload - 1, Reload, Reload + lag'} : counted' = rate' * n
  <2>1. PICK n \in {Reload - 1, Reload} : counted = rate * n
    BY <1>1, <1>2, <1>5 DEF Calibrating
  <2>2. counted' = rate * (n + 1)
    BY <1>2, <1>3, <2>1
  <2>3. n + 1 \in {Reload, Reload + lag'}
    BY <1>1, <1>2, <2>1
  <2>4. QED
    BY <1>1, <2>2, <2>3
<1>6. ASSUME pc = "start" PROVE left' = Reload - lag'
  BY <1>1, <1>2, <1>6 DEF Calibrating
<1>7. QED
  BY <1>1, <1>4, <1>5, <1>6 DEF Calibrating

(* The second byte written after the first. *)
LEMMA Pair ==
  ASSUME NEW a, NEW b
  PROVE  Append(<<a>>, b) = <<a, b>>
<1>1. PICK S : a \in S /\ b \in S
  <2>1. a \in {a, b} /\ b \in {a, b}
    OBVIOUS
  <2>2. QED
    BY <2>1
<1>2. <<a>> \in Seq(S) /\ <<a, b>> \in Seq(S) /\ Len(<<a>>) = 1 /\ Len(<<a, b>>) = 2
  BY <1>1
<1>3. /\ Append(<<a>>, b) \in Seq(S) /\ Len(Append(<<a>>, b)) = 2
      /\ Append(<<a>>, b)[1] = a /\ Append(<<a>>, b)[2] = b
  BY <1>1, <1>2, AppendProperties
<1>4. \A i \in 1 .. 2 : Append(<<a>>, b)[i] = <<a, b>>[i]
  BY <1>3
<1>5. QED 
  BY <1>2, <1>3, <1>4, SeqEqual

LEMMA StepCalibrating ==
  ASSUME Calibrating, CountingHigh = TRUE, C!Step
  PROVE  Calibrating'
<1> USE DEF C!Goto, C!pit
<1>1. /\ gate \in {0, 1} /\ others \in 0 .. 7 /\ rate \in Rates
      /\ rate \in Nat /\ Reload \in Nat /\ Reload >= 2
  BY Machine DEF Calibrating
<1>2. CASE C!InitPit
  <2>1. /\ pc = "init_pit" /\ pc' = "lsb" /\ lag' = 0 /\ UNCHANGED <<rate, written, counted, period>>
        /\ others' = (others \div 2) * 2 /\ gate' = 1
    BY <1>2 DEF C!InitPit, C!SetGate
  <2>2. written = <<>> /\ left = 0 /\ counted = -1
    BY <2>1 DEF Calibrating
  <2>3. left' = 0
    <3>1. Len(written) = 0
      BY <2>2
    <3>2. QED
      BY <1>2, <2>2, <3>1 DEF C!InitPit, C!SetGate
  <2>4. others' \in {0, 2, 4, 6}
    BY <1>1, <2>1
  <2>5. QED
    BY <1>1, <2>1, <2>2, <2>3, <2>4 DEF Calibrating
<1>3. CASE C!WriteReload
  <2>1. \/ pc = "lsb" /\ pc' = "msb" /\ written' = <<Reload % Base>>
        \/ pc = "msb" /\ pc' = "gate_low" /\ written' = Append(written, Reload \div Base)
    BY <1>3 DEF C!WriteReload
  <2>2. lag' = 0 /\ UNCHANGED <<gate, others, left, rate, counted, period>>
    BY <1>3 DEF C!WriteReload
  <2>3. pc = "msb" => written' = <<Reload % Base, Reload \div Base>>
    <3>1. pc = "msb" => written = <<Reload % Base>>
      BY DEF Calibrating
    <3>2. pc = "msb" => written' = Append(written, Reload \div Base)
      BY <2>1
    <3>3. QED
      BY <3>1, <3>2, Pair, Zenon
  <2>4. left = 0 /\ counted = -1 /\ others \in {0, 2, 4, 6}
    BY <2>1 DEF Calibrating
  <2>5. QED
    BY <1>1, <2>1, <2>2, <2>3, <2>4 DEF Calibrating
<1>4. CASE C!GateLow
  <2>1. /\ pc = "gate_low" /\ pc' = "gate_high" /\ lag' = 0 /\ gate' = 0
        /\ UNCHANGED <<rate, others, written, counted, period>>
        /\ left' = left
    BY <1>4 DEF C!GateLow, C!SetGate
  <2>2. QED
    BY <1>1, <2>1 DEF Calibrating
<1>5. CASE C!GateHigh
  <2>1. /\ pc = "gate_high" /\ pc' = "start" /\ lag' = 0 /\ C!SetGate(1)
        /\ UNCHANGED <<rate, others, written, counted, period>>
    BY <1>5 DEF C!GateHigh
  <2>2. gate = 0 /\ written = <<Reload % Base, Reload \div Base>> /\ counted = -1
        /\ others \in {0, 2, 4, 6}
    BY <2>1 DEF Calibrating
  <2>3. gate' = 1 /\ left' = Reload
    BY <1>1, <2>1, <2>2, OneShot
  <2>4. left' = Reload - lag'
    BY <1>1, <2>1, <2>3
  <2>5. QED
    BY <1>1, <2>1, <2>2, <2>3, <2>4 DEF Calibrating
<1>6. CASE C!StartCounting
  <2>1. /\ pc = "start" /\ pc' = "wait" /\ lag' = 0 /\ counted' = 0
        /\ UNCHANGED <<rate, gate, others, written, left, period>>
    BY <1>6 DEF C!StartCounting
  <2>2. left \in {Reload, Reload - 1} /\ gate = 1 /\ others \in {0, 2, 4, 6}
    BY <1>1, <2>1 DEF Calibrating
  <2>3. 0 \in {Reload - left', Reload - left' - 1} /\ counted' = rate' * 0 /\ left' \in 1 .. Reload
    BY <1>1, <2>1, <2>2
  <2>4. Waiting'
    BY <2>3 DEF Waiting
  <2>5. QED
    BY <1>1, <2>1, <2>2, <2>4 DEF Calibrating
<1>7. CASE C!Wait
  <2>1. PICK refresh \in BOOLEAN :
          pc = "wait" /\ lag' = 0 /\ UNCHANGED rate
          /\ pc' = IF C!Port61(refresh) > 32 THEN "wait" ELSE "program"
    BY <1>7 DEF C!Wait
  <2>2. UNCHANGED <<gate, others, written, left, counted, period>>
    BY <1>7 DEF C!Wait
  <2>3. gate = 1 /\ others \in {0, 2, 4, 6} /\ left \in 0 .. Reload /\ Waiting
    BY <2>1 DEF Calibrating, Waiting
  <2>4. C!Port61(refresh) > 32 <=> left > 0
    BY <1>1, <2>3, PortTells
  <2>5. CASE left > 0
    <3>1. pc' = "wait"
      BY <2>1, <2>4, <2>5
    <3>2. Waiting'
      BY <2>1, <2>2, <2>3, <2>5 DEF Waiting
    <3>3. QED
      BY <1>1, <2>1, <2>2, <2>3, <3>1, <3>2 DEF Calibrating
  <2>6. CASE ~ (left > 0)
    <3>1. pc' = "program" /\ left = 0
      BY <2>1, <2>3, <2>4, <2>6
    <3>2. PICK n \in {Reload, Reload - 1} : counted = rate * n
      BY <1>1, <2>3, <3>1 DEF Waiting
    <3>3. \E m \in {Reload - 1, Reload, Reload + lag'} : counted' = rate' * m
      BY <2>1, <2>2, <3>2
    <3>4. QED
      BY <1>1, <2>1, <2>2, <2>3, <3>1, <3>3 DEF Calibrating
  <2>7. QED
    BY <2>5, <2>6
<1>8. CASE C!Program
  <2>1. /\ pc = "program" /\ pc' = "done" /\ lag' = 0 /\ period' = counted \div 10
        /\ UNCHANGED <<rate, gate, others, written, left, counted>>
    BY <1>8 DEF C!Program
  <2>2. PICK n \in {Reload - 1, Reload, Reload + lag} : counted = rate * n
    BY <2>1 DEF Calibrating
  <2>3. n \in Reload - 1 .. Reload + 1 /\ others \in {0, 2, 4, 6}
    BY <1>1, <2>1 DEF Calibrating
  <2>4. period' = (rate' * n) \div 10
    BY <2>1, <2>2, Zenon
  <2>5. \E m \in Reload - 1 .. Reload + 1 : period' = (rate' * m) \div 10
    BY <2>3, <2>4, Zenon
  <2>6. QED
    BY <1>1, <2>1, <2>3, <2>5 DEF Calibrating
<1>9. QED
  BY <1>2, <1>3, <1>4, <1>5, <1>6, <1>7, <1>8 DEF C!Step

LEMMA StillCalibrating ==
  ASSUME Calibrating, UNCHANGED calibration
  PROVE  Calibrating'
BY DEF calibration, Calibrating, Waiting

LEMMA CalibratingTells == Calibrating => C!MillisecondTimer
<1> SUFFICES ASSUME Calibrating, pc = "done"
             PROVE  period > 0 /\ C!Distance(10 * period, rate * Reload) <= rate + 9
  BY DEF C!MillisecondTimer
<1>1. /\ rate \in Nat /\ Reload \in Nat /\ Reload >= 2 /\ rate * (Reload - 1) >= 10
  BY Machine DEF Calibrating
<1>2. PICK n \in Reload - 1 .. Reload + 1 : period = (rate * n) \div 10
  BY DEF Calibrating
<1>3. rate * n \in Nat /\ rate * n >= rate * (Reload - 1)
  BY <1>1
<1>4. PICK q \in Nat, r \in Nat : q = period /\ rate * n = 10 * q + r /\ r < 10
  <2>1. 10 \in Nat \ {0}
    OBVIOUS
  <2>2. QED
    BY <1>2, <1>3, <2>1, Remainder, Zenon
<1>5. period > 0 /\ period \in Nat
  BY <1>1, <1>3, <1>4
<1>6. n = Reload - 1 \/ n = Reload \/ n = Reload + 1
  BY <1>1
<1>7. rate * n \in {rate * Reload - rate, rate * Reload, rate * Reload + rate}
  BY <1>1, <1>6
<1>8. rate * Reload \in Nat
  BY <1>1
<1>9. C!Distance(10 * period, rate * Reload) <= rate + 9
  BY <1>1, <1>4, <1>7, <1>8 DEF C!Distance
<1>10. QED
  BY <1>5, <1>9

(* With QEMU's PIT, and any reload value, clock and state of the ports:    *)
(* the timer is started, if it is, with a period of a millisecond.         *)
THEOREM TimerAlwaysMillisecond == CountingHigh = TRUE => (MCSpec => []MillisecondTimer)
<1> SUFFICES ASSUME CountingHigh = TRUE PROVE MCSpec => []MillisecondTimer
  OBVIOUS
<1> DEFINE I == part = "calibration" => Calibrating
<1>1. MCInit => I
  BY InitCalibrating DEF MCInit
<1>2. I /\ [MCNext]_<<part, vars, descriptors, calibration>> => I'
  <2> SUFFICES ASSUME I, part' = "calibration", [MCNext]_<<part, vars, descriptors, calibration>>
               PROVE  Calibrating'
    OBVIOUS
  <2>1. CASE MCNext
    <3>1. part = "calibration" /\ C!Next
      BY <2>1 DEF MCNext
    <3>2. QED
      BY <3>1, StepCalibrating, PassCalibrating DEF C!Next
  <2>2. CASE UNCHANGED <<part, vars, descriptors, calibration>>
    <3>1. UNCHANGED calibration /\ part = "calibration"
      BY <2>2
    <3>2. QED
      BY <3>1, StillCalibrating
  <2>3. QED
    BY <2>1, <2>2
<1>3. I => MillisecondTimer
  BY CalibratingTells DEF MillisecondTimer
<1>4. QED
  BY <1>1, <1>2, <1>3, PTL DEF MCSpec
=============================================================================
