---------------------------- MODULE Descriptors ----------------------------
(***************************************************************************)
(* The descriptor tables: how gdt.c and interrupts.c pack addresses and    *)
(* limits into their entries, the order in which load_gdt makes the CPU    *)
(* use them, and what the CPU makes of an entry when it loads a segment    *)
(* register, takes an interrupt or returns from one.                       *)
(***************************************************************************)
EXTENDS Integers, Sequences

CONSTANTS
  Nibble,     \* how many values half a byte has, 16; all sizes follow
  TssSize,    \* sizeof(TSS)
  Selectors   \* what the loader may have in its segment registers

Byte    == Nibble * Nibble
Word    == Byte * Byte
Double  == Word * Word
Address == 0 .. Double - 1

SizesAssumption == Nibble \in Nat \ {0, 1} /\ TssSize \in 1 .. Word

VARIABLES
  step,      \* how far init_gdt, load_gdt and init_idt are
  at,        \* given: the addresses of TSS and of the handlers
  gdt, idt,  \* the tables the CPU uses
  seg,       \* selector and descriptor in CS, in the data registers, in TR
  frames,    \* the selectors of CS on the stack
  ip, fault  \* the handler entered, or Kernel; a load that the CPU refused

vars == <<step, at, gdt, idt, seg, frames, ip, fault>>

Handlers == {"dummy_isr", "timer_isr", "keyboard_isr", "spurious_isr", "syscall_entry"}

(* One vector for the 252 that all lead to dummy_isr.                      *)
Vectors == {0, 32, 39, 40, 128}
Kernel  == -1

-----------------------------------------------------------------------------
(* A page of memory, the unit of every limit: gdt_register sets that flag. *)
Page == Double \div (Word * Nibble)

(* Mutant of gdt_register: the highest byte of the base is left at 0.      *)
gdt_register_low_base(base, limit, access) ==
  [base_low |-> base % Word, base_middle |-> (base \div Word) % Byte, base_high |-> 0,
   limit_low |-> limit % Word, limit_high |-> (limit \div Word) % Nibble,
   access |-> access \cup {"PRESENT"}]

gdt_register(base, limit, access) ==
  [base_low |-> base % Word, base_middle |-> (base \div Word) % Byte,
   base_high |-> (base \div (Word * Byte)) % Byte,
   limit_low |-> limit % Word, limit_high |-> (limit \div Word) % Nibble,
   access |-> access \cup {"PRESENT"}]

(* The selector of an entry is eight times its index, and the ring asked.  *)
Sel(i, ring) == [index |-> i, ring |-> ring]

GDT ==
  [i \in 0 .. 5 |->
     CASE i = 0 -> gdt_register(0, 0, {})
       [] i = 1 -> gdt_register(0, Double - 1, {"SEGMENT", "EXEC", "RW"})
       [] i = 2 -> gdt_register(0, Double - 1, {"SEGMENT", "RW"})
       [] i = 3 -> gdt_register(0, Double - 1, {"RING3", "SEGMENT", "EXEC", "RW"})
       [] i = 4 -> gdt_register(0, Double - 1, {"RING3", "SEGMENT", "RW"})
       [] i = 5 -> gdt_register(at["TSS"], TssSize - 1, {"EXEC", "ACCESSED"})]

idt_register(base, sel, flags) ==
  [base_lo |-> base % Word, base_hi |-> (base \div Word) % Word, sel |-> sel, flags |-> flags]

Handler(v) ==
  CASE v = 128 -> "syscall_entry" [] v = 32 -> "timer_isr" [] v = 40 -> "keyboard_isr"
    [] v = 39 -> "spurious_isr"   [] OTHER  -> "dummy_isr"

IDT ==
  [v \in Vectors |->
     idt_register(at[Handler(v)], Sel(1, 0),
                  {"PRESENT", "INTERRUPT"} \cup (IF v = 128 THEN {"RING3"} ELSE {}))]

-----------------------------------------------------------------------------
(* What the CPU reads in an entry.                                         *)
BaseOf(e)  == e.base_low + Word * (e.base_middle + Byte * e.base_high)
LimitOf(e) == (e.limit_low + Word * e.limit_high + 1) * Page - 1
EntryAt(g) == g.base_lo + Word * g.base_hi

Ring(e) == IF "RING3" \in e.access THEN 3 ELSE 0

(* The entries it takes for code, for data and the stack, and for a task.  *)
Takes(reg, sel) ==
  /\ sel.index \in DOMAIN gdt \ {0} /\ "PRESENT" \in gdt[sel.index].access
  /\ Ring(gdt[sel.index]) = 0 /\ sel.ring \in {0, IF reg = "TR" THEN 3 ELSE 0}
  /\ LET kind == gdt[sel.index].access \cap {"SEGMENT", "EXEC"}
     IN  CASE reg = "CS"   -> kind = {"SEGMENT", "EXEC"}
           [] reg = "DATA" -> kind = {"SEGMENT"} /\ "RW" \in gdt[sel.index].access
           [] reg = "TR"   -> gdt[sel.index].access \cap {"SEGMENT", "EXEC", "RW"} = {"EXEC"}

Load(reg, sel) ==
  IF Takes(reg, sel)
    THEN /\ seg' = [seg EXCEPT ![reg] = [sel |-> sel, entry |-> gdt[sel.index]]]
         /\ UNCHANGED fault
    ELSE fault' = TRUE /\ UNCHANGED seg

-----------------------------------------------------------------------------
(* Mutant of load_gdt: CS keeps the loader's selector.                     *)
load_gdt_near == <<"lgdt", "data", "ltr", "idt">>

load_gdt == <<"lgdt", "data", "ltr", "ljmp", "idt">>

At(s) == ~ fault /\ step < Len(load_gdt) /\ load_gdt[step + 1] = s /\ step' = step + 1

(* The loader's segments are flat, its tables and selectors its own.       *)
Flat(access) == gdt_register(0, Double - 1, {"SEGMENT"} \cup access)

Init ==
  /\ step = 0
  /\ \E load \in Address :
       at = [o \in Handlers \cup {"TSS"} |->
               (load + CASE o = "TSS" -> 3 * Word [] o = "dummy_isr" -> 0 [] o = "timer_isr" -> 1
                         [] o = "keyboard_isr" -> Byte [] o = "spurious_isr" -> Word - 1
                         [] o = "syscall_entry" -> Word + Byte) % Double]
  /\ gdt = <<>> /\ idt = <<>>
  /\ \E code \in Selectors, data \in Selectors :
       seg = [r \in {"CS", "DATA", "TR"} |->
                IF r = "CS" THEN [sel |-> code, entry |-> Flat({"EXEC", "RW"})]
                ELSE [sel |-> data, entry |-> Flat({"RW"})]]
  /\ frames = <<>> /\ ip = Kernel /\ fault = FALSE

lgdt ==
  /\ At("lgdt")
  /\ gdt' = GDT
  /\ UNCHANGED <<at, idt, seg, frames, ip, fault>>

LoadRegister(name, reg, sel) ==
  /\ At(name)
  /\ Load(reg, sel)
  /\ UNCHANGED <<at, gdt, idt, frames, ip>>

(* What load_gdt loads: selectors 0x10, 0x2b and 0x08.                     *)
Loads ==
  \/ LoadRegister("data", "DATA", Sel(2, 0))
  \/ LoadRegister("ltr", "TR", Sel(5, 3))
  \/ LoadRegister("ljmp", "CS", Sel(1, 0))

init_idt ==
  /\ At("idt")
  /\ idt' = IDT
  /\ UNCHANGED <<at, gdt, seg, frames, ip, fault>>

Ready == ~ fault /\ idt # <<>>

(* An interrupt goes through its gate, and its handler's iret takes CS     *)
(* from the stack again.                                                   *)
Interrupt(v) ==
  /\ Ready /\ ip = Kernel
  /\ frames' = <<seg["CS"].sel>>
  /\ ip' = EntryAt(idt[v])
  /\ Load("CS", idt[v].sel)
  /\ UNCHANGED <<step, at, gdt, idt>>

iret ==
  /\ Ready /\ ip # Kernel
  /\ Load("CS", frames[1])
  /\ frames' = <<>> /\ ip' = Kernel
  /\ UNCHANGED <<step, at, gdt, idt>>

Next == lgdt \/ Loads \/ init_idt \/ (\E v \in Vectors : Interrupt(v)) \/ iret
Spec == Init /\ [][Next]_vars

-----------------------------------------------------------------------------
(* The CPU accepts every selector it is given: those load_gdt loads, that  *)
(* of each gate, and the one an interrupted CS is restored from, which is  *)
(* the loader's, and of another table, until load_gdt's far jump.          *)
LoadsSucceed == ~ fault

(* Packed and unpacked again, the entries say what they should: code and   *)
(* data reach all of memory, the task is the TSS, each vector leads to its *)
(* own handler, and only the system call's may be raised from ring 3.      *)
EntriesReach ==
  Ready =>
    /\ \A r \in {"CS", "DATA"} :
         BaseOf(seg[r].entry) = 0 /\ LimitOf(seg[r].entry) = Double - 1
    /\ BaseOf(seg["TR"].entry) = at["TSS"] /\ LimitOf(seg["TR"].entry) >= TssSize - 1
    /\ \A v \in Vectors :
         /\ EntryAt(idt[v]) = at[Handler(v)]
         /\ Ring([access |-> idt[v].flags]) = 3 <=> v = 128
=============================================================================
