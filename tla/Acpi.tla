-------------------------------- MODULE Acpi --------------------------------
(***************************************************************************)
(* How the kernel finds its interrupt controllers: acpi_find_rsdt and what *)
(* it calls, acpi_find_sdt, and the walk over the MADT in apic_init, one   *)
(* loop iteration or call a step, on tables laid out by the firmware.      *)
(*                                                                         *)
(* A table is its signature, whether its bytes sum up to zero, and what    *)
(* the kernel reads of its body; tables are numbered, not addressed.       *)
(***************************************************************************)
EXTENDS Integers, Sequences, SequencesExt

CONSTANTS
  RegionLength,     \* bytes searched in the EBDA and in the BIOS area
  SignatureLength,  \* 8, "RSD PTR "
  RsdpLength,       \* 20
  Alignment,        \* 16: an RSDP lies on a multiple of it
  Firmwares         \* the layouts of tables under consideration

Regions == {1, 2}
NULL    == 0

TYPE_IOAPIC == 1

(* What the code relies on the firmware for: an RSDP lies where ACPI       *)
(* allows it and points at an RSDT, and no table lists itself or one       *)
(* before it.                                                              *)
WellFormed(f) ==
  /\ \A p \in DOMAIN f.rsdp :
       /\ p \in Regions \X Nat
       /\ p[2] % Alignment = 0 /\ p[2] + RsdpLength <= RegionLength[p[1]]
       /\ f.rsdp[p].rsdt_addr \in DOMAIN f.sdt
       /\ f.sdt[f.rsdp[p].rsdt_addr].signature = "RSDT"
  /\ DOMAIN f.sdt \subseteq Nat \ {NULL}
  /\ \A t \in DOMAIN f.sdt :
       /\ f.sdt[t].entries \in Seq(DOMAIN f.sdt)
       /\ \A n \in DOMAIN f.sdt[t].entries : f.sdt[t].entries[n] > t
       /\ f.sdt[t].lapic_addr \in Nat
       /\ f.sdt[t].devices \in Seq([type : Nat, addr : Nat])

ASSUME FirmwareAssumption ==
  /\ RegionLength \in [Regions -> Nat]
  /\ {SignatureLength, RsdpLength, Alignment} \subseteq Nat \ {0}
  /\ SignatureLength < RsdpLength
  /\ \A f \in Firmwares : WellFormed(f)

VARIABLES
  fw,          \* the tables of this machine; never changes
  pc,          \* where the kernel is
  region, i,   \* the region searched, and the index of the loop being run
  rsdp,        \* the place of the RSDP found, <<region, offset>>
  calls,       \* the calls of acpi_verify_sdt in progress, innermost last
  verified,    \* tables whose checksum has been found right
  madt,        \* the table acpi_find_sdt returned, NULL before
  lapic_ptr, ioapic_ptr,
  message      \* the argument of panic, "" before

vars == <<fw, pc, region, i, rsdp, calls, verified, madt, lapic_ptr, ioapic_ptr,
          message>>

Init ==
  /\ fw \in Firmwares
  /\ pc = "search" /\ region = 1 /\ i = 0 /\ rsdp = <<>>
  /\ calls = <<>> /\ verified = {}
  /\ madt = NULL /\ lapic_ptr = NULL /\ ioapic_ptr = NULL
  /\ message = ""

(* panic(msg) never returns. *)
panic(msg) ==
  /\ pc' = "panic"
  /\ message' = msg
  /\ UNCHANGED <<fw, region, i, rsdp, calls, verified, madt, lapic_ptr, ioapic_ptr>>

GoOn(label) == pc' = label /\ UNCHANGED <<fw, message>>

-----------------------------------------------------------------------------
(* find_rsdp_in_region, called on the EBDA and then on the BIOS area. *)

(* Mutant of InReach: the bound of the loop leaves room for a whole RSDP.  *)
InReach_short(offset) == offset < RegionLength[region] - RsdpLength

InReach(offset) == offset < RegionLength[region] - SignatureLength

MatchRsdp ==
  /\ pc = "search" /\ InReach(i)
  /\ <<region, i>> \in DOMAIN fw.rsdp
  /\ rsdp' = <<region, i>>
  /\ GoOn("rsdp")
  /\ UNCHANGED <<region, i, calls, verified, madt, lapic_ptr, ioapic_ptr>>

PassByte ==
  /\ pc = "search" /\ InReach(i)
  /\ <<region, i>> \notin DOMAIN fw.rsdp
  /\ i' = i + 1
  /\ GoOn("search")
  /\ UNCHANGED <<region, rsdp, calls, verified, madt, lapic_ptr, ioapic_ptr>>

NextRegion ==
  /\ pc = "search" /\ ~ InReach(i)
  /\ \/ /\ region = 1
        /\ region' = 2 /\ i' = 0
        /\ GoOn("search")
        /\ UNCHANGED <<rsdp, calls, verified, madt, lapic_ptr, ioapic_ptr>>
     \/ /\ region = 2
        /\ panic("RSDT not found!")

(* The rest of acpi_find_rsdt, with acpi_verify_rsdp. *)
root == fw.rsdp[rsdp].rsdt_addr

(* What acpi_verify_rsdp and calc_checksum find: the sum of the bytes is a *)
(* multiple of 256.                                                        *)
rsdp_sum_right == fw.rsdp[rsdp].valid
calc_checksum_right(t) == fw.sdt[t].valid

CheckRsdp ==
  /\ pc = "rsdp"
  /\ IF fw.rsdp[rsdp].revision # 0 THEN panic("APIC Version > 1.0 not supported")
     ELSE IF ~ rsdp_sum_right THEN panic("RSDP checksum invalid")
     ELSE /\ calls' = <<[sdt |-> root, next |-> 0]>>
          /\ GoOn("verify")
          /\ UNCHANGED <<region, i, rsdp, verified, madt, lapic_ptr, ioapic_ptr>>

-----------------------------------------------------------------------------
(* acpi_verify_sdt.  A call is at its checksum while next is 0, then at    *)
(* that entry of an RSDT.                                                  *)
Running == calls[Len(calls)]

AtEntry(n) == [calls EXCEPT ![Len(calls)] = [sdt |-> Running.sdt, next |-> n]]

(* Mutant of EntriesOf: the number of entries is one too small. *)
EntriesOf_but_last(t) ==
  IF fw.sdt[t].signature = "RSDT" /\ fw.sdt[t].entries # <<>>
    THEN Front(fw.sdt[t].entries) ELSE <<>>

EntriesOf(t) == IF fw.sdt[t].signature = "RSDT" THEN fw.sdt[t].entries ELSE <<>>

VerifySum ==
  /\ pc = "verify" /\ Running.next = 0
  /\ IF ~ calc_checksum_right(Running.sdt) THEN panic("SDT checksum invalid")
     ELSE /\ verified' = verified \cup {Running.sdt}
          /\ calls' = AtEntry(1)
          /\ GoOn("verify")
          /\ UNCHANGED <<region, i, rsdp, madt, lapic_ptr, ioapic_ptr>>

(* Mutant of VerifyEntry: the loop never gets past an entry. *)
VerifyEntry_stays ==
  /\ pc = "verify" /\ Running.next \in 1 .. Len(EntriesOf(Running.sdt))
  /\ calls' = Append(calls, [sdt |-> EntriesOf(Running.sdt)[Running.next], next |-> 0])
  /\ GoOn("verify")
  /\ UNCHANGED <<region, i, rsdp, verified, madt, lapic_ptr, ioapic_ptr>>

VerifyEntry ==
  /\ pc = "verify" /\ Running.next \in 1 .. Len(EntriesOf(Running.sdt))
  /\ calls' = Append(AtEntry(Running.next + 1),
                     [sdt |-> EntriesOf(Running.sdt)[Running.next], next |-> 0])
  /\ GoOn("verify")
  /\ UNCHANGED <<region, i, rsdp, verified, madt, lapic_ptr, ioapic_ptr>>

VerifyReturn ==
  /\ pc = "verify" /\ Running.next > Len(EntriesOf(Running.sdt))
  /\ calls' = Front(calls)
  /\ i' = 1
  /\ GoOn(IF Len(calls) = 1 THEN "find" ELSE "verify")
  /\ UNCHANGED <<region, rsdp, verified, madt, lapic_ptr, ioapic_ptr>>

-----------------------------------------------------------------------------
(* acpi_find_sdt(rsdt, "APIC"), and what apic_init does with the result. *)
FindMadt ==
  /\ pc = "find"
  /\ \/ /\ i > Len(fw.sdt[root].entries)
        /\ panic("MADT not found!")
     \/ /\ i <= Len(fw.sdt[root].entries)
        /\ LET t == fw.sdt[root].entries[i]
           IN  IF fw.sdt[t].signature = "APIC"
                 THEN /\ madt' = t /\ lapic_ptr' = fw.sdt[t].lapic_addr
                      /\ i' = 1
                      /\ GoOn("walk")
                 ELSE /\ i' = i + 1
                      /\ GoOn("find")
                      /\ UNCHANGED <<madt, lapic_ptr>>
        /\ UNCHANGED <<region, rsdp, calls, verified, ioapic_ptr>>

Devices == fw.sdt[madt].devices

WalkEntry ==
  /\ pc = "walk" /\ i <= Len(Devices)
  /\ ioapic_ptr' = IF Devices[i].type = TYPE_IOAPIC THEN Devices[i].addr ELSE ioapic_ptr
  /\ i' = i + 1
  /\ GoOn("walk")
  /\ UNCHANGED <<region, rsdp, calls, verified, madt, lapic_ptr>>

WalkEnds ==
  /\ pc = "walk" /\ i > Len(Devices)
  /\ IF ioapic_ptr = NULL THEN panic("cannot locate I/O APIC address")
     ELSE IF lapic_ptr = NULL THEN panic("cannot locate Local APIC address")
     ELSE /\ GoOn("ready")
          /\ UNCHANGED <<region, i, rsdp, calls, verified, madt, lapic_ptr, ioapic_ptr>>

-----------------------------------------------------------------------------
Next ==
  \/ MatchRsdp \/ PassByte \/ NextRegion \/ CheckRsdp
  \/ VerifySum \/ VerifyEntry \/ VerifyReturn
  \/ FindMadt \/ WalkEntry \/ WalkEnds

(* Interrupts are off: nothing but these steps runs, and the CPU runs them. *)
Spec == Init /\ [][Next]_vars /\ WF_vars(Next)

-----------------------------------------------------------------------------
Labels == {"search", "rsdp", "verify", "find", "walk", "ready", "panic"}

TypeOK ==
  /\ fw \in Firmwares
  /\ pc \in Labels
  /\ region \in Regions /\ i \in Nat
  /\ rsdp \in {<<>>} \cup DOMAIN fw.rsdp
  /\ calls \in Seq([sdt : DOMAIN fw.sdt, next : Nat])
  /\ verified \subseteq DOMAIN fw.sdt
  /\ madt \in {NULL} \cup DOMAIN fw.sdt
  /\ {lapic_ptr, ioapic_ptr} \subseteq Nat

(* No table is used before its bytes have been summed up: when the search  *)
(* for the MADT begins, the RSDT and every table it lists, and those that  *)
(* an RSDT among them lists, have been verified, though it is a recursion  *)
(* over the tables that does so and a loop of its own that looks for one.  *)
UsesOnlyVerified ==
  pc \in {"find", "walk", "ready"} =>
    /\ fw.rsdp[rsdp].valid
    /\ root \in verified
    /\ \A t \in verified :
         /\ fw.sdt[t].valid
         /\ fw.sdt[t].signature = "RSDT" => ToSet(fw.sdt[t].entries) \subseteq verified
    /\ madt # NULL => madt \in verified

(* What the tables say, without a search: the RSDP at the lowest place of  *)
(* the first region that has one; every table below it sound, one of a set *)
(* of valid tables that holds whatever its RSDTs list; the first MADT it   *)
(* lists; the last I/O APIC of that.  The first thing missing is what the  *)
(* kernel panics about.                                                    *)
IsFirst(p, f) ==
  /\ p \in DOMAIN f.rsdp
  /\ \A q \in DOMAIN f.rsdp : p[1] < q[1] \/ (p[1] = q[1] /\ p[2] <= q[2])

Closed(S, f) ==
  \A t \in S :
    /\ f.sdt[t].valid
    /\ f.sdt[t].signature = "RSDT" => ToSet(f.sdt[t].entries) \subseteq S

Sound(f) == UNION {S \in SUBSET DOMAIN f.sdt : Closed(S, f)}

FirstRsdp(f) == f.rsdp[CHOOSE p \in DOMAIN f.rsdp : IsFirst(p, f)]

Madts(f, rsdt) ==
  {n \in DOMAIN f.sdt[rsdt].entries : f.sdt[f.sdt[rsdt].entries[n]].signature = "APIC"}

Ioapics(f, t) == {n \in DOMAIN f.sdt[t].devices : f.sdt[t].devices[n].type = TYPE_IOAPIC}

Panics(msg) == [message |-> msg, lapic |-> NULL, ioapic |-> NULL]

Verdict(f) ==
  IF DOMAIN f.rsdp = {} THEN Panics("RSDT not found!")
  ELSE
    LET p      == FirstRsdp(f)
        madts  == Madts(f, p.rsdt_addr)
        t      == f.sdt[p.rsdt_addr].entries[Min(madts)]
        lapic  == f.sdt[t].lapic_addr
        ioapic == f.sdt[t].devices[Max(Ioapics(f, t))].addr
    IN  IF p.revision # 0 THEN Panics("APIC Version > 1.0 not supported")
        ELSE IF ~ p.valid THEN Panics("RSDP checksum invalid")
        ELSE IF p.rsdt_addr \notin Sound(f) THEN Panics("SDT checksum invalid")
        ELSE IF madts = {} THEN Panics("MADT not found!")
        ELSE IF Ioapics(f, t) = {} \/ ioapic = NULL
          THEN Panics("cannot locate I/O APIC address")
        ELSE IF lapic = NULL THEN Panics("cannot locate Local APIC address")
        ELSE [message |-> "", lapic |-> lapic, ioapic |-> ioapic]

(* The kernel boots exactly on the machines whose tables allow it, with    *)
(* the addresses they give, and panics on any other with the reason.       *)
DecidesRightly ==
  /\ pc = "ready" =>
       Verdict(fw) = [message |-> message, lapic |-> lapic_ptr, ioapic |-> ioapic_ptr]
  /\ pc = "panic" => Verdict(fw) = Panics(message)

(* The searches, the recursion and the walk end.                           *)
Decides == <>(pc \in {"ready", "panic"})
=============================================================================
