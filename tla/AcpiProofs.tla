----------------------------- MODULE AcpiProofs -----------------------------
(***************************************************************************)
(* Theorems about the search for the ACPI tables, for every set of         *)
(* well-formed layouts and regions of every length.                        *)
(***************************************************************************)
EXTENDS Acpi, SequenceTheorems, TLAPS

(* Facts about the stack of calls. *)
Call(S) == [sdt : S, next : Nat]

LEMMA SetNext ==
  ASSUME NEW S, NEW s \in Seq(Call(S)), s # <<>>, NEW k \in Nat,
         NEW r, r = [s EXCEPT ![Len(s)] = [sdt |-> s[Len(s)].sdt, next |-> k]]
  PROVE  /\ r \in Seq(Call(S))
         /\ Len(s) \in Nat \ {0} /\ Len(r) = Len(s)
         /\ r # <<>>
         /\ \A n \in 1 .. Len(s) : r[n].sdt = s[n].sdt
         /\ \A n \in 1 .. Len(s) - 1 : r[n] = s[n]
         /\ r[Len(s)].next = k
<1> DEFINE t == [sdt |-> s[Len(s)].sdt, next |-> k]
<1>1. Len(s) \in Nat \ {0}
  BY EmptySeq, LenProperties
<1>2. s[Len(s)] \in Call(S)
  BY <1>1, ElementOfSeq
<1>3. t \in Call(S) /\ t.sdt = s[Len(s)].sdt /\ t.next = k
  BY <1>2 DEF Call
<1>4. r = [s EXCEPT ![Len(s)] = t]
  OBVIOUS
<1> HIDE DEF t
<1>5. r \in Seq(Call(S)) /\ Len(r) = Len(s)
      /\ \A n \in 1 .. Len(s) : r[n] = IF n = Len(s) THEN t ELSE s[n]
  BY <1>1, <1>3, <1>4, ExceptSeq
<1>6. r # <<>>
  BY <1>1, <1>5, EmptySeq
<1>7. QED
  BY <1>1, <1>3, <1>5, <1>6

LEMMA Push ==
  ASSUME NEW S, NEW s \in Seq(S), NEW e \in S, NEW r, r = Append(s, e)
  PROVE  /\ r \in Seq(S) /\ r # <<>>
         /\ Len(r) = Len(s) + 1 /\ Len(s) \in Nat
         /\ \A n \in 1 .. Len(s) : r[n] = s[n]
         /\ r[Len(s) + 1] = e
  BY AppendProperties, LenProperties

LEMMA Pop ==
  ASSUME NEW S, NEW s \in Seq(S), s # <<>>, NEW r, r = Front(s)
  PROVE  /\ r \in Seq(S)
         /\ Len(s) \in Nat \ {0} /\ Len(r) = Len(s) - 1
         /\ \A n \in 1 .. Len(s) - 1 : r[n] = s[n]
<1>1. Len(s) \in Nat \ {0}
  BY EmptySeq, LenProperties
<1> DEFINE n == Len(s) - 1
<1>2. n \in Nat /\ \A j \in 1 .. n : s[j] \in S
  BY <1>1, ElementOfSeq
<1>3. r = SubSeq(s, 1, n)
  BY DEF Front
<1> HIDE DEF n
<1>4. n - 1 + 1 = n /\ (IF 1 <= n THEN n - 1 + 1 ELSE 0) = n
      /\ \A j \in 1 .. n : 1 + j - 1 = j
  BY <1>2
<1>5. r \in Seq(S) /\ Len(r) = n /\ \A j \in 1 .. n : r[j] = s[j]
  BY <1>2, <1>3, <1>4, SubSeqProperties
<1>6. QED
  BY <1>1, <1>5 DEF n

-----------------------------------------------------------------------------
(* The inductive invariant.  A table whose sum has been found right is     *)
(* sound, and each table it lists either has been verified, or is waiting  *)
(* for its sum in a call, or will still be reached by the call running on  *)
(* the table that lists it.                                                *)
Accounted(t, k) ==
  \/ EntriesOf(t)[k] \in verified
  \/ \E n \in 1 .. Len(calls) :
       \/ calls[n].sdt = EntriesOf(t)[k] /\ calls[n].next = 0
       \/ calls[n].sdt = t /\ calls[n].next > 0 /\ calls[n].next <= k

Summed ==
  /\ \A n \in 1 .. Len(calls) : calls[n].next > 0 => calls[n].sdt \in verified
  /\ \A t \in verified :
       /\ fw.sdt[t].valid
       /\ \A k \in 1 .. Len(EntriesOf(t)) : Accounted(t, k)

Stages ==
  /\ pc \in {"rsdp", "verify", "find", "walk", "ready"} => rsdp \in DOMAIN fw.rsdp
  /\ pc \in {"verify", "find", "walk", "ready"} => fw.rsdp[rsdp].valid
  /\ pc \in {"search", "rsdp", "verify", "find"} => madt = NULL
  /\ pc \in {"search", "rsdp"} => calls = <<>> /\ verified = {}
  /\ pc = "verify" => calls # <<>> /\ calls[1].sdt = root
  /\ pc \in {"find", "walk", "ready"} => calls = <<>> /\ root \in verified
  /\ pc \in {"find", "walk"} => i >= 1
  /\ pc \in {"walk", "ready"} => madt \in verified

IInv == TypeOK /\ Summed /\ Stages

-----------------------------------------------------------------------------
(* What a well-formed layout gives. *)
LEMMA Layout ==
  ASSUME fw \in Firmwares
  PROVE  /\ WellFormed(fw)
         /\ DOMAIN fw.sdt \subseteq Nat \ {NULL}
         /\ \A p \in DOMAIN fw.rsdp :
              /\ fw.rsdp[p].rsdt_addr \in DOMAIN fw.sdt
              /\ fw.sdt[fw.rsdp[p].rsdt_addr].signature = "RSDT"
         /\ \A t \in DOMAIN fw.sdt :
              /\ fw.sdt[t].entries \in Seq(DOMAIN fw.sdt)
              /\ EntriesOf(t) \in Seq(DOMAIN fw.sdt)
              /\ fw.sdt[t].lapic_addr \in Nat
              /\ fw.sdt[t].devices \in Seq([type : Nat, addr : Nat])
<1>1. WellFormed(fw)
  BY FirmwareAssumption DEF FirmwareAssumption
<1>2. QED
  BY <1>1, EmptySeq DEF WellFormed, EntriesOf

LEMMA InitIInv == Init => IInv
<1> SUFFICES ASSUME Init PROVE IInv
  OBVIOUS
<1>1. calls \in Seq([sdt : DOMAIN fw.sdt, next : Nat]) /\ Len(calls) = 0
  BY EmptySeq DEF Init
<1>2. TypeOK
  <2>1. fw \in Firmwares /\ pc \in Labels /\ region \in Regions /\ i \in Nat
        /\ rsdp \in {<<>>} \cup DOMAIN fw.rsdp
    BY DEF Init, Labels, Regions
  <2>2. verified \subseteq DOMAIN fw.sdt /\ madt \in {NULL} \cup DOMAIN fw.sdt
        /\ {lapic_ptr, ioapic_ptr} \subseteq Nat
    <3>1. verified = {} /\ madt = NULL /\ lapic_ptr = NULL /\ ioapic_ptr = NULL
      BY DEF Init
    <3>2. NULL \in Nat
      BY DEF NULL
    <3>3. QED
      BY <3>1, <3>2
  <2>3. QED
    BY <1>1, <2>1, <2>2 DEF TypeOK
<1>3. Summed
  <2>1. verified = {}
    BY DEF Init
  <2>2. ~ \E n \in 1 .. Len(calls) : TRUE
    BY <1>1
  <2>3. QED
    BY <2>1, <2>2 DEF Summed
<1>4. Stages
  BY DEF Init, Stages
<1>5. QED
  BY <1>2, <1>3, <1>4 DEF IInv

-----------------------------------------------------------------------------
(* Steps that leave the calls and the set of verified tables alone. *)
LEMMA SummedKept ==
  ASSUME Summed, UNCHANGED <<fw, calls, verified>>
  PROVE  Summed'
  BY DEF Summed, Accounted, EntriesOf

LEMMA PanicStep ==
  ASSUME IInv, NEW msg, panic(msg)
  PROVE  IInv'
<1>1. TypeOK'
  BY DEF IInv, TypeOK, Labels, panic
<1>2. Summed'
  BY SummedKept DEF IInv, panic
<1>3. Stages'
  BY DEF Stages, panic
<1>4. QED
  BY <1>1, <1>2, <1>3 DEF IInv

LEMMA SearchStep ==
  ASSUME IInv, MatchRsdp \/ PassByte \/ NextRegion
  PROVE  IInv'
<1>1. CASE MatchRsdp
  <2>1. TypeOK'
    BY <1>1 DEF IInv, TypeOK, Labels, MatchRsdp, GoOn
  <2>2. Summed'
    BY <1>1, SummedKept DEF IInv, MatchRsdp, GoOn
  <2>3. Stages'
    BY <1>1 DEF IInv, Stages, MatchRsdp, GoOn
  <2>4. QED
    BY <2>1, <2>2, <2>3 DEF IInv
<1>2. CASE PassByte
  <2>1. TypeOK'
    BY <1>2 DEF IInv, TypeOK, Labels, PassByte, GoOn
  <2>2. Summed'
    BY <1>2, SummedKept DEF IInv, PassByte, GoOn
  <2>3. Stages'
    BY <1>2 DEF IInv, Stages, PassByte, GoOn
  <2>4. QED
    BY <2>1, <2>2, <2>3 DEF IInv
<1>3. CASE NextRegion
  <2>1. CASE panic("RSDT not found!")
    BY <2>1, PanicStep
  <2>2. CASE ~ panic("RSDT not found!")
    <3>1. /\ pc = "search" /\ region' = 2 /\ i' = 0 /\ pc' = "search"
          /\ UNCHANGED <<fw, message, rsdp, calls, verified, madt, lapic_ptr, ioapic_ptr>>
      BY <1>3, <2>2 DEF NextRegion, GoOn
    <3>2. TypeOK'
      BY <3>1 DEF IInv, TypeOK, Labels, Regions
    <3>3. Summed'
      BY <3>1, SummedKept DEF IInv
    <3>4. Stages'
      BY <3>1 DEF IInv, Stages
    <3>5. QED
      BY <3>2, <3>3, <3>4 DEF IInv
  <2>3. QED
    BY <2>1, <2>2
<1>4. QED
  BY <1>1, <1>2, <1>3

(* The RSDP is accepted: the verification begins with the RSDT. *)
LEMMA RsdpStep ==
  ASSUME IInv, CheckRsdp
  PROVE  IInv'
<1>1. CASE fw.rsdp[rsdp].revision # 0
  BY <1>1, PanicStep DEF CheckRsdp, rsdp_sum_right
<1>2. CASE fw.rsdp[rsdp].revision = 0 /\ ~ fw.rsdp[rsdp].valid
  BY <1>2, PanicStep DEF CheckRsdp, rsdp_sum_right
<1>3. CASE fw.rsdp[rsdp].revision = 0 /\ fw.rsdp[rsdp].valid
  <2>1. /\ pc = "rsdp" /\ pc' = "verify"
        /\ calls' = <<[sdt |-> root, next |-> 0]>>
        /\ UNCHANGED <<fw, message, region, i, rsdp, verified, madt, lapic_ptr, ioapic_ptr>>
    BY <1>3 DEF CheckRsdp, GoOn, rsdp_sum_right
  <2>2. rsdp \in DOMAIN fw.rsdp /\ verified = {} /\ root \in DOMAIN fw.sdt
    BY <2>1, Layout DEF IInv, TypeOK, Stages, root
  <2>3. root' = root
    BY <2>1 DEF root
  <2>4. [sdt |-> root, next |-> 0] \in [sdt : DOMAIN fw.sdt, next : Nat]
    BY <2>2
  <2>5. /\ calls' \in Seq([sdt : DOMAIN fw.sdt, next : Nat]) /\ Len(calls') = 1
        /\ calls'[1] = [sdt |-> root, next |-> 0] /\ calls' # <<>>
    BY <2>1, <2>4
  <2>6. calls'[1].sdt = root /\ calls'[1].next = 0
    BY <2>5
  <2>7. TypeOK'
    BY <2>1, <2>5 DEF IInv, TypeOK, Labels
  <2>8. Summed'
    BY <2>1, <2>2, <2>5, <2>6 DEF Summed
  <2>9. Stages'
    BY <1>3, <2>1, <2>2, <2>3, <2>5, <2>6 DEF IInv, Stages
  <2>10. QED
    BY <2>7, <2>8, <2>9 DEF IInv
<1>4. QED
  BY <1>1, <1>2, <1>3

-----------------------------------------------------------------------------
(* A right sum: the table joins the verified ones, and its call, now at    *)
(* the first entry, accounts for all of them.                              *)
LEMMA SumStep ==
  ASSUME IInv, VerifySum
  PROVE  IInv'
<1>1. CASE ~ fw.sdt[Running.sdt].valid
  BY <1>1, PanicStep DEF VerifySum, calc_checksum_right
<1>2. CASE fw.sdt[Running.sdt].valid
  <2> DEFINE S == DOMAIN fw.sdt
             l == Len(calls)
             T == calls[l].sdt
  <2>1. /\ pc = "verify" /\ pc' = "verify"
        /\ calls[l].next = 0 /\ fw.sdt[T].valid
        /\ verified' = verified \cup {T}
        /\ calls' = [calls EXCEPT ![Len(calls)] = [sdt |-> calls[Len(calls)].sdt, next |-> 1]]
        /\ UNCHANGED <<fw, message, region, i, rsdp, madt, lapic_ptr, ioapic_ptr>>
    BY <1>2 DEF VerifySum, GoOn, Running, AtEntry, calc_checksum_right
  <2>2. calls \in Seq(Call(S)) /\ calls # <<>> /\ calls[1].sdt = root
    BY <2>1 DEF IInv, TypeOK, Stages, Call
  <2>3. /\ calls' \in Seq(Call(S)) /\ calls' # <<>>
        /\ l \in Nat \ {0} /\ Len(calls') = l
        /\ \A n \in 1 .. l : calls'[n].sdt = calls[n].sdt
        /\ \A n \in 1 .. l - 1 : calls'[n] = calls[n]
        /\ calls'[l].next = 1
    BY <2>1, <2>2, SetNext
  <2>4. T \in S
    <3>1. l \in 1 .. Len(calls)
      BY <2>3
    <3>2. calls[l] \in Call(S)
      BY <3>1, <2>2, ElementOfSeq
    <3>3. QED
      BY <3>2 DEF Call
  <2>5. TypeOK'
    BY <2>1, <2>3, <2>4 DEF IInv, TypeOK, Labels, Call
  <2> HIDE DEF S, T, l
  <2>6. \A n \in 1 .. Len(calls') : calls'[n].next > 0 => calls'[n].sdt \in verified'
    <3> SUFFICES ASSUME NEW n \in 1 .. Len(calls'), calls'[n].next > 0
                 PROVE  calls'[n].sdt \in verified'
      OBVIOUS
    <3>1. CASE n = l
      BY <3>1, <2>1, <2>3 DEF T
    <3>2. CASE n # l
      <4>1. n \in 1 .. l - 1 /\ n \in 1 .. Len(calls)
        BY <3>2, <2>3 DEF l
      <4>2. calls[n].next > 0
        BY <4>1, <2>3
      <4>3. calls[n].sdt \in verified
        BY <4>1, <4>2 DEF IInv, Summed
      <4>4. QED
        BY <4>1, <4>3, <2>1, <2>3
    <3>3. QED
      BY <3>1, <3>2
  <2>7. ASSUME NEW t \in verified'
        PROVE  /\ fw'.sdt[t].valid
               /\ \A k \in 1 .. Len(EntriesOf(t)') : Accounted(t, k)'
    <3>1. EntriesOf(t)' = EntriesOf(t)
      BY <2>1 DEF EntriesOf
    <3>2. fw'.sdt[t].valid
      BY <2>1, <2>7 DEF IInv, Summed
    <3>3. ASSUME NEW k \in 1 .. Len(EntriesOf(t)) PROVE Accounted(t, k)'
      <4> DEFINE e == EntriesOf(t)[k]
      <4>1. SUFFICES \/ e \in verified'
                     \/ \E n \in 1 .. l :
                          \/ calls'[n].sdt = e /\ calls'[n].next = 0
                          \/ calls'[n].sdt = t /\ calls'[n].next > 0 /\ calls'[n].next <= k
        BY <3>1, <2>3 DEF Accounted
      <4>2. CASE t = T
        <5>1. Len(EntriesOf(t)) \in Nat
          BY <4>2, <2>4, Layout, LenProperties DEF IInv, TypeOK, S
        <5>2. 1 <= k
          BY <3>3, <5>1
        <5>3. l \in 1 .. l /\ calls'[l].sdt = T
          BY <2>3 DEF T
        <5>4. QED
          BY <4>2, <5>2, <5>3, <2>3
      <4>3. CASE t # T
        <5>1. t \in verified
          BY <4>3, <2>1, <2>7
        <5>2. Accounted(t, k)
          BY <5>1, <3>3 DEF IInv, Summed
        <5>3. CASE e \in verified
          BY <5>3, <2>1
        <5>4. ASSUME NEW n \in 1 .. l, calls[n].sdt = e, calls[n].next = 0
              PROVE  e \in verified' \/ (calls'[n].sdt = e /\ calls'[n].next = 0)
          <6>1. CASE n = l
            BY <6>1, <5>4, <2>1 DEF T
          <6>2. CASE n # l
            <7>1. n \in 1 .. l - 1
              BY <6>2, <2>3
            <7>2. QED
              BY <7>1, <5>4, <2>3
          <6>3. QED
            BY <6>1, <6>2
        <5>5. ASSUME NEW n \in 1 .. l, calls[n].sdt = t, calls[n].next > 0,
                     calls[n].next <= k
              PROVE  calls'[n] = calls[n]
          <6>1. n # l
            BY <5>5, <2>1
          <6>2. n \in 1 .. l - 1
            BY <6>1, <2>3
          <6>3. QED
            BY <6>2, <2>3
        <5>6. QED
          BY <5>2, <5>3, <5>4, <5>5 DEF Accounted, l
      <4>4. QED
        BY <4>2, <4>3
    <3>4. QED
      BY <3>1, <3>2, <3>3
  <2>8. Summed'
    BY <2>6, <2>7 DEF Summed
  <2>9. Stages'
    <3>1. 1 \in 1 .. l /\ root' = root
      BY <2>1, <2>3 DEF root
    <3>2. QED
      BY <3>1, <2>1, <2>2, <2>3 DEF IInv, Stages
  <2>10. QED
    BY <2>5, <2>8, <2>9 DEF IInv
<1>3. QED
  BY <1>1, <1>2

(* The next entry: the calling loop steps past it, the new call holds it. *)
LEMMA EntryStep ==
  ASSUME IInv, VerifyEntry
  PROVE  IInv'
<1> DEFINE S == DOMAIN fw.sdt
           l == Len(calls)
           T == calls[l].sdt
           m == calls[l].next
           r == [calls EXCEPT ![Len(calls)] = [sdt |-> calls[Len(calls)].sdt, next |-> m + 1]]
           e == [sdt |-> EntriesOf(T)[m], next |-> 0]
<1>1. /\ pc = "verify" /\ pc' = "verify"
      /\ m \in 1 .. Len(EntriesOf(T))
      /\ calls' = Append(r, e)
      /\ UNCHANGED <<fw, message, region, i, rsdp, verified, madt, lapic_ptr, ioapic_ptr>>
  BY DEF VerifyEntry, GoOn, Running, AtEntry
<1>2. calls \in Seq(Call(S)) /\ calls # <<>> /\ calls[1].sdt = root
  BY <1>1 DEF IInv, TypeOK, Stages, Call
<1>3. l \in 1 .. Len(calls) /\ l \in Nat \ {0}
  BY <1>2, EmptySeq, LenProperties
<1>4. T \in S /\ m \in Nat
  <2>1. calls[l] \in Call(S)
    BY <1>2, <1>3, ElementOfSeq
  <2>2. QED
    BY <2>1 DEF Call
<1>5. /\ r \in Seq(Call(S)) /\ Len(r) = l
      /\ \A n \in 1 .. l : r[n].sdt = calls[n].sdt
      /\ \A n \in 1 .. l - 1 : r[n] = calls[n]
      /\ r[l].next = m + 1
  <2> DEFINE k == m + 1
  <2>1. k \in Nat
    BY <1>4
  <2>2. r = [calls EXCEPT ![Len(calls)] = [sdt |-> calls[Len(calls)].sdt, next |-> k]]
    OBVIOUS
  <2> HIDE DEF k, m, S, T, r
  <2>3. /\ r \in Seq(Call(S)) /\ Len(r) = Len(calls)
        /\ \A n \in 1 .. Len(calls) : r[n].sdt = calls[n].sdt
        /\ \A n \in 1 .. Len(calls) - 1 : r[n] = calls[n]
        /\ r[Len(calls)].next = k
    BY <2>1, <2>2, <1>2, SetNext
  <2>4. QED
    BY <2>3 DEF k
<1>6. e \in Call(S) /\ e.sdt = EntriesOf(T)[m] /\ e.next = 0
  <2>1. EntriesOf(T) \in Seq(S)
    BY <1>4, Layout DEF IInv, TypeOK
  <2>2. EntriesOf(T)[m] \in S
    BY <1>1, <2>1, ElementOfSeq
  <2>3. QED
    BY <2>2 DEF Call
<1> HIDE DEF S, l, T, m, r, e
<1>7. /\ calls' \in Seq(Call(S)) /\ calls' # <<>>
      /\ Len(calls') = l + 1
      /\ \A n \in 1 .. l : calls'[n] = r[n]
      /\ calls'[l + 1] = e
  BY <1>1, <1>5, <1>6, Push
<1>8. /\ \A n \in 1 .. l - 1 : calls'[n] = calls[n]
      /\ calls'[l].sdt = T /\ calls'[l].next = m + 1
      /\ l \in 1 .. l + 1 /\ l + 1 \in 1 .. l + 1
      /\ \A n \in 1 .. l - 1 : n \in 1 .. l + 1
      /\ l \in 1 .. l /\ calls[l].next = m /\ calls[l].sdt = T
  BY <1>3, <1>5, <1>7 DEF T, m
<1>9. TypeOK'
  BY <1>1, <1>7 DEF IInv, TypeOK, Labels, Call, S
<1>10. \A n \in 1 .. Len(calls') : calls'[n].next > 0 => calls'[n].sdt \in verified'
  <2> SUFFICES ASSUME NEW n \in 1 .. l + 1, calls'[n].next > 0
               PROVE  calls'[n].sdt \in verified
    BY <1>1, <1>7
  <2>1. CASE n = l + 1
    BY <2>1, <1>6, <1>7
  <2>2. CASE n = l
    <3>1. m > 0
      BY <1>1, <1>4, Layout, LenProperties DEF IInv, TypeOK, S
    <3>2. T \in verified
      BY <3>1, <1>3, <1>8 DEF IInv, Summed
    <3>3. QED
      BY <2>2, <3>2, <1>8
  <2>3. CASE n \in 1 .. l - 1
    <3>1. n \in 1 .. Len(calls) /\ calls'[n] = calls[n]
      BY <2>3, <1>3, <1>8 DEF l
    <3>2. QED
      BY <3>1 DEF IInv, Summed
  <2>4. QED
    BY <1>3, <2>1, <2>2, <2>3
<1>11. ASSUME NEW t \in verified'
       PROVE  /\ fw'.sdt[t].valid
              /\ \A k \in 1 .. Len(EntriesOf(t)') : Accounted(t, k)'
  <2>1. EntriesOf(t)' = EntriesOf(t)
    BY <1>1 DEF EntriesOf
  <2>2. t \in verified /\ fw'.sdt[t].valid
    BY <1>1, <1>11 DEF IInv, Summed
  <2>3. ASSUME NEW k \in 1 .. Len(EntriesOf(t)) PROVE Accounted(t, k)'
    <3> DEFINE d == EntriesOf(t)[k]
    <3>1. SUFFICES \/ d \in verified'
                   \/ \E n \in 1 .. l + 1 :
                        \/ calls'[n].sdt = d /\ calls'[n].next = 0
                        \/ calls'[n].sdt = t /\ calls'[n].next > 0 /\ calls'[n].next <= k
      BY <2>1, <1>7 DEF Accounted
    <3>2. Accounted(t, k)
      BY <2>2, <2>3 DEF IInv, Summed
    <3>3. m > 0
      BY <1>1, <1>4, Layout, LenProperties DEF IInv, TypeOK, S
    <3>4. k \in Nat
      <4>1. t \in S
        BY <2>2 DEF IInv, TypeOK, S
      <4>2. Len(EntriesOf(t)) \in Nat
        BY <4>1, Layout, LenProperties DEF IInv, TypeOK, S
      <4>3. QED
        BY <4>2
    <3>5. CASE d \in verified
      BY <3>5, <1>1
    <3>6. ASSUME NEW n \in 1 .. l, calls[n].sdt = d, calls[n].next = 0
          PROVE  calls'[n] = calls[n] /\ n \in 1 .. l + 1
      <4>1. n # l
        BY <3>3, <3>6, <1>8
      <4>2. n \in 1 .. l - 1
        BY <4>1, <1>3
      <4>3. QED
        BY <4>2, <1>8
    <3>7. ASSUME NEW n \in 1 .. l, calls[n].sdt = t, calls[n].next > 0,
                 calls[n].next <= k
          PROVE  \E j \in 1 .. l + 1 :
                   \/ calls'[j].sdt = d /\ calls'[j].next = 0
                   \/ calls'[j].sdt = t /\ calls'[j].next > 0 /\ calls'[j].next <= k
      <4>1. CASE n # l
        <5>1. n \in 1 .. l - 1
          BY <4>1, <1>3
        <5>2. QED
          BY <5>1, <3>7, <1>8
      <4>2. CASE n = l /\ k = m
        <5>1. t = T /\ e.sdt = d
          BY <4>2, <3>7, <1>6, <1>8
        <5>2. QED
          BY <5>1, <1>6, <1>7, <1>8
      <4>3. CASE n = l /\ k # m
        <5>1. t = T /\ m + 1 > 0 /\ m + 1 <= k
          BY <4>3, <3>4, <3>7, <1>4, <1>8
        <5>2. QED
          BY <5>1, <1>8
      <4>4. QED
        BY <4>1, <4>2, <4>3
    <3>8. QED
      BY <3>2, <3>5, <3>6, <3>7 DEF Accounted, l
  <2>4. QED
    BY <2>1, <2>2, <2>3
<1>12. Summed'
  BY <1>10, <1>11 DEF Summed
<1>13. Stages'
  <2>1. calls'[1].sdt = calls[1].sdt
    <3>1. CASE l = 1
      BY <3>1, <1>8
    <3>2. CASE l # 1
      <4>1. 1 \in 1 .. l - 1
        BY <3>2, <1>3
      <4>2. QED
        BY <4>1, <1>8
    <3>3. QED
      BY <3>1, <3>2
  <2>2. root' = root
    BY <1>1 DEF root
  <2>3. QED
    BY <2>1, <2>2, <1>1, <1>2, <1>7 DEF IInv, Stages
<1>14. QED
  BY <1>9, <1>12, <1>13 DEF IInv

(* A call returns past its last entry: nothing was left to it. *)
LEMMA ReturnStep ==
  ASSUME IInv, VerifyReturn
  PROVE  IInv'
<1> DEFINE S == DOMAIN fw.sdt
           l == Len(calls)
           T == calls[l].sdt
           m == calls[l].next
<1>1. /\ pc = "verify" /\ m > Len(EntriesOf(T))
      /\ calls' = Front(calls) /\ i' = 1
      /\ pc' = IF l = 1 THEN "find" ELSE "verify"
      /\ UNCHANGED <<fw, message, region, rsdp, verified, madt, lapic_ptr, ioapic_ptr>>
  BY DEF VerifyReturn, GoOn, Running
<1>2. calls \in Seq(Call(S)) /\ calls # <<>> /\ calls[1].sdt = root
  BY <1>1 DEF IInv, TypeOK, Stages, Call
<1>3. l \in 1 .. Len(calls) /\ l \in Nat \ {0}
  BY <1>2, EmptySeq, LenProperties
<1>4. T \in S /\ m \in Nat
  <2>1. calls[l] \in Call(S)
    BY <1>2, <1>3, ElementOfSeq
  <2>2. QED
    BY <2>1 DEF Call
<1>5. m > 0 /\ T \in verified
  <2>1. Len(EntriesOf(T)) \in Nat
    BY <1>4, Layout, LenProperties DEF IInv, TypeOK
  <2>2. m > 0
    BY <2>1, <1>1, <1>4
  <2>3. QED
    BY <2>2, <1>3 DEF IInv, Summed
<1>6. /\ calls' \in Seq(Call(S)) /\ Len(calls') = l - 1
      /\ \A n \in 1 .. l - 1 : calls'[n] = calls[n]
  BY <1>1, <1>2, Pop
<1>7. calls[l].next = m /\ calls[l].sdt = T
  OBVIOUS
<1> HIDE DEF S, T, m
<1>8. TypeOK'
  BY <1>1, <1>6 DEF IInv, TypeOK, Labels, Call, S
<1>9. \A n \in 1 .. Len(calls') : calls'[n].next > 0 => calls'[n].sdt \in verified'
  BY <1>1, <1>3, <1>6 DEF IInv, Summed
<1>10. ASSUME NEW t \in verified'
       PROVE  /\ fw'.sdt[t].valid
              /\ \A k \in 1 .. Len(EntriesOf(t)') : Accounted(t, k)'
  <2>1. EntriesOf(t)' = EntriesOf(t)
    BY <1>1 DEF EntriesOf
  <2>2. t \in verified /\ fw'.sdt[t].valid
    BY <1>1, <1>10 DEF IInv, Summed
  <2>3. Len(EntriesOf(t)) \in Nat
    BY <2>2, Layout, LenProperties DEF IInv, TypeOK
  <2>4. ASSUME NEW k \in 1 .. Len(EntriesOf(t)) PROVE Accounted(t, k)'
    <3> DEFINE d == EntriesOf(t)[k]
    <3>1. SUFFICES \/ d \in verified
                   \/ \E n \in 1 .. l - 1 :
                        \/ calls[n].sdt = d /\ calls[n].next = 0
                        \/ calls[n].sdt = t /\ calls[n].next > 0 /\ calls[n].next <= k
      BY <2>1, <1>1, <1>6 DEF Accounted
    <3>2. Accounted(t, k)
      BY <2>2, <2>4 DEF IInv, Summed
    <3>3. ~ (calls[l].sdt = d /\ calls[l].next = 0)
      BY <1>4, <1>5, <1>7
    <3>4. ~ (calls[l].sdt = t /\ calls[l].next > 0 /\ calls[l].next <= k)
      BY <1>1, <1>4, <1>7, <2>3
    <3>5. \A n \in 1 .. l : n = l \/ n \in 1 .. l - 1
      BY <1>3
    <3>6. QED
      BY <3>2, <3>3, <3>4, <3>5 DEF Accounted, l
  <2>5. QED
    BY <2>1, <2>2, <2>4
<1>11. Summed'
  BY <1>9, <1>10 DEF Summed
<1>12. Stages'
  <2>1. root' = root
    BY <1>1 DEF root
  <2>2. CASE l = 1
    <3>1. pc' = "find" /\ Len(calls') = 0
      BY <2>2, <1>1, <1>6
    <3>2. calls' = <<>>
      BY <3>1, <1>6, EmptySeq
    <3>3. root \in verified
      BY <2>2, <1>2, <1>5 DEF T
    <3>4. QED
      BY <3>1, <3>2, <3>3, <2>1, <1>1 DEF IInv, Stages
  <2>3. CASE l # 1
    <3>1. pc' = "verify" /\ 1 \in 1 .. l - 1 /\ Len(calls') # 0
      BY <2>3, <1>1, <1>3, <1>6
    <3>2. calls' # <<>> /\ calls'[1].sdt = root
      BY <3>1, <1>2, <1>6, EmptySeq
    <3>3. QED
      BY <3>1, <3>2, <2>1, <1>1 DEF IInv, Stages
  <2>4. QED
    BY <2>2, <2>3
<1>13. QED
  BY <1>8, <1>11, <1>12 DEF IInv

(* With no call left, every entry of a verified table is verified. *)
LEMMA AllVerified ==
  ASSUME IInv, calls = <<>>, NEW t \in verified, NEW k \in 1 .. Len(EntriesOf(t))
  PROVE  EntriesOf(t)[k] \in verified
<1>1. Len(calls) = 0
  BY EmptySeq DEF IInv, TypeOK
<1>2. ~ \E n \in 1 .. Len(calls) : TRUE
  BY <1>1
<1>3. QED
  BY <1>2 DEF IInv, Summed, Accounted

LEMMA FindStep ==
  ASSUME IInv, FindMadt
  PROVE  IInv'
<1> DEFINE t == fw.sdt[root].entries[i]
<1>1. pc = "find" /\ calls = <<>> /\ root \in verified /\ i >= 1 /\ i \in Nat
      /\ madt = NULL /\ rsdp \in DOMAIN fw.rsdp /\ fw.rsdp[rsdp].valid
  BY DEF FindMadt, IInv, TypeOK, Stages
<1>2. CASE panic("MADT not found!")
  BY <1>2, PanicStep
<1>3. CASE ~ panic("MADT not found!")
  <2>1. /\ i <= Len(fw.sdt[root].entries)
        /\ UNCHANGED <<fw, message, region, rsdp, calls, verified, ioapic_ptr>>
        /\ \/ fw.sdt[t].signature = "APIC" /\ madt' = t /\ lapic_ptr' = fw.sdt[t].lapic_addr
              /\ i' = 1 /\ pc' = "walk"
           \/ i' = i + 1 /\ pc' = "find" /\ UNCHANGED <<madt, lapic_ptr>>
    BY <1>3 DEF FindMadt, GoOn
  <2>2. root \in DOMAIN fw.sdt /\ fw.sdt[root].signature = "RSDT"
    BY <1>1, Layout DEF IInv, TypeOK, root
  <2>3. EntriesOf(root) = fw.sdt[root].entries /\ EntriesOf(root) \in Seq(DOMAIN fw.sdt)
    BY <2>2, Layout DEF IInv, TypeOK, EntriesOf
  <2>4. i \in 1 .. Len(EntriesOf(root))
    BY <1>1, <2>1, <2>3, LenProperties
  <2>5. t \in verified
    BY <1>1, <2>3, <2>4, AllVerified
  <2>6. t \in DOMAIN fw.sdt
    BY <2>5 DEF IInv, TypeOK
  <2>7. fw.sdt[t].lapic_addr \in Nat
    BY <2>6, Layout DEF IInv, TypeOK
  <2> HIDE DEF t
  <2>8. TypeOK'
    BY <2>1, <2>6, <2>7, <1>1 DEF IInv, TypeOK, Labels
  <2>9. Summed'
    BY <2>1, SummedKept DEF IInv
  <2>10. Stages'
    <3>1. root' = root
      BY <2>1 DEF root
    <3>2. CASE pc' = "walk"
      BY <3>1, <3>2, <2>1, <2>5, <1>1 DEF IInv, Stages
    <3>3. CASE pc' = "find"
      <4>1. i' >= 1 /\ UNCHANGED madt
        BY <3>3, <2>1, <1>1
      <4>2. QED
        BY <3>1, <3>3, <4>1, <2>1, <1>1 DEF Stages
    <3>4. QED
      BY <3>2, <3>3, <2>1
  <2>11. QED
    BY <2>8, <2>9, <2>10 DEF IInv
<1>4. QED
  BY <1>2, <1>3

LEMMA WalkStep ==
  ASSUME IInv, WalkEntry \/ WalkEnds
  PROVE  IInv'
<1>1. pc = "walk" /\ calls = <<>> /\ root \in verified /\ madt \in verified
      /\ i >= 1 /\ i \in Nat /\ rsdp \in DOMAIN fw.rsdp /\ fw.rsdp[rsdp].valid
  BY DEF WalkEntry, WalkEnds, IInv, TypeOK, Stages
<1>2. CASE WalkEntry
  <2>1. /\ i <= Len(Devices) /\ i' = i + 1 /\ pc' = "walk"
        /\ ioapic_ptr' = IF Devices[i].type = TYPE_IOAPIC THEN Devices[i].addr ELSE ioapic_ptr
        /\ UNCHANGED <<fw, message, region, rsdp, calls, verified, madt, lapic_ptr>>
    BY <1>2 DEF WalkEntry, GoOn
  <2>2. Devices \in Seq([type : Nat, addr : Nat])
    BY <1>1, Layout DEF IInv, TypeOK, Devices
  <2>3. i \in 1 .. Len(Devices)
    BY <1>1, <2>1, <2>2, LenProperties
  <2>4. Devices[i] \in [type : Nat, addr : Nat]
    BY <2>2, <2>3, ElementOfSeq
  <2>5. ioapic_ptr' \in Nat
    BY <2>1, <2>4 DEF IInv, TypeOK
  <2>6. TypeOK'
    BY <2>1, <2>5, <1>1 DEF IInv, TypeOK, Labels
  <2>7. Summed'
    BY <2>1, SummedKept DEF IInv
  <2>8. Stages'
    BY <1>1, <2>1 DEF Stages, root
  <2>9. QED
    BY <2>6, <2>7, <2>8 DEF IInv
<1>3. CASE WalkEnds /\ \E msg : panic(msg)
  BY <1>3, PanicStep
<1>4. CASE WalkEnds /\ ~ \E msg : panic(msg)
  <2>1. pc' = "ready"
        /\ UNCHANGED <<fw, message, region, i, rsdp, calls, verified, madt, lapic_ptr, ioapic_ptr>>
    BY <1>4 DEF WalkEnds, GoOn
  <2>2. TypeOK'
    BY <2>1 DEF IInv, TypeOK, Labels
  <2>3. Summed'
    BY <2>1, SummedKept DEF IInv
  <2>4. Stages'
    BY <1>1, <2>1 DEF Stages, root
  <2>5. QED
    BY <2>2, <2>3, <2>4 DEF IInv
<1>5. QED
  BY <1>2, <1>3, <1>4

-----------------------------------------------------------------------------
LEMMA Inductive == Spec => []IInv
<1>1. ASSUME IInv, [Next]_vars PROVE IInv'
  <2>1. CASE UNCHANGED vars
    <3>1. TypeOK'
      BY <1>1, <2>1 DEF IInv, TypeOK, vars
    <3>2. Summed'
      BY <1>1, <2>1, SummedKept DEF IInv, vars
    <3>3. Stages'
      BY <1>1, <2>1 DEF IInv, Stages, root, vars
    <3>4. QED
      BY <3>1, <3>2, <3>3 DEF IInv
  <2>2. QED
    BY <1>1, <2>1, SearchStep, RsdpStep, SumStep, EntryStep, ReturnStep, FindStep,
       WalkStep DEF Next
<1>2. QED
  BY InitIInv, <1>1, PTL DEF Spec

(* Every variable keeps its type, whatever the layout: TypeOK of the run   *)
(* acpi.                                                                   *)
THEOREM TypeCorrect == Spec => []TypeOK
<1>1. IInv => TypeOK
  BY DEF IInv
<1>2. QED
  BY <1>1, Inductive, PTL

(* With no call left, the verified tables are a closed set: each is valid  *)
(* and what it lists is verified.                                          *)
LEMMA VerifiedClosed ==
  ASSUME IInv, calls = <<>>
  PROVE  Closed(verified, fw)
<1> SUFFICES ASSUME NEW t \in verified
             PROVE  /\ fw.sdt[t].valid
                    /\ fw.sdt[t].signature = "RSDT" => ToSet(fw.sdt[t].entries) \subseteq verified
  BY Zenon DEF Closed
<1>1. fw.sdt[t].valid /\ t \in DOMAIN fw.sdt
  BY DEF IInv, Summed, TypeOK
<1>2. ASSUME fw.sdt[t].signature = "RSDT"
      PROVE  ToSet(fw.sdt[t].entries) \subseteq verified
  <2>1. EntriesOf(t) = fw.sdt[t].entries /\ EntriesOf(t) \in Seq(DOMAIN fw.sdt)
    BY <1>1, <1>2, Layout DEF IInv, TypeOK, EntriesOf
  <2>2. DOMAIN EntriesOf(t) = 1 .. Len(EntriesOf(t))
    BY <2>1, LenProperties
  <2>3. QED
    BY <2>1, <2>2, AllVerified DEF ToSet
<1>3. QED
  BY <1>1, <1>2

(* The kernel uses no table whose bytes it has not summed up, though one   *)
(* recursion verifies and another loop finds: UsesOnlyVerified.            *)
THEOREM TablesVerified == Spec => []UsesOnlyVerified
<1>1. ASSUME IInv PROVE UsesOnlyVerified
  <2> SUFFICES ASSUME pc \in {"find", "walk", "ready"}
               PROVE  /\ fw.rsdp[rsdp].valid
                      /\ root \in verified
                      /\ \A t \in verified :
                           /\ fw.sdt[t].valid
                           /\ fw.sdt[t].signature = "RSDT" =>
                                ToSet(fw.sdt[t].entries) \subseteq verified
                      /\ madt # NULL => madt \in verified
    BY DEF UsesOnlyVerified
  <2>1. calls = <<>> /\ fw.rsdp[rsdp].valid /\ root \in verified
        /\ (madt # NULL => madt \in verified)
    BY <1>1 DEF IInv, Stages
  <2>2. QED
    BY <1>1, <2>1, VerifiedClosed, Zenon DEF Closed
<1>2. QED
  BY <1>1, Inductive, PTL

-----------------------------------------------------------------------------
(* What the tables say, once the first RSDP, the first MADT and the last   *)
(* I/O APIC are known.                                                     *)
LEMMA FirstIs ==
  ASSUME fw \in Firmwares, IsFirst(rsdp, fw)
  PROVE  FirstRsdp(fw) = fw.rsdp[rsdp]
<1>1. DOMAIN fw.rsdp \subseteq Regions \X Nat
  BY Layout DEF WellFormed
<1>2. ASSUME NEW p \in DOMAIN fw.rsdp, IsFirst(p, fw)
      PROVE  p = rsdp
  <2>1. rsdp \in DOMAIN fw.rsdp /\ rsdp \in Regions \X Nat /\ p \in Regions \X Nat
    BY <1>1 DEF IsFirst
  <2>2. /\ p[1] \in Nat /\ p[2] \in Nat /\ rsdp[1] \in Nat /\ rsdp[2] \in Nat
        /\ p = <<p[1], p[2]>> /\ rsdp = <<rsdp[1], rsdp[2]>>
    BY <2>1 DEF Regions
  <2>3. /\ p[1] < rsdp[1] \/ (p[1] = rsdp[1] /\ p[2] <= rsdp[2])
        /\ rsdp[1] < p[1] \/ (rsdp[1] = p[1] /\ rsdp[2] <= p[2])
    BY <1>2, <2>1 DEF IsFirst
  <2>4. p[1] = rsdp[1] /\ p[2] = rsdp[2]
    BY <2>2, <2>3
  <2>5. QED
    BY <2>2, <2>4, Zenon
<1>3. (CHOOSE p \in DOMAIN fw.rsdp : IsFirst(p, fw)) = rsdp
  <2>1. rsdp \in DOMAIN fw.rsdp
    BY DEF IsFirst
  <2>2. QED
    BY <1>2, <2>1, Zenon
<1>4. QED
  BY <1>3, Zenon DEF FirstRsdp

LEMMA LeastIs ==
  ASSUME NEW S \in SUBSET Nat, NEW m \in S, \A n \in S : m <= n
  PROVE  Min(S) = m
<1>1. ASSUME NEW x \in S, \A n \in S : x <= n PROVE x = m
  BY <1>1
<1>2. QED
  BY <1>1 DEF Min

LEMMA GreatestIs ==
  ASSUME NEW S \in SUBSET Nat, NEW m \in S, \A n \in S : n <= m
  PROVE  Max(S) = m
<1>1. ASSUME NEW x \in S, \A n \in S : n <= x PROVE x = m
  BY <1>1
<1>2. QED
  BY <1>1 DEF Max

Passed(k) == {n \in Ioapics(fw, madt) : n < k}

(* The last I/O APIC among the first entries of the MADT.                  *)
LastPassed(k) ==
  \/ Passed(k) = {} /\ ioapic_ptr = NULL
  \/ \E m \in Passed(k) : ioapic_ptr = Devices[m].addr /\ \A n \in Passed(k) : n <= m

LEMMA VerdictEarly ==
  ASSUME fw \in Firmwares, IsFirst(rsdp, fw)
  PROVE  /\ fw.rsdp[rsdp].revision # 0 =>
              Verdict(fw) = Panics("APIC Version > 1.0 not supported")
         /\ fw.rsdp[rsdp].revision = 0 /\ ~ fw.rsdp[rsdp].valid =>
              Verdict(fw) = Panics("RSDP checksum invalid")
         /\ fw.rsdp[rsdp].revision = 0 /\ fw.rsdp[rsdp].valid /\ root \notin Sound(fw) =>
              Verdict(fw) = Panics("SDT checksum invalid")
         /\ fw.rsdp[rsdp].revision = 0 /\ fw.rsdp[rsdp].valid /\ root \in Sound(fw)
              /\ Madts(fw, root) = {} =>
              Verdict(fw) = Panics("MADT not found!")
<1>1. DOMAIN fw.rsdp # {}
  BY Zenon DEF IsFirst
<1>2. FirstRsdp(fw) = fw.rsdp[rsdp]
  BY FirstIs
<1>3. QED
  BY <1>1, <1>2, Zenon DEF Verdict, root

LEMMA VerdictLate ==
  ASSUME fw \in Firmwares, IsFirst(rsdp, fw), fw.rsdp[rsdp].revision = 0, fw.rsdp[rsdp].valid,
         root \in Sound(fw), Madts(fw, root) # {},
         madt = fw.sdt[root].entries[Min(Madts(fw, root))]
  PROVE  LET ioapic == fw.sdt[madt].devices[Max(Ioapics(fw, madt))].addr
             lapic  == fw.sdt[madt].lapic_addr
         IN  /\ Ioapics(fw, madt) = {} \/ ioapic = NULL =>
                  Verdict(fw) = Panics("cannot locate I/O APIC address")
             /\ Ioapics(fw, madt) # {} /\ ioapic # NULL /\ lapic = NULL =>
                  Verdict(fw) = Panics("cannot locate Local APIC address")
             /\ Ioapics(fw, madt) # {} /\ ioapic # NULL /\ lapic # NULL =>
                  Verdict(fw) = [message |-> "", lapic |-> lapic, ioapic |-> ioapic]
<1>1. DOMAIN fw.rsdp # {}
  BY Zenon DEF IsFirst
<1>2. FirstRsdp(fw) = fw.rsdp[rsdp]
  BY FirstIs
<1>3. QED
  BY <1>1, <1>2, Zenon DEF Verdict, root

(* The sound tables are themselves closed, and when no call is left they   *)
(* hold the verified ones.                                                 *)
LEMMA SoundClosed == Closed(Sound(fw), fw)
<1> SUFFICES ASSUME NEW t \in Sound(fw)
             PROVE  /\ fw.sdt[t].valid
                    /\ fw.sdt[t].signature = "RSDT" => ToSet(fw.sdt[t].entries) \subseteq Sound(fw)
  BY Zenon DEF Closed
<1>1. PICK S \in SUBSET DOMAIN fw.sdt : Closed(S, fw) /\ t \in S
  BY Zenon DEF Sound
<1>2. S \subseteq Sound(fw)
  BY <1>1, Zenon DEF Sound
<1>3. fw.sdt[t].valid /\ (fw.sdt[t].signature = "RSDT" => ToSet(fw.sdt[t].entries) \subseteq S)
  BY <1>1, Zenon DEF Closed
<1>4. QED
  BY <1>2, <1>3, Zenon

LEMMA EntryAmong ==
  ASSUME fw \in Firmwares, NEW t \in DOMAIN fw.sdt, NEW n \in 1 .. Len(EntriesOf(t))
  PROVE  /\ fw.sdt[t].signature = "RSDT"
         /\ EntriesOf(t)[n] \in ToSet(fw.sdt[t].entries)
<1>1. fw.sdt[t].entries \in Seq(DOMAIN fw.sdt)
  BY Layout
<1>2. fw.sdt[t].signature = "RSDT" /\ EntriesOf(t) = fw.sdt[t].entries
  <2>1. Len(<<>>) = 0
    OBVIOUS
  <2>2. QED
    BY <2>1 DEF EntriesOf
<1>3. n \in DOMAIN fw.sdt[t].entries
  BY <1>1, <1>2, LenProperties
<1>4. QED
  BY <1>2, <1>3 DEF ToSet

LEMMA VerifiedSound ==
  ASSUME IInv, calls = <<>>
  PROVE  verified \subseteq Sound(fw)
<1>1. verified \in SUBSET DOMAIN fw.sdt
  BY DEF IInv, TypeOK
<1>2. QED
  BY <1>1, VerifiedClosed, Zenon DEF Sound

-----------------------------------------------------------------------------
(* The second invariant: what the search has passed, that every call runs  *)
(* on a sound table if the RSDT is one, and what the two loops over the    *)
(* RSDT and the MADT have seen.                                            *)
Stopped ==
  /\ pc # "panic" => message = ""
  /\ pc = "panic" => Verdict(fw) = Panics(message)
  /\ pc = "ready" =>
       Verdict(fw) = [message |-> "", lapic |-> lapic_ptr, ioapic |-> ioapic_ptr]

Searched ==
  /\ pc = "search" =>
       \A q \in DOMAIN fw.rsdp : q[1] >= region /\ (q[1] = region => q[2] >= i)
  /\ pc \in {"rsdp", "verify", "find", "walk", "ready"} => IsFirst(rsdp, fw)
  /\ pc \in {"verify", "find", "walk", "ready"} => fw.rsdp[rsdp].revision = 0

Descended ==
  pc = "verify" /\ root \in Sound(fw) =>
    \A n \in 1 .. Len(calls) : calls[n].sdt \in Sound(fw)

Looked ==
  /\ pc = "find" => \A n \in Madts(fw, root) : n >= i
  /\ pc = "walk" =>
       /\ Madts(fw, root) # {} /\ madt = fw.sdt[root].entries[Min(Madts(fw, root))]
       /\ lapic_ptr = fw.sdt[madt].lapic_addr
       /\ LastPassed(i)
  /\ pc \in {"search", "rsdp", "verify", "find"} => ioapic_ptr = NULL

Deciding == Stopped /\ Searched /\ Descended /\ Looked

LEMMA InitDeciding == Init => Deciding
<1> SUFFICES ASSUME Init PROVE Deciding
  OBVIOUS
<1>1. fw \in Firmwares /\ pc = "search" /\ region = 1 /\ i = 0 /\ message = "" /\ ioapic_ptr = NULL
  BY DEF Init
<1>2. ASSUME NEW q \in DOMAIN fw.rsdp PROVE q[1] >= region /\ q[2] >= i
  <2>1. WellFormed(fw)
    BY <1>1, Layout
  <2>2. q[1] \in 1 .. 2 /\ q[2] \in Nat
    BY <2>1 DEF WellFormed, Regions
  <2>3. region = 1 /\ i = 0
    BY <1>1
  <2>4. QED
    BY <2>2, <2>3
<1>3. QED
  BY <1>1, <1>2, Zenon DEF Deciding, Stopped, Searched, Descended, Looked

(* A panic with the message the tables deserve.                            *)
LEMMA PanicDeciding ==
  ASSUME NEW msg, panic(msg), Verdict(fw) = Panics(msg)
  PROVE  Deciding'
<1>1. pc' = "panic" /\ message' = msg /\ fw' = fw
  BY DEF panic
<1>2. Verdict(fw)' = Panics(message)'
  BY <1>1
<1>3. QED
  BY <1>1, <1>2 DEF Deciding, Stopped, Searched, Descended, Looked

LEMMA SearchDeciding ==
  ASSUME IInv, Deciding, MatchRsdp \/ PassByte \/ NextRegion
  PROVE  Deciding'
<1>1. pc = "search" /\ fw \in Firmwares /\ message = "" /\ ioapic_ptr = NULL
  BY DEF MatchRsdp, PassByte, NextRegion, IInv, TypeOK, Deciding, Stopped, Looked
<1>2. region \in 1 .. 2 /\ i \in Nat
  BY DEF IInv, TypeOK, Regions
<1>3. ASSUME NEW q \in DOMAIN fw.rsdp
      PROVE  /\ q[1] \in 1 .. 2 /\ q[2] \in Nat /\ q = <<q[1], q[2]>>
             /\ q[2] + RsdpLength <= RegionLength[q[1]]
  <2>1. q \in Regions \X Nat /\ q[2] + RsdpLength <= RegionLength[q[1]]
    BY <1>1, Layout DEF WellFormed
  <2>2. QED
    BY <2>1 DEF Regions
<1>4. ASSUME NEW q \in DOMAIN fw.rsdp
      PROVE  q[1] >= region /\ (q[1] = region => q[2] >= i)
  BY <1>1 DEF Deciding, Searched
<1>5. /\ RegionLength[region] \in Nat /\ SignatureLength \in Nat /\ RsdpLength \in Nat
      /\ SignatureLength < RsdpLength
  BY <1>2, FirmwareAssumption DEF Regions
<1>6. CASE MatchRsdp
  <2>1. /\ <<region, i>> \in DOMAIN fw.rsdp /\ rsdp' = <<region, i>> /\ pc' = "rsdp"
        /\ UNCHANGED <<fw, message, ioapic_ptr>>
    BY <1>6 DEF MatchRsdp, GoOn
  <2>2. IsFirst(<<region, i>>, fw)
    <3>1. <<region, i>>[1] = region /\ <<region, i>>[2] = i
      OBVIOUS
    <3>2. ASSUME NEW q \in DOMAIN fw.rsdp
          PROVE  region < q[1] \/ (region = q[1] /\ i <= q[2])
      <4>1. q[1] \in 1 .. 2 /\ q[2] \in Nat
        BY <1>3
      <4>2. q[1] >= region /\ (q[1] = region => q[2] >= i)
        BY <1>4
      <4>3. QED
        BY <4>1, <4>2, <1>2
    <3>3. QED
      BY <2>1, <3>1, <3>2, Zenon DEF IsFirst
  <2>3. IsFirst(rsdp, fw)'
    BY <2>1, <2>2, Zenon DEF IsFirst
  <2>4. QED
    BY <1>1, <2>1, <2>3 DEF Deciding, Stopped, Searched, Descended, Looked
<1>7. CASE PassByte
  <2>1. /\ <<region, i>> \notin DOMAIN fw.rsdp /\ i' = i + 1 /\ pc' = "search"
        /\ UNCHANGED <<fw, message, region, ioapic_ptr>>
    BY <1>7 DEF PassByte, GoOn
  <2>2. ASSUME NEW q \in DOMAIN fw.rsdp
        PROVE  q[1] >= region /\ (q[1] = region => q[2] >= i + 1)
    <3>1. q[1] = region => q[2] # i
      BY <2>1, <1>3, Zenon
    <3>2. q[1] \in 1 .. 2 /\ q[2] \in Nat
      BY <1>3
    <3>3. q[1] >= region /\ (q[1] = region => q[2] >= i)
      BY <1>4
    <3>4. QED
      BY <1>2, <3>1, <3>2, <3>3
  <2>3. Searched'
    BY <2>1, <2>2, Zenon DEF Searched
  <2>4. QED
    BY <1>1, <2>1, <2>3 DEF Deciding, Stopped, Descended, Looked
<1>8. CASE NextRegion
  <2>1. ASSUME NEW q \in DOMAIN fw.rsdp PROVE q[1] # region
    <3>1. i >= RegionLength[region] - SignatureLength
      <4>1. ~ (i < RegionLength[region] - SignatureLength)
        BY <1>8, Zenon DEF NextRegion, InReach
      <4>2. QED
        BY <1>2, <1>5, <4>1
    <3>2. q[2] \in Nat /\ q[2] + RsdpLength <= RegionLength[q[1]]
      BY <1>3
    <3>3. q[1] = region => q[2] >= i
      BY <1>4
    <3>4. q[1] = region => q[2] + RsdpLength <= RegionLength[region]
      BY <3>2
    <3>5. QED
      BY <1>2, <1>5, <3>1, <3>2, <3>3, <3>4
  <2>2. ASSUME region = 1, region' = 2, i' = 0, pc' = "search",
               UNCHANGED <<fw, message, ioapic_ptr>>
        PROVE  Deciding'
    <3>1. ASSUME NEW q \in DOMAIN fw.rsdp PROVE q[1] >= 2 /\ (q[1] = 2 => q[2] >= 0)
      <4>1. q[1] \in 1 .. 2 /\ q[2] \in Nat
        BY <1>3
      <4>2. q[1] # 1
        BY <2>1, <2>2
      <4>3. QED
        BY <4>1, <4>2
    <3>2. Searched'
      BY <2>2, <3>1, Zenon DEF Searched
    <3>3. QED
      BY <1>1, <2>2, <3>2 DEF Deciding, Stopped, Descended, Looked
  <2>3. ASSUME region = 2, panic("RSDT not found!")
        PROVE  Deciding'
    <3>1. ASSUME NEW q \in DOMAIN fw.rsdp PROVE FALSE
      <4>1. q[1] \in 1 .. 2
        BY <1>3
      <4>2. q[1] >= region
        BY <1>4
      <4>3. q[1] # region
        BY <2>1
      <4>4. region = 2
        BY <2>3
      <4>5. QED
        BY <4>1, <4>2, <4>3, <4>4
    <3>2. DOMAIN fw.rsdp = {}
      BY <3>1
    <3>3. Verdict(fw) = Panics("RSDT not found!")
      BY <3>2, Zenon DEF Verdict
    <3>4. QED
      BY <2>3, <3>3, PanicDeciding
  <2>4. QED
    BY <1>8, <2>2, <2>3 DEF NextRegion, GoOn
<1>9. QED
  BY <1>6, <1>7, <1>8

LEMMA RsdpDeciding ==
  ASSUME IInv, Deciding, CheckRsdp
  PROVE  Deciding'
<1>1. /\ pc = "rsdp" /\ fw \in Firmwares /\ IsFirst(rsdp, fw) /\ message = "" /\ ioapic_ptr = NULL
  BY DEF CheckRsdp, IInv, TypeOK, Deciding, Stopped, Searched, Looked
<1>2. CASE fw.rsdp[rsdp].revision # 0
  <2>1. panic("APIC Version > 1.0 not supported")
    BY <1>2 DEF CheckRsdp
  <2>2. QED
    BY <1>1, <1>2, <2>1, VerdictEarly, PanicDeciding
<1>3. CASE fw.rsdp[rsdp].revision = 0 /\ ~ fw.rsdp[rsdp].valid
  <2>1. panic("RSDP checksum invalid")
    BY <1>3 DEF CheckRsdp, rsdp_sum_right
  <2>2. QED
    BY <1>1, <1>3, <2>1, VerdictEarly, PanicDeciding
<1>4. CASE fw.rsdp[rsdp].revision = 0 /\ fw.rsdp[rsdp].valid
  <2>1. /\ pc' = "verify" /\ calls' = <<[sdt |-> root, next |-> 0]>>
        /\ UNCHANGED <<fw, message, rsdp, ioapic_ptr>>
    BY <1>4 DEF CheckRsdp, GoOn, rsdp_sum_right
  <2>2. Len(calls') = 1 /\ calls'[1].sdt = root /\ root' = root
    BY <2>1 DEF root
  <2>3. IsFirst(rsdp, fw)' /\ fw'.rsdp[rsdp'].revision = 0
    BY <1>1, <1>4, <2>1 DEF IsFirst
  <2>4. root \in Sound(fw) => \A n \in 1 .. Len(calls') : calls'[n].sdt \in Sound(fw)
    BY <2>2
  <2>5. Sound(fw)' = Sound(fw)
    BY <2>1
  <2>6. QED
    BY <1>1, <2>1, <2>2, <2>3, <2>4, <2>5 DEF Deciding, Stopped, Searched, Descended, Looked
<1>5. QED
  BY <1>2, <1>3, <1>4

-----------------------------------------------------------------------------
(* The call running, one of those in progress. *)
LEMMA RunningCall ==
  ASSUME IInv, pc = "verify"
  PROVE  /\ Len(calls) \in Nat \ {0} /\ Len(calls) \in 1 .. Len(calls)
         /\ calls \in Seq(Call(DOMAIN fw.sdt)) /\ calls # <<>>
         /\ Running.sdt \in DOMAIN fw.sdt /\ Running.next \in Nat
<1>1. calls \in Seq(Call(DOMAIN fw.sdt)) /\ calls # <<>>
  BY DEF IInv, TypeOK, Stages, Call
<1>2. Len(calls) \in Nat \ {0} /\ Len(calls) \in 1 .. Len(calls)
  BY <1>1, EmptySeq, LenProperties
<1>3. Running \in Call(DOMAIN fw.sdt)
  BY <1>1, <1>2, ElementOfSeq DEF Running
<1>4. QED
  BY <1>1, <1>2, <1>3 DEF Call

(* Steps of the verification that change neither the RSDP found nor what   *)
(* the tables say.                                                         *)
LEMMA DescendsOn ==
  ASSUME Deciding, pc = "verify", pc' = "verify",
         UNCHANGED <<fw, message, rsdp, ioapic_ptr>>,
         root \in Sound(fw) => \A n \in 1 .. Len(calls') : calls'[n].sdt \in Sound(fw)
  PROVE  Deciding'
<1>1. Stopped'
  BY DEF Deciding, Stopped
<1>2. Searched'
  BY DEF Deciding, Searched, IsFirst
<1>3. Descended'
  <2>1. root' = root /\ Sound(fw)' = Sound(fw)
    BY DEF root
  <2>2. QED
    BY <2>1 DEF Descended
<1>4. Looked'
  BY DEF Deciding, Looked
<1>5. QED
  BY <1>1, <1>2, <1>3, <1>4 DEF Deciding

(* A wrong sum: the table, which the RSDT leads to, is not sound, and so   *)
(* neither is the RSDT.                                                    *)
LEMMA SumDeciding ==
  ASSUME IInv, Deciding, VerifySum
  PROVE  Deciding'
<1>1. pc = "verify" /\ fw \in Firmwares
  BY DEF VerifySum, IInv, TypeOK
<1>2. IsFirst(rsdp, fw) /\ fw.rsdp[rsdp].revision = 0 /\ fw.rsdp[rsdp].valid
  BY <1>1 DEF Deciding, Searched, IInv, Stages
<1>3. root \in Sound(fw) => \A n \in 1 .. Len(calls) : calls[n].sdt \in Sound(fw)
  BY <1>1 DEF Deciding, Descended
<1>4. CASE ~ fw.sdt[Running.sdt].valid
  <2>1. panic("SDT checksum invalid")
    BY <1>4 DEF VerifySum, calc_checksum_right
  <2>2. Running.sdt \notin Sound(fw)
    BY <1>4, SoundClosed, Zenon DEF Closed
  <2>3. root \notin Sound(fw)
    BY <1>1, <1>3, <2>2, RunningCall, Zenon DEF Running
  <2>4. Verdict(fw) = Panics("SDT checksum invalid")
    BY <1>1, <1>2, <2>3, VerdictEarly
  <2>5. QED
    BY <2>1, <2>4, PanicDeciding
<1>5. CASE fw.sdt[Running.sdt].valid
  <2>1. /\ pc' = "verify"
        /\ calls' = [calls EXCEPT ![Len(calls)] = [sdt |-> calls[Len(calls)].sdt, next |-> 1]]
        /\ UNCHANGED <<fw, message, rsdp, ioapic_ptr>>
    BY <1>5 DEF VerifySum, GoOn, Running, AtEntry, calc_checksum_right
  <2>2. calls \in Seq(Call(DOMAIN fw.sdt)) /\ calls # <<>>
    BY <1>1, RunningCall
  <2>3. /\ Len(calls') = Len(calls)
        /\ \A n \in 1 .. Len(calls) : calls'[n].sdt = calls[n].sdt
    BY <2>1, <2>2, SetNext
  <2>4. root \in Sound(fw) => \A n \in 1 .. Len(calls') : calls'[n].sdt \in Sound(fw)
    BY <1>3, <2>3
  <2>5. QED
    BY <1>1, <2>1, <2>4, DescendsOn
<1>6. QED
  BY <1>4, <1>5

(* An entry of a sound RSDT is sound. *)
LEMMA EntryDeciding ==
  ASSUME IInv, Deciding, VerifyEntry
  PROVE  Deciding'
<1> DEFINE S == DOMAIN fw.sdt
           T == Running.sdt
           m == Running.next
           r == [calls EXCEPT ![Len(calls)] = [sdt |-> calls[Len(calls)].sdt, next |-> m + 1]]
           e == [sdt |-> EntriesOf(T)[m], next |-> 0]
<1>1. /\ pc = "verify" /\ pc' = "verify"
      /\ m \in 1 .. Len(EntriesOf(T))
      /\ calls' = Append(r, e)
      /\ UNCHANGED <<fw, message, rsdp, ioapic_ptr>>
  BY DEF VerifyEntry, GoOn, Running, AtEntry
<1>2. /\ calls \in Seq(Call(S)) /\ calls # <<>> /\ fw \in Firmwares
      /\ Len(calls) \in Nat /\ Len(calls) \in 1 .. Len(calls) /\ T \in S /\ m \in Nat
  BY <1>1, RunningCall DEF IInv, TypeOK
<1>3. root \in Sound(fw) => \A n \in 1 .. Len(calls) : calls[n].sdt \in Sound(fw)
  BY <1>1 DEF Deciding, Descended
<1>4. /\ fw.sdt[T].signature = "RSDT"
      /\ EntriesOf(T)[m] \in ToSet(fw.sdt[T].entries)
  BY <1>1, <1>2, EntryAmong
<1>5. root \in Sound(fw) => EntriesOf(T)[m] \in Sound(fw)
  <2>1. root \in Sound(fw) => T \in Sound(fw)
    BY <1>2, <1>3 DEF Running
  <2>2. QED
    BY <1>4, <2>1, SoundClosed, Zenon DEF Closed
<1>6. e \in Call(S) /\ e.sdt = EntriesOf(T)[m]
  <2>1. EntriesOf(T) \in Seq(S)
    BY <1>2, Layout
  <2>2. EntriesOf(T)[m] \in S
    BY <1>1, <2>1, ElementOfSeq
  <2>3. QED
    BY <2>2 DEF Call
<1>7. /\ r \in Seq(Call(S)) /\ Len(r) = Len(calls)
      /\ \A n \in 1 .. Len(calls) : r[n].sdt = calls[n].sdt
  <2> DEFINE k == m + 1
  <2>1. k \in Nat
    BY <1>2
  <2>2. r = [calls EXCEPT ![Len(calls)] = [sdt |-> calls[Len(calls)].sdt, next |-> k]]
    OBVIOUS
  <2> HIDE DEF k, m, S, T, r
  <2>3. QED
    BY <2>1, <2>2, <1>2, SetNext
<1> HIDE DEF S, T, m, r, e
<1>8. /\ Len(calls') = Len(calls) + 1
      /\ \A n \in 1 .. Len(calls) : calls'[n] = r[n]
      /\ calls'[Len(calls) + 1] = e
  <2>1. calls' = Append(r, e)
    BY <1>1 DEF r, e
  <2>2. QED
    BY <1>6, <1>7, <2>1, Push
<1>9. ASSUME root \in Sound(fw), NEW n \in 1 .. Len(calls')
      PROVE  calls'[n].sdt \in Sound(fw)
  <2>1. CASE n = Len(calls) + 1
    BY <1>5, <1>6, <1>8, <1>9, <2>1
  <2>2. CASE n # Len(calls) + 1
    <3>1. n \in 1 .. Len(calls)
      BY <1>2, <1>8, <2>2
    <3>2. calls'[n].sdt = calls[n].sdt
      BY <1>7, <1>8, <3>1
    <3>3. QED
      BY <1>3, <1>9, <3>1, <3>2
  <2>3. QED
    BY <2>1, <2>2
<1>10. QED
  BY <1>1, <1>9, DescendsOn

(* The last call returns to the search for the MADT, which has passed      *)
(* nothing yet.                                                            *)
LEMMA ReturnDeciding ==
  ASSUME IInv, Deciding, VerifyReturn
  PROVE  Deciding'
<1>1. /\ pc = "verify"
      /\ calls' = Front(calls) /\ i' = 1
      /\ pc' = IF Len(calls) = 1 THEN "find" ELSE "verify"
      /\ UNCHANGED <<fw, message, rsdp, ioapic_ptr>>
  BY DEF VerifyReturn, GoOn
<1>2. /\ calls \in Seq(Call(DOMAIN fw.sdt)) /\ calls # <<>> /\ fw \in Firmwares
      /\ Len(calls) \in Nat
  BY <1>1, RunningCall DEF IInv, TypeOK
<1>3. CASE pc' = "verify"
  <2>1. root \in Sound(fw) => \A n \in 1 .. Len(calls) : calls[n].sdt \in Sound(fw)
    BY <1>1 DEF Deciding, Descended
  <2>2. Len(calls') = Len(calls) - 1 /\ \A n \in 1 .. Len(calls) - 1 : calls'[n] = calls[n]
    BY <1>1, <1>2, Pop
  <2>3. \A n \in 1 .. Len(calls') : n \in 1 .. Len(calls) /\ calls'[n] = calls[n]
    BY <1>2, <2>2
  <2>4. root \in Sound(fw) => \A n \in 1 .. Len(calls') : calls'[n].sdt \in Sound(fw)
    BY <2>1, <2>3
  <2>5. QED
    BY <1>1, <1>3, <2>4, DescendsOn
<1>4. CASE pc' = "find"
  <2>1. \A n \in Madts(fw, root) : n >= 1
    <3>1. root \in DOMAIN fw.sdt
      BY <1>1, <1>2, Layout DEF IInv, Stages, root
    <3>2. fw.sdt[root].entries \in Seq(DOMAIN fw.sdt)
      BY <1>2, <3>1, Layout
    <3>3. QED
      BY <3>2, LenProperties DEF Madts
  <2>2. Looked'
    <3>1. Madts(fw, root)' = Madts(fw, root)
      BY <1>1 DEF root
    <3>2. QED
      BY <1>1, <1>4, <2>1, <3>1 DEF Deciding, Looked
  <2>3. Searched'
    BY <1>1, <1>4 DEF Deciding, Searched, IsFirst
  <2>4. QED
    BY <1>1, <1>4, <2>2, <2>3 DEF Deciding, Stopped, Descended
<1>5. QED
  BY <1>1, <1>3, <1>4

(* What holds of the RSDT once it has been verified. *)
LEMMA RootSound ==
  ASSUME IInv, Deciding, pc \in {"find", "walk"}
  PROVE  /\ fw \in Firmwares /\ IsFirst(rsdp, fw) /\ message = ""
         /\ fw.rsdp[rsdp].revision = 0 /\ fw.rsdp[rsdp].valid
         /\ root \in Sound(fw) /\ root \in DOMAIN fw.sdt
         /\ fw.sdt[root].entries \in Seq(DOMAIN fw.sdt)
<1>1. fw \in Firmwares /\ IsFirst(rsdp, fw) /\ fw.rsdp[rsdp].revision = 0 /\ message = ""
  BY DEF IInv, TypeOK, Deciding, Searched, Stopped
<1>2. calls = <<>> /\ root \in verified /\ fw.rsdp[rsdp].valid
  BY DEF IInv, Stages
<1>3. root \in Sound(fw) /\ root \in DOMAIN fw.sdt
  BY <1>2, VerifiedSound DEF IInv, TypeOK
<1>4. QED
  BY <1>1, <1>2, <1>3, Layout

LEMMA FindDeciding ==
  ASSUME IInv, Deciding, FindMadt
  PROVE  Deciding'
<1> DEFINE M == Madts(fw, root)
           t == fw.sdt[root].entries[i]
<1>1. /\ pc = "find" /\ fw \in Firmwares /\ IsFirst(rsdp, fw) /\ message = ""
      /\ fw.rsdp[rsdp].revision = 0 /\ fw.rsdp[rsdp].valid
      /\ root \in Sound(fw) /\ fw.sdt[root].entries \in Seq(DOMAIN fw.sdt)
      /\ ioapic_ptr = NULL
  <2>1. pc = "find"
    BY DEF FindMadt
  <2>2. QED
    BY <2>1, RootSound DEF Deciding, Looked
<1>2. i \in Nat /\ i >= 1
  BY <1>1 DEF IInv, TypeOK, Stages
<1>3. /\ Len(fw.sdt[root].entries) \in Nat
      /\ DOMAIN fw.sdt[root].entries = 1 .. Len(fw.sdt[root].entries)
  BY <1>1, LenProperties
<1>4. ASSUME NEW n \in M PROVE n \in 1 .. Len(fw.sdt[root].entries) /\ n >= i
  BY <1>1, <1>3 DEF Deciding, Looked, Madts
<1>5. CASE i > Len(fw.sdt[root].entries)
  <2>1. panic("MADT not found!")
    <3>1. ~ (i <= Len(fw.sdt[root].entries))
      BY <1>2, <1>3, <1>5
    <3>2. QED
      BY <3>1, Zenon DEF FindMadt
  <2>2. M = {}
    BY <1>2, <1>3, <1>4, <1>5
  <2>3. Verdict(fw) = Panics("MADT not found!")
    BY <1>1, <2>2, VerdictEarly
  <2>4. QED
    BY <2>1, <2>3, PanicDeciding
<1>6. CASE i <= Len(fw.sdt[root].entries) /\ fw.sdt[t].signature = "APIC"
  <2>1. /\ madt' = t /\ lapic_ptr' = fw.sdt[t].lapic_addr /\ i' = 1 /\ pc' = "walk"
        /\ UNCHANGED <<fw, message, rsdp, ioapic_ptr>>
    <3>1. ~ (i > Len(fw.sdt[root].entries))
      BY <1>2, <1>3, <1>6
    <3>2. QED
      BY <1>6, <3>1, Zenon DEF FindMadt, GoOn
  <2>2. i \in M
    BY <1>2, <1>3, <1>6 DEF Madts
  <2>3. Min(M) = i
    <3>1. M \in SUBSET Nat
      BY <1>4
    <3>2. \A n \in M : i <= n
      BY <1>2, <1>4
    <3>3. QED
      BY <2>2, <3>1, <3>2, LeastIs
  <2>4. /\ M # {} /\ M' = M /\ root' = root
        /\ madt' = fw'.sdt[root'].entries[Min(M)]
        /\ lapic_ptr' = fw'.sdt[madt'].lapic_addr
    BY <2>1, <2>2, <2>3 DEF root
  <2>5. Passed(1)' = {} /\ ioapic_ptr' = NULL
    <3>1. t \in DOMAIN fw.sdt
      <4>1. i \in 1 .. Len(fw.sdt[root].entries)
        BY <1>2, <1>3, <1>6
      <4>2. QED
        BY <1>1, <4>1, ElementOfSeq
    <3>2. fw.sdt[t].devices \in Seq([type : Nat, addr : Nat])
      BY <1>1, <3>1, Layout
    <3>3. DOMAIN fw.sdt[t].devices = 1 .. Len(fw.sdt[t].devices)
      BY <3>2, LenProperties
    <3>4. \A n \in Ioapics(fw, t) : ~ (n < 1)
      <4>1. Len(fw.sdt[t].devices) \in Nat
        BY <3>2, LenProperties
      <4>2. \A n \in 1 .. Len(fw.sdt[t].devices) : ~ (n < 1)
        BY <4>1
      <4>3. QED
        BY <3>3, <4>2, Zenon DEF Ioapics
    <3>5. {n \in Ioapics(fw, t) : n < 1} = {}
      BY <3>4, Zenon
    <3>6. QED
      BY <1>1, <2>1, <3>5 DEF Passed
  <2>6. LastPassed(i)'
    BY <2>1, <2>5, Zenon DEF LastPassed
  <2>7. Looked'
    BY <2>1, <2>4, <2>6, Zenon DEF Looked
  <2>8. Searched'
    BY <1>1, <2>1 DEF Searched, IsFirst
  <2>9. QED
    BY <1>1, <2>1, <2>7, <2>8 DEF Deciding, Stopped, Descended
<1>7. CASE i <= Len(fw.sdt[root].entries) /\ fw.sdt[t].signature # "APIC"
  <2>1. i' = i + 1 /\ pc' = "find" /\ UNCHANGED <<fw, message, rsdp, ioapic_ptr>>
    <3>1. ~ (i > Len(fw.sdt[root].entries))
      BY <1>2, <1>3, <1>7
    <3>2. QED
      BY <1>7, <3>1, Zenon DEF FindMadt, GoOn
  <2>2. ASSUME NEW n \in M PROVE n >= i + 1
    <3>1. n # i
      BY <1>7 DEF Madts
    <3>2. n \in Nat /\ n >= i
      BY <1>4
    <3>3. QED
      BY <1>2, <3>1, <3>2
  <2>3. Looked'
    <3>1. M' = M
      BY <2>1 DEF root
    <3>2. QED
      BY <1>1, <2>1, <2>2, <3>1 DEF Looked
  <2>4. Searched'
    BY <1>1, <2>1 DEF Searched, IsFirst
  <2>5. QED
    BY <1>1, <2>1, <2>3, <2>4 DEF Deciding, Stopped, Descended
<1>8. QED
  BY <1>2, <1>3, <1>5, <1>6, <1>7

LEMMA WalkDeciding ==
  ASSUME IInv, Deciding, WalkEntry \/ WalkEnds
  PROVE  Deciding'
<1> DEFINE A == Ioapics(fw, madt)
<1>1. /\ pc = "walk" /\ fw \in Firmwares /\ IsFirst(rsdp, fw) /\ message = ""
      /\ fw.rsdp[rsdp].revision = 0 /\ fw.rsdp[rsdp].valid
      /\ root \in Sound(fw)
  <2>1. pc = "walk"
    BY DEF WalkEntry, WalkEnds
  <2>2. QED
    BY <2>1, RootSound
<1>2. /\ Madts(fw, root) # {} /\ madt = fw.sdt[root].entries[Min(Madts(fw, root))]
      /\ lapic_ptr = fw.sdt[madt].lapic_addr
      /\ LastPassed(i)
  BY <1>1, Zenon DEF Deciding, Looked
<1>3. i \in Nat /\ i >= 1
  BY <1>1 DEF IInv, TypeOK, Stages
<1>4. /\ Devices \in Seq([type : Nat, addr : Nat]) /\ Len(Devices) \in Nat
      /\ DOMAIN Devices = 1 .. Len(Devices)
  <2>1. madt \in DOMAIN fw.sdt
    BY <1>1 DEF IInv, Stages, TypeOK
  <2>2. QED
    BY <1>1, <2>1, Layout, LenProperties DEF Devices
<1>5. ASSUME NEW n \in A PROVE n \in 1 .. Len(Devices)
  BY <1>4 DEF Ioapics, Devices
<1>6. CASE WalkEntry
  <2>1. /\ i <= Len(Devices) /\ i' = i + 1 /\ pc' = "walk"
        /\ ioapic_ptr' = IF Devices[i].type = TYPE_IOAPIC THEN Devices[i].addr ELSE ioapic_ptr
        /\ UNCHANGED <<fw, message, rsdp, madt, lapic_ptr>>
    BY <1>6 DEF WalkEntry, GoOn
  <2>2. /\ A' = A /\ Devices' = Devices /\ root' = root
        /\ Madts(fw, root)' = Madts(fw, root)
    BY <2>1 DEF Devices, root
  <2>3. i \in DOMAIN Devices
    BY <1>3, <1>4, <2>1
  <2>4. ASSUME NEW n \in A PROVE n < i + 1 <=> n < i \/ n = i
    BY <1>3, <1>5
  <2>5. ASSUME Devices[i].type = TYPE_IOAPIC PROVE LastPassed(i)'
    <3>1. i \in A /\ ioapic_ptr' = Devices[i].addr
      BY <2>1, <2>3, <2>5 DEF Ioapics, Devices
    <3>2. i \in {n \in A : n < i + 1}
      BY <1>3, <3>1
    <3>3. \A n \in {j \in A : j < i + 1} : n <= i
      BY <1>3, <1>5
    <3>4. QED
      BY <2>1, <2>2, <3>1, <3>2, <3>3, Zenon DEF LastPassed, Passed
  <2>6. ASSUME Devices[i].type # TYPE_IOAPIC PROVE LastPassed(i)'
    <3>1. i \notin A /\ ioapic_ptr' = ioapic_ptr
      BY <2>1, <2>6 DEF Ioapics, Devices
    <3>2. {n \in A : n < i + 1} = {n \in A : n < i}
      BY <2>4, <3>1
    <3>3. Passed(i)' = Passed(i)
      BY <2>1, <2>2, <3>2, Zenon DEF Passed
    <3>4. QED
      BY <1>2, <2>1, <2>2, <3>1, <3>3, Zenon DEF LastPassed
  <2>7. LastPassed(i)'
    BY <2>5, <2>6
  <2>8. Looked'
    <3>1. /\ madt' = fw'.sdt[root'].entries[Min(Madts(fw, root))]
          /\ lapic_ptr' = fw'.sdt[madt'].lapic_addr
      BY <1>2, <2>1, <2>2
    <3>2. QED
      BY <1>2, <2>1, <2>2, <2>7, <3>1, Zenon DEF Looked
  <2>9. Searched'
    BY <1>1, <2>1 DEF Searched, IsFirst
  <2>10. QED
    BY <1>1, <2>1, <2>8, <2>9 DEF Deciding, Stopped, Descended
<1>7. CASE WalkEnds
  <2>1. i > Len(Devices)
    BY <1>7 DEF WalkEnds
  <2>2. Passed(i) = A
    <3>1. \A n \in A : n < i
      BY <1>3, <1>4, <1>5, <2>1
    <3>2. QED
      BY <3>1 DEF Passed
  <2> DEFINE last == fw.sdt[madt].devices[Max(A)].addr
  <2>3. \/ A = {} /\ ioapic_ptr = NULL
        \/ A # {} /\ ioapic_ptr = last
    <3>1. CASE A = {} /\ ioapic_ptr = NULL
      BY <3>1
    <3>2. ASSUME NEW m \in A, ioapic_ptr = Devices[m].addr, \A n \in A : n <= m
          PROVE  A # {} /\ ioapic_ptr = last
      <4>1. A \in SUBSET Nat
        BY <1>5
      <4>2. Max(A) = m
        BY <3>2, <4>1, GreatestIs
      <4>3. QED
        BY <3>2, <4>2, Zenon DEF Devices
    <3>3. QED
      BY <1>2, <2>2, <3>1, <3>2, Zenon DEF LastPassed
  <2>4. /\ A = {} \/ last = NULL => Verdict(fw) = Panics("cannot locate I/O APIC address")
        /\ A # {} /\ last # NULL /\ fw.sdt[madt].lapic_addr = NULL =>
             Verdict(fw) = Panics("cannot locate Local APIC address")
        /\ A # {} /\ last # NULL /\ fw.sdt[madt].lapic_addr # NULL =>
             Verdict(fw) = [message |-> "", lapic |-> fw.sdt[madt].lapic_addr, ioapic |-> last]
    BY <1>1, <1>2, VerdictLate
  <2>5. CASE ioapic_ptr = NULL
    <3>1. panic("cannot locate I/O APIC address")
      BY <1>7, <2>5 DEF WalkEnds
    <3>2. Verdict(fw) = Panics("cannot locate I/O APIC address")
      BY <2>3, <2>4, <2>5, Zenon
    <3>3. QED
      BY <3>1, <3>2, PanicDeciding
  <2>6. CASE ioapic_ptr # NULL /\ lapic_ptr = NULL
    <3>1. panic("cannot locate Local APIC address")
      BY <1>7, <2>6 DEF WalkEnds
    <3>2. Verdict(fw) = Panics("cannot locate Local APIC address")
      BY <1>2, <2>3, <2>4, <2>6, Zenon
    <3>3. QED
      BY <3>1, <3>2, PanicDeciding
  <2>7. CASE ioapic_ptr # NULL /\ lapic_ptr # NULL
    <3>1. pc' = "ready" /\ UNCHANGED <<fw, message, rsdp, lapic_ptr, ioapic_ptr>>
      BY <1>7, <2>7 DEF WalkEnds, GoOn
    <3>2. Verdict(fw) = [message |-> "", lapic |-> lapic_ptr, ioapic |-> ioapic_ptr]
      BY <1>2, <2>3, <2>4, <2>7, Zenon
    <3>3. Verdict(fw)' = Verdict(fw)
      BY <3>1
    <3>4. QED
      BY <1>1, <3>1, <3>2, <3>3 DEF Deciding, Stopped, Searched, Descended, Looked, IsFirst
  <2>8. QED
    BY <2>5, <2>6, <2>7
<1>8. QED
  BY <1>6, <1>7

(* The kernel goes on exactly on the machines whose tables allow it, with  *)
(* the addresses they give, and panics on every other with the reason: the *)
(* search, the recursion over the tables and the two loops find what the   *)
(* tables say.  DecidesRightly of the run acpi, for every layout.          *)
THEOREM DecisionAlwaysRight == Spec => []DecidesRightly
<1>1. ASSUME IInv, Deciding, [Next]_vars PROVE Deciding'
  <2>1. CASE UNCHANGED vars
    <3>1. Stopped' /\ Searched' /\ Descended' /\ Looked'
      <4>1. UNCHANGED <<fw, pc, region, i, rsdp, calls, madt, lapic_ptr, ioapic_ptr, message>>
        BY <2>1 DEF vars
      <4>2. Stopped'
        BY <1>1, <4>1 DEF Deciding, Stopped
      <4>3. Searched'
        BY <1>1, <4>1 DEF Deciding, Searched, IsFirst
      <4>4. Descended'
        BY <1>1, <4>1 DEF Deciding, Descended, root
      <4>5. Looked'
        <5>1. /\ Madts(fw, root)' = Madts(fw, root) /\ root' = root
              /\ LastPassed(i)' = LastPassed(i)
          BY <4>1 DEF root, LastPassed, Passed, Devices
        <5>2. QED
          BY <1>1, <4>1, <5>1 DEF Deciding, Looked
      <4>6. QED
        BY <4>2, <4>3, <4>4, <4>5
    <3>2. QED
      BY <3>1 DEF Deciding
  <2>2. QED
    BY <1>1, <2>1, SearchDeciding, RsdpDeciding, SumDeciding, EntryDeciding, ReturnDeciding,
       FindDeciding, WalkDeciding DEF Next
<1>2. ASSUME Deciding PROVE DecidesRightly
  BY <1>2, Zenon DEF Deciding, Stopped, DecidesRightly
<1>3. QED
  BY Inductive, InitDeciding, <1>1, <1>2, PTL DEF Spec
=============================================================================
