-------------------------- MODULE MemoryMapProofs --------------------------
(***************************************************************************)
(* Theorems about the walk over the memory map, for every list the loader  *)
(* may leave and every size of the kernel's array.                         *)
(***************************************************************************)
EXTENDS MemoryMap, SequenceTheorems, TLAPS

n_entries == Len(map.entries)

Line(e) == [region |-> e.region, label |-> Labels[e.type]]

(* The walk is at the address of the next entry, and has recorded all      *)
(* before it: that is what makes the properties inductive.                 *)
IInv ==
  /\ map \in Maps
  /\ entry_count \in 0 .. n_entries
  /\ mmap = map.at[entry_count + 1]
  /\ mmap_entries \in Seq({map.entries[i] : i \in Entries})
  /\ printed \in Seq({Line(map.entries[i]) : i \in Entries})
  /\ Len(mmap_entries) = entry_count /\ Len(printed) = entry_count
  /\ \A i \in 1 .. entry_count : /\ mmap_entries[i] = map.entries[i]
                                 /\ printed[i] = Line(map.entries[i])

(* A list as the assumption describes it, spelled out for the provers.     *)
LEMMA MapFacts ==
  ASSUME map \in Maps
  PROVE  /\ n_entries \in Nat /\ n_entries <= ENTRY_SIZE
         /\ \A k \in 1 .. n_entries + 1 : map.at[k] \in Nat
         /\ \A i \in 1 .. n_entries :
              /\ map.entries[i].size \in Nat
              /\ EntryBytes <= map.entries[i].size + SizeField
              /\ map.entries[i].type \in DOMAIN Labels
              /\ map.at[i + 1] = map.at[i] + map.entries[i].size + SizeField
              /\ \A j \in i + 1 .. n_entries + 1 : map.at[i] < map.at[j]
         /\ End = map.at[n_entries + 1]
         /\ ENTRY_SIZE \in Nat /\ SizeField \in Nat /\ EntryBytes \in Nat
<1>1. IsMap(map)
  BY MapAssumption
<1>2. n_entries \in Nat /\ n_entries <= ENTRY_SIZE
  BY <1>1 DEF IsMap, n_entries
<1>3. map.at \in [1 .. n_entries + 1 -> Nat]
  BY <1>1 DEF IsMap, n_entries
<1>4. \A k \in 1 .. n_entries + 1 : map.at[k] \in Nat
  BY <1>3
<1>5. End = map.at[n_entries + 1]
  <2>1. map.at[1] \in Nat /\ map.at[n_entries + 1] \in Nat
    BY <1>2, <1>4
  <2>2. QED
    BY <2>1 DEF End, mmap_addr, mmap_length, n_entries
<1>6. ENTRY_SIZE \in Nat /\ SizeField \in Nat /\ EntryBytes \in Nat
  BY MapAssumption
<1>7. QED
  BY <1>1, <1>2, <1>4, <1>5, <1>6 DEF IsMap, n_entries

(* While there are entries left, the walk is at one and reads it whole.    *)
LEMMA AtNext ==
  ASSUME IInv, entry_count < n_entries
  PROVE  /\ InList
         /\ AtEntry
         /\ Here = map.entries[entry_count + 1]
         /\ mmap + EntryBytes <= End
<1> DEFINE k == entry_count + 1
<1>1. k \in 1 .. n_entries /\ map \in Maps /\ mmap = map.at[k]
  BY MapFacts DEF IInv
<1>2. Entries = 1 .. n_entries
  BY DEF Entries, n_entries
<1> HIDE DEF k
<1>3. \A i \in Entries : map.at[i] = mmap => i = k
  <2> SUFFICES ASSUME NEW i \in 1 .. n_entries, map.at[i] = map.at[k]
               PROVE  i = k
    BY <1>1, <1>2
  <2>1. map.at[i] \in Nat /\ map.at[k] \in Nat
    BY <1>1, MapFacts
  <2>2. ~ i < k
    BY <1>1, <2>1, MapFacts
  <2>3. ~ k < i
    BY <1>1, <2>1, MapFacts
  <2>4. QED
    BY <1>1, <2>2, <2>3
<1>4. AtEntry
  BY <1>1, <1>2 DEF AtEntry
<1>5. Here = map.entries[k]
  BY <1>1, <1>2, <1>3, <1>4 DEF Here
<1>6. mmap < End
  BY <1>1, MapFacts
<1>7. mmap + EntryBytes <= End
  <2>1. map.at[k + 1] = mmap + map.entries[k].size + SizeField
    BY <1>1, MapFacts
  <2>2. map.at[k + 1] <= map.at[n_entries + 1]
    <3>1. CASE k = n_entries
      BY <3>1, <1>1, MapFacts
    <3>2. CASE k < n_entries
      <4>1. k + 1 \in 1 .. n_entries /\ n_entries + 1 \in k + 1 + 1 .. n_entries + 1
        BY <3>2, <1>1, MapFacts
      <4>2. QED
        BY <4>1, <1>1, MapFacts
    <3>3. QED
      BY <3>1, <3>2, <1>1, MapFacts
  <2>3. QED
    BY <2>1, <2>2, <1>1, MapFacts
<1>8. QED
  BY <1>4, <1>5, <1>6, <1>7 DEF InList, k

(* When there are none left, the walk is over. *)
LEMMA AtEnd ==
  ASSUME IInv, entry_count = n_entries
  PROVE  ~ InList /\ mmap = End
BY MapFacts DEF IInv, InList

LEMMA Invariance == Spec => []IInv
<1>1. Init => IInv
  <2> SUFFICES ASSUME Init PROVE IInv
    OBVIOUS
  <2>1. map \in Maps /\ n_entries \in Nat
    BY MapFacts DEF Init
  <2>2. QED
    BY <2>1 DEF Init, IInv, mmap_addr
<1>2. IInv /\ [Next]_vars => IInv'
  <2> SUFFICES ASSUME IInv, [Next]_vars PROVE IInv'
    OBVIOUS
  <2>1. CASE Record
    <3> DEFINE k == entry_count + 1
    <3>1. entry_count < n_entries
      BY <2>1, AtEnd, MapFacts DEF IInv, Record
    <3>2. k \in 1 .. n_entries /\ Here = map.entries[k] /\ map \in Maps
      BY <3>1, AtNext, MapFacts DEF IInv
    <3>3. Entries = 1 .. n_entries /\ Entries' = Entries /\ n_entries' = n_entries
          /\ map' = map
      BY <2>1 DEF Record, Entries, n_entries
    <3>4. entry_count' = k /\ k \in 0 .. n_entries /\ entry_count \in Nat
          /\ entry_count = k - 1
      BY <2>1, <3>2, MapFacts DEF Record, IInv
    <3>5. mmap' = map.at[k + 1]
      <4>1. mmap' = map.at[k] + map.entries[k].size + SizeField
        BY <2>1, <3>2 DEF Record, next_entry, IInv
      <4>2. QED
        BY <4>1, <3>2, MapFacts
    <3> HIDE DEF k
    <3>6. /\ mmap_entries' \in Seq({map.entries[i] : i \in Entries})
          /\ Len(mmap_entries') = k
          /\ \A i \in 1 .. k : mmap_entries'[i] = map.entries[i]
      <4> DEFINE S == {map.entries[i] : i \in Entries}
                 e == map.entries[k]
      <4>1. e \in S /\ mmap_entries' = Append(mmap_entries, e)
        BY <2>1, <3>2, <3>3 DEF Record
      <4>2. mmap_entries \in Seq(S) /\ Len(mmap_entries) = k - 1
            /\ \A i \in 1 .. k - 1 : mmap_entries[i] = map.entries[i]
        BY <3>4 DEF IInv
      <4> HIDE DEF S
      <4>3. mmap_entries' \in Seq(S) /\ Len(mmap_entries') = k
            /\ mmap_entries'[k] = e
            /\ \A i \in 1 .. k - 1 : mmap_entries'[i] = mmap_entries[i]
        BY <4>1, <4>2, <3>2, AppendProperties
      <4>4. QED
        BY <4>2, <4>3, <3>2 DEF S
    <3>7. /\ printed' \in Seq({Line(map.entries[i]) : i \in Entries})
          /\ Len(printed') = k
          /\ \A i \in 1 .. k : printed'[i] = Line(map.entries[i])
      <4> DEFINE S == {Line(map.entries[i]) : i \in Entries}
                 e == Line(map.entries[k])
      <4>1. e \in S
        BY <3>2, <3>3
      <4>2. printed' = Append(printed, e)
        BY <2>1, <3>2, MapFacts DEF Record, Label, Line
      <4>3. printed \in Seq(S) /\ Len(printed) = k - 1
            /\ \A i \in 1 .. k - 1 : printed[i] = Line(map.entries[i])
        BY <3>4 DEF IInv
      <4> HIDE DEF S, e
      <4>4. printed' \in Seq(S) /\ Len(printed') = k
            /\ printed'[k] = e
            /\ \A i \in 1 .. k - 1 : printed'[i] = printed[i]
        BY <4>1, <4>2, <4>3, <3>2, AppendProperties
      <4>5. QED
        BY <4>3, <4>4, <3>2 DEF S, e
    <3>8. {map.entries[i] : i \in Entries}' = {map.entries[i] : i \in Entries}
          /\ {Line(map.entries[i]) : i \in Entries}'
               = {Line(map.entries[i]) : i \in Entries}
      BY <3>3
    <3>9. QED
      BY <3>2, <3>3, <3>4, <3>5, <3>6, <3>7, <3>8 DEF IInv
  <2>2. CASE UNCHANGED vars
    BY <2>2 DEF vars, IInv, n_entries, Entries
  <2>3. QED
    BY <2>1, <2>2 DEF Next
<1>3. QED
  BY <1>1, <1>2, PTL DEF Spec

(* The walk stays inside the array and inside the list, for every list     *)
(* that keeps the loader's promises: detect_memory writes no entry past    *)
(* mmap_entries.                                                           *)
THEOREM TypeCorrect == Spec => []TypeOK
<1>1. IInv => TypeOK
  <2> SUFFICES ASSUME IInv PROVE TypeOK
    OBVIOUS
  <2>1. IsMap(map) /\ map \in Maps
    BY MapAssumption DEF IInv
  <2>2. entry_count \in 0 .. ENTRY_SIZE
    BY <2>1, MapFacts DEF IInv
  <2>3. mmap \in mmap_addr .. End
    <3> DEFINE k == entry_count + 1
    <3>1. k \in 1 .. n_entries + 1 /\ mmap = map.at[k] /\ 1 \in 1 .. n_entries + 1
      BY <2>1, MapFacts DEF IInv
    <3> HIDE DEF k
    <3>2. mmap \in Nat /\ map.at[1] \in Nat /\ End \in Nat /\ End = map.at[n_entries + 1]
      BY <2>1, <3>1, MapFacts
    <3>3. map.at[1] <= mmap
      <4>1. CASE k = 1
        BY <4>1, <3>1, <3>2
      <4>2. CASE k # 1
        <5>1. 1 \in 1 .. n_entries /\ k \in 1 + 1 .. n_entries + 1
          BY <4>2, <3>1, <2>1, MapFacts
        <5>2. QED
          BY <5>1, <3>1, <3>2, <2>1, MapFacts
      <4>3. QED
        BY <4>1, <4>2
    <3>4. mmap <= End
      <4>1. CASE k = n_entries + 1
        BY <4>1, <3>1, <3>2
      <4>2. CASE k # n_entries + 1
        <5>1. k \in 1 .. n_entries /\ n_entries + 1 \in k + 1 .. n_entries + 1
          BY <4>2, <3>1, <2>1, MapFacts
        <5>2. QED
          BY <5>1, <3>1, <3>2, <2>1, MapFacts
      <4>3. QED
        BY <4>1, <4>2
    <3>5. QED
      BY <3>2, <3>3, <3>4 DEF mmap_addr
  <2>4. QED
    BY <2>1, <2>2, <2>3 DEF TypeOK, IInv
<1>2. QED
  BY <1>1, Invariance, PTL

(* What detect_memory reads is always an entry of the loader's list.       *)
THEOREM WalkReadsEntries == Spec => []ReadsEntries
<1>1. IInv => ReadsEntries
  <2> SUFFICES ASSUME IInv, InList PROVE AtEntry /\ mmap + EntryBytes <= End
    BY DEF ReadsEntries
  <2>1. entry_count < n_entries
    BY AtEnd, MapFacts DEF IInv
  <2>2. QED
    BY <2>1, AtNext
<1>2. QED
  BY <1>1, Invariance, PTL

(* detect_memory keeps and shows the loader's entries, in order, and all   *)
(* of them.                                                                *)
THEOREM WalkRecordsMap == Spec => []RecordsMap
<1>1. IInv => RecordsMap
  <2> SUFFICES ASSUME IInv PROVE RecordsMap
    OBVIOUS
  <2>1. \A i \in 1 .. entry_count :
          /\ i \in Entries
          /\ mmap_entries[i] = map.entries[i]
          /\ printed[i] = Line(map.entries[i])
    BY MapFacts DEF IInv, Entries, n_entries
  <2>2. ~ InList => entry_count = n_entries
    BY AtNext, MapFacts DEF IInv
  <2>3. QED
    BY <2>1, <2>2 DEF RecordsMap, Line, n_entries
<1>2. QED
  BY <1>1, Invariance, PTL
=============================================================================
