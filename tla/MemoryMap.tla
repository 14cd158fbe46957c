----------------------------- MODULE MemoryMap -----------------------------
(***************************************************************************)
(* detect_memory: the walk over the memory map the loader left behind, a   *)
(* list of entries of varying length, each beginning with its size.  The   *)
(* walk knows the list only by where it begins and ends.                   *)
(***************************************************************************)
EXTENDS Integers, Sequences

CONSTANTS
  ENTRY_SIZE,  \* 1024: what mmap_entries has room for
  SizeField,   \* sizeof (mmap->size)
  EntryBytes,  \* sizeof *mmap, the size field included
  Labels,      \* segment_types_labels: the type each index names
  Maps         \* the lists the loader may leave

(* What the loader promises: entries that follow each other without a gap, *)
(* the addresses in "at" (one more than there are entries, the last being  *)
(* the end), none shorter than the part of it the kernel copies, not more  *)
(* than fit, of types that have a name.                                    *)
IsMap(m) ==
  /\ Len(m.entries) \in Nat /\ Len(m.entries) <= ENTRY_SIZE
  /\ m.at \in [1 .. Len(m.entries) + 1 -> Nat]
  /\ \A i \in 1 .. Len(m.entries) :
       /\ m.entries[i].size \in Nat /\ EntryBytes <= m.entries[i].size + SizeField
       /\ m.entries[i].type \in DOMAIN Labels
       /\ m.at[i + 1] = m.at[i] + m.entries[i].size + SizeField
       /\ \A j \in i + 1 .. Len(m.entries) + 1 : m.at[i] < m.at[j]

ASSUME MapAssumption ==
  /\ {ENTRY_SIZE, SizeField, EntryBytes} \subseteq Nat \ {0}
  /\ \A m \in Maps : IsMap(m)

VARIABLES
  map,          \* given: the loader's list
  mmap,         \* the address the walk is at
  entry_count,
  mmap_entries, \* the entries copied
  printed       \* the lines printed: an entry and the name of its type

vars == <<map, mmap, entry_count, mmap_entries, printed>>

Entries == 1 .. Len(map.entries)
mmap_addr == map.at[1]
mmap_length == map.at[Len(map.entries) + 1] - mmap_addr
End == mmap_addr + mmap_length

(* What is read at an address that is not an entry's is no entry.          *)
NotAnEntry == [size |-> 0, region |-> "noise", type |-> 0]
AtEntry == \E i \in Entries : map.at[i] = mmap
Here == IF AtEntry THEN map.entries[CHOOSE i \in Entries : map.at[i] = mmap] ELSE NotAnEntry

Label(type) == IF type \in DOMAIN Labels THEN Labels[type] ELSE "noise"

Init ==
  /\ map \in Maps
  /\ mmap = mmap_addr
  /\ entry_count = 0
  /\ mmap_entries = <<>>
  /\ printed = <<>>

(* Mutant of next_entry: the size is taken to include its own field.       *)
next_entry_short == mmap + Here.size

(* Mutant of next_entry: every entry is taken to be as long as the struct. *)
next_entry_fixed == mmap + EntryBytes

next_entry == mmap + Here.size + SizeField

(* Mutant of InList: one more entry is read, at the end of the list.       *)
InList_inclusive == mmap <= End

InList == mmap < End

(* One round of the loop. *)
Record ==
  /\ InList
  /\ mmap_entries' = Append(mmap_entries, Here)
  /\ printed' = Append(printed, [region |-> Here.region, label |-> Label(Here.type)])
  /\ entry_count' = entry_count + 1
  /\ mmap' = next_entry
  /\ UNCHANGED map

Next == Record

Spec == Init /\ [][Next]_vars

-----------------------------------------------------------------------------
(* No index leaves an array: not more entries are copied than mmap_entries *)
(* has room for, though nothing in the loop looks at ENTRY_SIZE.           *)
TypeOK ==
  /\ IsMap(map)
  /\ mmap \in mmap_addr .. End
  /\ entry_count \in 0 .. ENTRY_SIZE
  /\ Len(mmap_entries) = entry_count /\ Len(printed) = entry_count

(* The struct the walk reads is always an entry of the list, the last byte *)
(* of it inside the list, whatever lengths the loader mixes.               *)
ReadsEntries == InList => AtEntry /\ mmap + EntryBytes <= End

(* What is kept and what is shown are the loader's entries, each with the  *)
(* name of its type, in order; when the walk ends none is missing.         *)
RecordsMap ==
  /\ \A i \in 1 .. entry_count :
       /\ i \in Entries
       /\ mmap_entries[i] = map.entries[i]
       /\ printed[i] = [region |-> map.entries[i].region,
                        label  |-> Labels[map.entries[i].type]]
  /\ ~ InList => entry_count = Len(map.entries)
=============================================================================
