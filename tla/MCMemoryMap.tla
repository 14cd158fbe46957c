---------------------------- MODULE MCMemoryMap ----------------------------
(***************************************************************************)
(* Loader's lists for MemoryMap: up to three entries, as long as the       *)
(* struct or longer.                                                       *)
(***************************************************************************)
EXTENDS MemoryMap

MCLabels == <<"Usable", "Reserved">>

McSizes == {2, 3, 5}
McEntry == [size : McSizes, region : {"low", "high"}, type : DOMAIN MCLabels]
McLists == UNION {[1 .. n -> McEntry] : n \in 0 .. 3}

McAddresses(list) ==
  LET at[i \in 1 .. Len(list) + 1] ==
        IF i = 1 THEN 1 ELSE at[i - 1] + list[i - 1].size + SizeField
  IN  at

MCMaps ==
  {[entries |-> list, at |-> McAddresses(list)] :
     list \in McLists}
=============================================================================
