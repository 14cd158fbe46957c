------------------------------- MODULE MCAcpi -------------------------------
(***************************************************************************)
(* Firmware layouts for Acpi.  SearchFirmwares vary where the RSDPs are    *)
(* and what they say; TableFirmwares vary the tables below one RSDP.       *)
(***************************************************************************)
EXTENDS Acpi

MCRegionLength == <<8, 7>>

Rsdt(valid, entries) ==
  [signature |-> "RSDT", valid |-> valid, entries |-> entries, lapic_addr |-> 0,
   devices |-> <<>>]

Other(valid) ==
  [signature |-> "FACP", valid |-> valid, entries |-> <<>>, lapic_addr |-> 0,
   devices |-> <<>>]

Madt(valid, lapic, devices) ==
  [signature |-> "APIC", valid |-> valid, entries |-> <<>>, lapic_addr |-> lapic,
   devices |-> devices]

Device(type, addr) == [type |-> type, addr |-> addr]
Rsdp(revision, valid, addr) ==
  [revision |-> revision, valid |-> valid, rsdt_addr |-> addr]

(* An RSDP may be at two offsets of the first region and one of the other; *)
(* each points at one of two RSDTs, with a MADT of its own.                *)
McPlaces == {<<1, 0>>, <<1, 4>>, <<2, 0>>}

Rsdps ==
  {Rsdp(0, TRUE, 1), Rsdp(0, TRUE, 2), Rsdp(0, FALSE, 1), Rsdp(2, TRUE, 1)}

TwoTrees ==
  <<Rsdt(TRUE, <<3>>), Rsdt(TRUE, <<4>>), Madt(TRUE, 1, <<Device(1, 3)>>),
    Madt(TRUE, 2, <<Device(1, 4)>>)>>

SearchFirmwares ==
  {[rsdp |-> r, sdt |-> TwoTrees] : r \in UNION {[P -> Rsdps] : P \in SUBSET McPlaces}}

DeviceLists ==
  {<<>>, <<Device(0, 9)>>, <<Device(0, 9), Device(1, 3)>>, <<Device(1, 3), Device(1, 4)>>,
   <<Device(1, 3), Device(2, 9), Device(0, 9)>>}

SecondTables ==
  {Madt(v, l, d) : v \in BOOLEAN, l \in {0, 1}, d \in DeviceLists}
    \cup {Other(TRUE), Other(FALSE), Rsdt(TRUE, <<3, 4>>), Rsdt(TRUE, <<4>>),
          Rsdt(TRUE, <<>>), Rsdt(FALSE, <<4>>)}
ThirdTables  == {Other(TRUE), Other(FALSE), Madt(TRUE, 2, <<Device(1, 4)>>), Rsdt(TRUE, <<4>>)}
FourthTables == {Other(TRUE), Other(FALSE)}

Listed == {<<>>, <<2>>, <<3>>, <<2, 3>>, <<3, 2>>, <<4, 2>>, <<2, 3, 4>>, <<2, 2>>}

TableFirmwares ==
  {[rsdp |-> [p \in {<<1, 4>>} |-> Rsdp(0, TRUE, 1)],
    sdt  |-> <<Rsdt(v, e), t2, t3, t4>>] :
     v \in BOOLEAN, e \in Listed, t2 \in SecondTables, t3 \in ThirdTables, t4 \in FourthTables}

MCFirmwares == SearchFirmwares \cup TableFirmwares
=============================================================================
