------------------------------ MODULE MCStartup -------------------------------
(* Three processors; tables in two orders, with an override, a second I/O      *)
(* controller, and tables that are missing or bad, behind root pointers of     *)
(* three revisions; two programs and none.                                     *)
EXTENDS Startup

Lapic(id, enabled) == [type |-> "LAPIC", id |-> id, acpi_id |-> id + 1, enabled |-> enabled]
Ioapic(base, n) == [type |-> "IOAPIC", gsi_base |-> base, max_entries |-> n]
Override(irq, gsi) == [type |-> "OVERRIDE", irq |-> irq, gsi |-> gsi]
Nmi(processor, lint) == [type |-> "NMI", processor_id |-> processor, lint |-> lint]

Sdt(signature, entries, checksum, space) ==
    [signature |-> signature, entries |-> entries, seen |-> << >>, checksum |-> checksum,
     address_space |-> space]
Madt(entries) == Sdt("APIC", entries, TRUE, "memory")
Hpet(space) == Sdt("HPET", << >>, TRUE, space)
Other(checksum) == Sdt("FACP", << >>, checksum, "memory")

Plain == << Lapic(0, TRUE), Lapic(1, FALSE), Ioapic(0, 4), Nmi(255, 1) >>
Moved == << Override(1, 2), Ioapic(4, 2), Ioapic(0, 4), Lapic(0, TRUE), Nmi(1, 0), Nmi(9, 1) >>
High == << Ioapic(0, 2), Ioapic(2, 4), Override(1, 3), Lapic(1, TRUE), [type |-> "ADDR"] >>

(* A root pointer of each revision; the list the revision does not use is bad. *)
Root(signature, list) == [signature |-> signature, checksum |-> TRUE, tables |-> list]
NoRoot == [signature |-> "none", checksum |-> FALSE, tables |-> << >>]
Rsdp(revision, rsdt, xsdt) ==
    [signature |-> "RSD PTR ", checksum |-> TRUE, revision |-> revision,
     extended_checksum |-> revision = 2, rsdt |-> rsdt, xsdt |-> xsdt]
Old(list) == Rsdp(0, Root("RSDT", list), NoRoot)
New(list) == Rsdp(2, NoRoot, Root("XSDT", list))

Full == <<Madt(Plain), Hpet("memory")>>
MCFirmwares ==
    { Old(Full), New(<<Other(TRUE), Hpet("memory"), Madt(Moved)>>),
      New(<<Hpet("memory"), Madt(High)>>), Old(<<Madt(Plain)>>), New(<<Hpet("memory")>>),
      New(<<Hpet("other"), Madt(Plain)>>), Old(<<Madt(Plain), Other(FALSE)>>),
      Rsdp(1, Root("RSDT", Full), Root("XSDT", Full)),
      [Old(Full) EXCEPT !.signature = "other"], [New(Full) EXCEPT !.checksum = FALSE],
      [Old(Full) EXCEPT !.rsdt.checksum = FALSE], [New(Full) EXCEPT !.extended_checksum = FALSE],
      [New(Full) EXCEPT !.xsdt.signature = "RSDT"] }

Load(virt_addr, offset, file_size, mem_size) ==
    [type |-> "PT_LOAD", virt_addr |-> virt_addr, offset |-> offset, file_size |-> file_size,
     mem_size |-> mem_size]
MCPrograms ==
    { [elf |-> TRUE, size |-> 14,
       headers |-> << Load(4, 0, 5, 6), [type |-> "other"], Load(8, 5, 1, 1), Load(12, 6, 5, 10) >>],
      [elf |-> TRUE, size |-> 9, headers |-> << Load(0, 0, 4, 4), Load(5, 1, 2, 4), Load(8, 4, 4, 4) >>],
      [elf |-> FALSE, size |-> 1, headers |-> << >>] }

MCFeatures == {"framebuffer", "memmap"}
MCResponseSets == {MCFeatures, {"memmap"}}
=============================================================================
