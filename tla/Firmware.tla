------------------------------ MODULE Firmware ------------------------------
(***************************************************************************)
(* What the kernel learns from the ACPI tables at boot: acpi_init and      *)
(* acpi_find_table (cpu/acpi.c) and the walk of the interrupt controller   *)
(* table, the MADT, in madt_init (cpu/madt.c).                             *)
(*                                                                         *)
(* A table is its signature, whether its bytes sum to zero, and its        *)
(* contents.  A MADT record is its type, its length byte and its fields.   *)
(***************************************************************************)
EXTENDS Naturals, Sequences

CONSTANTS
  NULL,
  MADT_MAX_LAPICS,
  MADT_MAX_IOAPICS,
  MADT_MAX_ISOS

VARIABLES
  machine,        \* the machine booted: its tables and its devices
  bpc,            \* the next step of kmain on the boot CPU
  root,           \* the table of tables in use: xsdt or rsdt, or NULL
  g_lapics, g_ioapics, g_isos     \* the arrays madt_init fills, up to their counts

fw_vars == <<machine, root, g_lapics, g_ioapics, g_isos>>

\* The bytes of madt_t, and of the records the walk knows.
MADT_HEADER == 44
RecordSize == [LAPIC |-> 8, IOAPIC |-> 12, ISO |-> 10]

-----------------------------------------------------------------------------
(* acpi.c                                                                  *)

\* The root table acpi_init looks at: the XSDT of a revision 2 RSDP that has one.
RootTable ==
  IF machine.rsdp.revision >= 2 /\ machine.rsdp.xsdt # NULL
  THEN machine.rsdp.xsdt
  ELSE machine.rsdp.rsdt

\* acpi_init panics: no RSDP, no root table, or one with another signature.
AcpiInitPanics ==
  \/ machine.rsdp = NULL
  \/ RootTable = NULL
  \/ RootTable.sig # IF machine.rsdp.revision >= 2 /\ machine.rsdp.xsdt # NULL
                     THEN "XSDT" ELSE "RSDT"

\* A root table that does not sum to zero is not used, and there is no other.
AcpiInit ==
  /\ bpc = "acpi"
  /\ IF AcpiInitPanics
     THEN bpc' = "panic" /\ UNCHANGED root
     ELSE bpc' = "madt" /\ root' = IF RootTable.sum THEN RootTable ELSE NULL
  /\ UNCHANGED <<machine, g_lapics, g_ioapics, g_isos>>

\* acpi_find_table: the first table with the signature whose bytes sum to zero.
acpi_find_table(sig) ==
  LET fits == {i \in 1..(IF root = NULL THEN 0 ELSE Len(root.entries)) :
                 root.entries[i].sig = sig /\ root.entries[i].sum}
  IN  IF fits = {} THEN NULL
      ELSE root.entries[CHOOSE i \in fits : \A j \in fits : i <= j]

-----------------------------------------------------------------------------
(* madt.c                                                                  *)

\* Mutant: the shift that brings the trigger mode down is forgotten.
TriggerUnshifted(flags) == flags % 4

ISO_POLARITY(flags) == flags % 4
ISO_TRIGGER(flags)  == (flags \div 4) % 4

\* One record, of an array that has room for max of them.
Added(array, max, entry) == IF Len(array) < max THEN Append(array, entry) ELSE array

\* MADT_LAPIC_ENABLED or MADT_LAPIC_ONLINE_CAPABLE.
Usable(rec) == rec.flags % 4 # 0

\* The arrays after the switch on rec->type.
Recorded(w, rec) ==
  IF rec.type \notin DOMAIN RecordSize \/ rec.length < RecordSize[rec.type] THEN w
  ELSE CASE rec.type = "LAPIC" ->
              IF ~Usable(rec) THEN w
              ELSE [w EXCEPT !.lapics = Added(@, MADT_MAX_LAPICS, rec.apic_id)]
         [] rec.type = "IOAPIC" ->
              [w EXCEPT !.ioapics = Added(@, MADT_MAX_IOAPICS,
                                          [address |-> rec.address, gsi_base |-> rec.gsi_base])]
         [] rec.type = "ISO" ->
              [w EXCEPT !.isos = Added(@, MADT_MAX_ISOS,
                                       [irq |-> rec.irq, gsi |-> rec.gsi,
                                        polarity |-> ISO_POLARITY(rec.flags),
                                        trigger |-> ISO_TRIGGER(rec.flags)])]

\* One turn of the loop: it ends at the end of the table and at a record that
\* is too short to have a header or that reaches past the end.
Walked(w, rec, end) ==
  IF w.stop \/ w.ptr >= end \/ rec.length < 2 \/ w.ptr + rec.length > end
  THEN [w EXCEPT !.stop = TRUE]
  ELSE [Recorded(w, rec) EXCEPT !.ptr = @ + rec.length]

\* The walk over all records of the table.
Walk(madt) ==
  LET after[n \in 0..Len(madt.records)] ==
        IF n = 0
        THEN [ptr |-> MADT_HEADER, stop |-> FALSE,
              lapics |-> g_lapics, ioapics |-> g_ioapics, isos |-> g_isos]
        ELSE Walked(after[n - 1], madt.records[n], madt.length)
  IN  after[Len(madt.records)]

MadtInit ==
  /\ bpc = "madt"
  /\ bpc' = "pci"
  /\ \E madt \in {acpi_find_table("APIC")} :
       IF madt = NULL
       THEN UNCHANGED <<g_lapics, g_ioapics, g_isos>>
       ELSE \E w \in {Walk(madt)} :
              g_lapics' = w.lapics /\ g_ioapics' = w.ioapics /\ g_isos' = w.isos
  /\ UNCHANGED <<machine, root>>
=============================================================================
