----------------------------- MODULE MCKeyboard -----------------------------
(* The machines the model is checked on.                                   *)
EXTENDS Keyboard

\* Records of the MADT.  The walk reads type, length and the fields; broken,
\* short and usable say of the record what the reference must know.
Lapic(id, flags) == [type |-> "LAPIC", length |-> 8, apic_id |-> id, flags |-> flags,
                     usable |-> flags \in {1, 2, 3}, short |-> FALSE, broken |-> FALSE]
Unit(addr, base) == [type |-> "IOAPIC", length |-> 12, address |-> addr, gsi_base |-> base,
                     short |-> FALSE, broken |-> FALSE]
Iso(irq, gsi, flags) == [type |-> "ISO", length |-> 10, irq |-> irq, gsi |-> gsi, flags |-> flags,
                         polarity |-> IF flags \in {3, 7, 15} THEN 3 ELSE 0,
                         trigger |-> CASE flags = 7 -> 1 [] flags = 15 -> 3 [] OTHER -> 0,
                         short |-> FALSE, broken |-> FALSE]
Other == [type |-> "LAPIC_NMI", length |-> 6, short |-> FALSE, broken |-> FALSE]
Short(r, n) == [r EXCEPT !.length = n, !.short = TRUE]
Broken(r, n) == [r EXCEPT !.length = n, !.broken = TRUE]

Bytes(recs) == LET sum[n \in 0..Len(recs)] == IF n = 0 THEN 44 ELSE sum[n - 1] + recs[n].length
               IN  sum[Len(recs)]
Madt(recs) == [sig |-> "APIC", sum |-> TRUE, records |-> recs, length |-> Bytes(recs)]
Root(sig, entries) == [sig |-> sig, sum |-> TRUE, entries |-> entries]
Fadt == [sig |-> "FACP", sum |-> TRUE]

Endpoint == [type |-> 0, multi |-> FALSE, secondary |-> 0]
Multi == [Endpoint EXCEPT !.multi = TRUE]
BridgeTo(b) == [Endpoint EXCEPT !.type = 1, !.secondary = b]

\* An ordinary machine: one unit, no override of IRQ 1.
Ordinary ==
  [rsdp |-> [revision |-> 2, rsdt |-> NULL,
             xsdt |-> Root("XSDT", <<Fadt, Madt(<<Lapic(0, 1), Lapic(1, 1), Unit("u0", 0),
                                                  Iso(0, 2, 0), Other>>)>>)],
   ioapics |-> [a \in {"u0"} |-> [redirs |-> 3]],
   left |-> Placeholder,
   line |-> [gsi |-> 1, pin |-> <<"u0", 1>>, low |-> FALSE, level |-> FALSE],
   pci |-> <<>>, bsp |-> 0, prio |-> [l \in Listeners |-> 0]]

\* The priorities differ, the boot CPU is not APIC id 0, IRQ 1 is overridden
\* to the second unit, and the firmware left every entry open.
Overridden ==
  [Ordinary EXCEPT
     !.rsdp = [revision |-> 0, xsdt |-> NULL,
               rsdt |-> Root("RSDT", <<[Madt(<<>>) EXCEPT !.sum = FALSE],
                                       Madt(<<Lapic(1, 1), Short(Lapic(3, 1), 6), Lapic(0, 2),
                                              Lapic(2, 0), Unit("u0", 0), Short(Unit("u1", 9), 10),
                                              Unit("u1", 2), Iso(0, 1, 0), Short(Iso(1, 0, 0), 8),
                                              Iso(1, 3, 7), Iso(1, 0, 0)>>)>>)],
     !.ioapics = [a \in {"u0", "u1"} |-> [redirs |-> 2]],
     !.left = [low |-> [vector |-> PS2_KBD_VECTOR, masked |-> FALSE, polarity |-> FALSE,
                        trigger |-> FALSE], high |-> 0],
     !.line = [gsi |-> 3, pin |-> <<"u1", 1>>, low |-> TRUE, level |-> FALSE],
     !.bsp = 1,
     !.prio = [l \in Listeners |-> IF l = CHOOSE k \in Listeners : TRUE THEN 1 ELSE 0]]

\* The line is level-triggered, active low; the arrays are too small for the
\* table, and the walk ends at a record that reaches past the end.
Level ==
  [Ordinary EXCEPT
     !.rsdp.xsdt = Root("XSDT", <<[Madt(<<Unit("u0", 0), Unit("u1", 3), Unit("u2", 6),
                                          Lapic(0, 1), Lapic(1, 1), Lapic(2, 3), Lapic(3, 1),
                                          Iso(1, 2, 15), Iso(5, 5, 0), Iso(6, 6, 0), Iso(7, 7, 0),
                                          Broken(Lapic(4, 1), 9)>>) EXCEPT !.length = @ - 1]>>),
     !.ioapics = [a \in {"u0", "u1", "u2"} |-> [redirs |-> 3]],
     !.line = [gsi |-> 2, pin |-> <<"u0", 2>>, low |-> TRUE, level |-> TRUE]]

\* Bridges, a hole in the function numbers, and a device without function 0;
\* the kernel stops after the enumeration, for want of a unit.
Bridged ==
  [Ordinary EXCEPT
     !.rsdp.xsdt.entries[2].records = <<Lapic(0, 1), Broken(Lapic(1, 1), 1), Unit("u0", 0)>>,
     !.pci = [f \in {<<0, 0, 0>>, <<0, 0, 2>>, <<0, 1, 0>>, <<0, 1, 1>>,
                     <<1, 0, 0>>, <<1, 1, 0>>, <<2, 0, 1>>, <<2, 1, 0>>} |->
                CASE f = <<0, 0, 0>> -> Multi
                  [] f = <<0, 1, 0>> -> BridgeTo(1)
                  [] f = <<1, 1, 0>> -> BridgeTo(2)
                  [] f = <<1, 0, 0>> -> BridgeTo(0)
                  [] OTHER -> Endpoint]]

\* Machines the kernel does not start on.
Unfit ==
  {[Ordinary EXCEPT !.rsdp = NULL],
   [Ordinary EXCEPT !.rsdp.xsdt = NULL],
   [Ordinary EXCEPT !.rsdp.xsdt.sig = "RSDT"],
   [Ordinary EXCEPT !.rsdp.xsdt.sum = FALSE],
   [Ordinary EXCEPT !.rsdp.xsdt.entries = <<Fadt>>],
   [Ordinary EXCEPT !.rsdp.xsdt.entries[2].records[4] = Iso(1, 5, 0)]}

MCMachines == {Ordinary, Overridden, Level, Bridged} \cup Unfit
=============================================================================
