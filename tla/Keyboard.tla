------------------------------ MODULE Keyboard ------------------------------
(***************************************************************************)
(* The way of a key press from the keyboard to the listeners: the boot     *)
(* steps that discover and program the interrupt controllers, IRQ 1, the   *)
(* interrupt handler and the list of listeners of                          *)
(* drivers/IO/ps2_keyboard.c, with every CPU registering and unregistering *)
(* listeners at the same time.                                             *)
(***************************************************************************)
EXTENDS Ioapic, Integers

CONSTANTS
  CPUs,           \* APIC ids
  Machines,
  Listeners,
  Codes,          \* scan codes of set 1
  Lines           \* GSIs of other drivers

VARIABLES
  obf,            \* the byte in the controller's output buffer, the boot step at
                  \*   which it came and whether it follows the prefix, or NULL
  last,           \* history: the last byte the keyboard sent was the prefix
  irr,            \* irr[c]: vector 0x21 is pending in the local APIC of c
  irq_handler,    \* g_irq_handlers[0x21] is set
  g_kbd_lock,     \* the context that holds the lock, or NULL
  g_kbd_list,     \* the listeners linked, the head of the list first
  g_e0_prefix,
  isr,            \* isr[c]: the keyboard interrupt c is serving
  t               \* t[c]: the register or unregister call of the thread on c

kbd_vars == <<irq_handler, g_kbd_lock, g_kbd_list, g_e0_prefix, isr, t>>
boot_vars == <<bpc, fw_vars, pci_vars, ioapic_vars>>
vars == <<boot_vars, obf, last, irr, kbd_vars>>

\* The boot steps during which the keyboard may send a byte.
TypingSteps == {"ioapic", "handler", "low", "high", "sti", "run"}

\* A scan code is a byte, a GSI a number and a priority an int; NULL is no
\* listener, no context and no byte in a buffer.
ASSUME KeyboardAssumption ==
  /\ Codes \subseteq 0..255 /\ Lines \subseteq Nat
  /\ \A m \in Machines : m.prio \in [Listeners -> Int]
  /\ NULL \notin Listeners
  /\ NULL \notin CPUs \X {"isr", "thread"}
  /\ NULL \notin [code : Codes, when : TypingSteps, after : BOOLEAN]

\* The functions of the PCI buses have numbers in range, and the firmware has
\* numbered the buses: every bridge leads to a bus of its own, with a higher
\* number than the one it is on.
ASSUME PciAssumption ==
  /\ PCI_DEVICES \in Nat /\ PCI_FUNCTIONS \in Nat
  /\ \A m \in Machines :
       /\ DOMAIN m.pci \subseteq Nat \X (0 .. PCI_DEVICES - 1) \X (0 .. PCI_FUNCTIONS - 1)
       /\ \A f \in DOMAIN m.pci : m.pci[f].type = 1 /\ m.pci[f].secondary # 0 =>
            /\ m.pci[f].secondary \in Nat /\ f[1] < m.pci[f].secondary
            /\ \A g \in DOMAIN m.pci :
                 m.pci[g].type = 1 /\ m.pci[g].secondary = m.pci[f].secondary => f = g

PREFIX == 224       \* 0xE0
None == [pc |-> "none"]
Idle == [pc |-> "idle"]

Init ==
  /\ machine \in Machines
  /\ bpc = "acpi" /\ root = NULL
  /\ g_lapics = <<>> /\ g_ioapics = <<>> /\ g_isos = <<>>
  /\ PciStart /\ IoapicStart
  /\ obf = NULL /\ irr = [c \in CPUs |-> FALSE]
  /\ irq_handler = FALSE /\ g_kbd_lock = NULL /\ g_kbd_list = <<>>
  /\ g_e0_prefix = FALSE /\ last = FALSE
  /\ isr = [c \in CPUs |-> None] /\ t = [c \in CPUs |-> Idle]

-----------------------------------------------------------------------------
(* The boot CPU: arch_acpi_init and arch_irq_init.                         *)

\* ps2_keyboard_init: the handler, then the route.
KbdInit ==
  \/ /\ bpc = "handler" /\ bpc' = "low"
     /\ irq_handler' = TRUE
     /\ UNCHANGED ioapic_vars
  \/ /\ bpc = "low"
     /\ RouteLow(1, PS2_KBD_VECTOR, "high", "panic")
     /\ UNCHANGED irq_handler
  \/ /\ bpc = "high" /\ bpc' = "sti"
     /\ RouteHigh(1, machine.bsp)
     /\ UNCHANGED irq_handler

\* The sti at the end of arch_irq_init.
Sti == bpc = "sti" /\ bpc' = "run"

Boot ==
  \/ (AcpiInit \/ MadtInit) /\ UNCHANGED <<pci_vars, ioapic_vars, obf, last, irr, kbd_vars>>
  \/ PciEnumerate /\ UNCHANGED <<ioapic_vars, obf, last, irr, kbd_vars>>
  \/ IoapicInit /\ UNCHANGED <<fw_vars, pci_vars, obf, last, irr, kbd_vars>>
  \/ /\ KbdInit
     /\ UNCHANGED <<fw_vars, pci_vars, obf, irr, g_kbd_lock, g_kbd_list, g_e0_prefix,
                    last, isr, t>>
  \/ Sti /\ UNCHANGED <<fw_vars, pci_vars, ioapic_vars, obf, last, irr, kbd_vars>>

\* A driver masks or unmasks its own line.
DriverMasks ==
  /\ \/ /\ bpc = "run"
        /\ \E gsi \in Lines, masked \in BOOLEAN :
             gsi # machine.line.gsi /\ MaskRead(gsi, masked)
     \/ MaskLow
     \/ MaskHigh
  /\ UNCHANGED <<bpc, fw_vars, pci_vars, obf, last, irr, kbd_vars>>

-----------------------------------------------------------------------------
(* The keyboard, its controller and the interrupt controllers.             *)

\* The entry of the line of IRQ 1, and whether it lets the interrupt through
\* to a CPU that is there.
Entry == redir[machine.line.pin]
Open  == ~Entry.low.masked /\ Entry.low.vector = PS2_KBD_VECTOR /\ Entry.high \in CPUs

\* The controller has a byte: its line rises.  An edge the entry does not
\* let through is lost.
Type(code) ==
  /\ bpc \in TypingSteps
  /\ obf = NULL
  /\ obf' = [code |-> code, when |-> bpc, after |-> last]
  /\ last' = (code = PREFIX)
  /\ irr' = IF Open THEN [irr EXCEPT ![Entry.high] = TRUE] ELSE irr
  /\ UNCHANGED <<boot_vars, kbd_vars>>

\* A level-triggered entry sends again as long as the line is high, once the
\* last interrupt has been answered.
RaiseLevel ==
  /\ obf # NULL /\ Open /\ Entry.low.trigger
  /\ \A c \in CPUs : ~irr[c] /\ isr[c] = None
  /\ irr' = [irr EXCEPT ![Entry.high] = TRUE]
  /\ UNCHANGED <<boot_vars, obf, last, kbd_vars>>

-----------------------------------------------------------------------------
(* ps2_keyboard_irq, called from isr_handler through irq_dispatch.         *)

\* Mutant: the callers take the lock with interrupts enabled.
NeverMasked(c) == c = machine.bsp => bpc = "run"

\* The interrupt flag: clear on the boot CPU until its sti, and inside
\* spin_lock_irqsave ... spin_unlock_irqrestore.
InterruptsOn(c) == t[c] = Idle /\ (c = machine.bsp => bpc = "run")

TakeIrq(c) ==
  /\ irr[c] /\ isr[c] = None /\ InterruptsOn(c) /\ bpc # "panic"
  /\ irr' = [irr EXCEPT ![c] = FALSE]
  /\ isr' = [isr EXCEPT ![c] = [pc |-> IF irq_handler THEN "lock" ELSE "eoi"]]
  /\ UNCHANGED <<boot_vars, obf, irq_handler, g_kbd_lock, g_kbd_list, g_e0_prefix,
                 last, t>>

KbdIrqLock(c) ==
  /\ isr[c].pc = "lock" /\ g_kbd_lock = NULL
  /\ g_kbd_lock' = <<c, "isr">>
  /\ isr' = [isr EXCEPT ![c] = [pc |-> "read"]]
  /\ UNCHANGED <<boot_vars, obf, irr, irq_handler, g_kbd_list, g_e0_prefix, last, t>>

\* The first listener, or the one linked after l.
Head1 == IF g_kbd_list = <<>> THEN NULL ELSE g_kbd_list[1]
NextOf(l) ==
  LET at == {i \in 1..(Len(g_kbd_list) - 1) : g_kbd_list[i] = l}
  IN  IF at = {} THEN NULL ELSE g_kbd_list[(CHOOSE i \in at : TRUE) + 1]

\* kbd_event_t.
EventOf(code) ==
  [e0_prefix |-> g_e0_prefix, pressed |-> code < 128, keycode |-> code % 128]

\* The read of port 0x60 makes room for the next byte.
KbdIrqRead(c) ==
  /\ isr[c].pc = "read" /\ obf # NULL
  /\ obf' = NULL
  /\ g_e0_prefix' = (obf.code = PREFIX)
  /\ IF obf.code = PREFIX
     THEN /\ isr' = [isr EXCEPT ![c] = [pc |-> "eoi"]]
          /\ g_kbd_lock' = NULL
     ELSE /\ isr' = [isr EXCEPT ![c] = [pc |-> "call", event |-> EventOf(obf.code),
                                        read |-> <<obf.after, obf.code>>, listener |-> Head1,
                                        called |-> <<>>]]
          /\ UNCHANGED g_kbd_lock
  /\ UNCHANGED <<boot_vars, last, irr, irq_handler, g_kbd_list, t>>

\* One listener's handler, or the end of the list.
KbdIrqCall(c) ==
  /\ isr[c].pc = "call"
  /\ IF isr[c].listener # NULL
     THEN /\ isr' = [isr EXCEPT ![c].listener = NextOf(@), ![c].called = Append(@, isr[c].listener)]
          /\ UNCHANGED g_kbd_lock
     ELSE /\ isr' = [isr EXCEPT ![c].pc = "eoi"]
          /\ g_kbd_lock' = NULL
  /\ UNCHANGED <<boot_vars, obf, irr, irq_handler, g_kbd_list, g_e0_prefix, last, t>>

KbdIrqEoi(c) ==
  /\ isr[c].pc = "eoi"
  /\ isr' = [isr EXCEPT ![c] = None]
  /\ UNCHANGED <<boot_vars, obf, irr, irq_handler, g_kbd_lock, g_kbd_list, g_e0_prefix,
                 last, t>>

IsrStep(c) == TakeIrq(c) \/ KbdIrqLock(c) \/ KbdIrqRead(c) \/ KbdIrqCall(c) \/ KbdIrqEoi(c)

-----------------------------------------------------------------------------
(* kbd_register_listener and kbd_unregister_listener.                      *)

\* A thread calls: spin_lock_irqsave clears the interrupt flag and spins.
KbdCall(c) ==
  /\ bpc \in {"low", "high", "sti", "run"}
  /\ c = machine.bsp => bpc = "run"
  /\ t[c] = Idle /\ isr[c] = None
  /\ \E op \in {"register", "unregister"}, l \in Listeners :
       t' = [t EXCEPT ![c] = [pc |-> "spin", op |-> op, listener |-> l]]
  /\ UNCHANGED <<boot_vars, obf, irr, irq_handler, g_kbd_lock, g_kbd_list, g_e0_prefix,
                 last, isr>>

KbdCallLock(c) ==
  /\ t[c].pc = "spin" /\ isr[c] = None /\ g_kbd_lock = NULL
  /\ g_kbd_lock' = <<c, "thread">>
  /\ t' = [t EXCEPT ![c].pc = "held"]
  /\ UNCHANGED <<boot_vars, obf, irr, irq_handler, g_kbd_list, g_e0_prefix, last, isr>>

\* Mutant: the walk stops at a listener of the same priority, too.
StopsAtEquals(l) ==
  {i \in DOMAIN g_kbd_list : g_kbd_list[i] = l \/ machine.prio[g_kbd_list[i]] <= machine.prio[l]}

\* The links at which the walk for a place for l stops: l itself and every
\* listener of a lower priority.
Stops(l) ==
  {i \in DOMAIN g_kbd_list : g_kbd_list[i] = l \/ machine.prio[g_kbd_list[i]] < machine.prio[l]}

\* The list after the registration of l: it is not linked twice.
Registered(l) ==
  LET at == IF Stops(l) = {} THEN Len(g_kbd_list) + 1
            ELSE CHOOSE i \in Stops(l) : \A j \in Stops(l) : i <= j
  IN  IF at \in DOMAIN g_kbd_list /\ g_kbd_list[at] = l THEN g_kbd_list
      ELSE SubSeq(g_kbd_list, 1, at - 1) \o <<l>> \o SubSeq(g_kbd_list, at, Len(g_kbd_list))

\* The list after kbd_unregister_listener: the first link to l is taken out.
Unregistered(l) ==
  LET links == {i \in DOMAIN g_kbd_list : g_kbd_list[i] = l}
      at == CHOOSE i \in links : \A j \in links : i <= j
  IN  IF links = {} THEN g_kbd_list
      ELSE SubSeq(g_kbd_list, 1, at - 1) \o SubSeq(g_kbd_list, at + 1, Len(g_kbd_list))

\* The body of the call, up to spin_unlock_irqrestore.
KbdCallBody(c) ==
  /\ t[c].pc = "held" /\ isr[c] = None
  /\ g_kbd_list' = IF t[c].op = "register" THEN Registered(t[c].listener)
                   ELSE Unregistered(t[c].listener)
  /\ g_kbd_lock' = NULL
  /\ t' = [t EXCEPT ![c] = Idle]
  /\ UNCHANGED <<boot_vars, obf, irr, irq_handler, g_e0_prefix, last, isr>>

ThreadStep(c) == KbdCallLock(c) \/ KbdCallBody(c)

-----------------------------------------------------------------------------

Next ==
  \/ Boot
  \/ DriverMasks
  \/ \E code \in Codes : Type(code)
  \/ RaiseLevel
  \/ \E c \in CPUs : IsrStep(c) \/ KbdCall(c) \/ ThreadStep(c)

\* The boot CPU, the controllers and the code on every CPU go on, and a
\* processor takes a pending interrupt at some instruction that finds the
\* flag set.  The lock, a test-and-set lock, promises nothing to a CPU that
\* spins while others take it.
Fairness ==
  /\ WF_vars(Boot) /\ WF_vars(RaiseLevel)
  /\ \A c \in CPUs : SF_vars(TakeIrq(c)) /\ WF_vars(IsrStep(c)) /\ WF_vars(ThreadStep(c))

Spec == Init /\ [][Next]_vars /\ Fairness

-----------------------------------------------------------------------------
(* Reference: what the tables and the buses hold, read without a parser.   *)

\* The records of the MADT that is used, up to the first one that is broken.
Records ==
  LET used == {i \in DOMAIN root.entries : root.entries[i].sig = "APIC" /\ root.entries[i].sum}
      recs == root.entries[CHOOSE i \in used : \A j \in used : i <= j].records
      good == {n \in 0..Len(recs) : \A i \in 1..n : ~recs[i].broken}
  IN  IF root = NULL \/ used = {} THEN <<>>
      ELSE SubSeq(recs, 1, CHOOSE n \in good : \A m \in good : m <= n)

\* The records of a type that are whole; the first max of them fit.
Whole(type, max) ==
  LET all == SelectSeq(Records, LAMBDA r : r.type = type /\ ~r.short
                                           /\ (type = "LAPIC" => r.usable))
  IN  SubSeq(all, 1, IF Len(all) < max THEN Len(all) ELSE max)

\* The functions that answer on bus b, and the buses that can be reached
\* through bridges that have a node: the smallest set that has bus 0 and
\* what is behind its bridges.
OnBus(b) ==
  {f \in DOMAIN machine.pci :
     f[1] = b /\ (f[3] = 0 \/ (<<b, f[2], 0>> \in DOMAIN machine.pci
                                /\ machine.pci[<<b, f[2], 0>>].multi))}

AllBuses == {0} \cup {machine.pci[f].secondary : f \in DOMAIN machine.pci}
Closed(B) ==
  0 \in B /\ \A b \in B : \A f \in OnBus(b) \ dropped : Bridge(f) => machine.pci[f].secondary \in B
Buses == {b \in AllBuses : \A B \in SUBSET AllBuses : Closed(B) => b \in B}
Reachable == UNION {OnBus(b) : b \in Buses}

-----------------------------------------------------------------------------
(* Properties.                                                             *)

\* Once arch_acpi_init has returned, the PCI list holds every function that
\* can be reached and has a node, exactly once.
PciExact ==
  bpc \notin {"acpi", "madt", "pci", "panic"} =>
    /\ {pci_device_list[i] : i \in DOMAIN pci_device_list} = Reachable \ dropped
    /\ \A i, j \in DOMAIN pci_device_list : pci_device_list[i] = pci_device_list[j] => i = j

\* Then, too, the arrays hold the usable records of the MADT up to their
\* size, in the order of the table and with the fields the routing reads:
\* madt_init and pci_enumerate miss nothing and count nothing twice.
InventoryExact ==
  /\ PciExact
  /\ bpc \notin {"acpi", "madt", "pci", "panic"} =>
    /\ g_lapics = [i \in DOMAIN Whole("LAPIC", MADT_MAX_LAPICS) |->
                     Whole("LAPIC", MADT_MAX_LAPICS)[i].apic_id]
    /\ g_ioapics = [i \in DOMAIN Whole("IOAPIC", MADT_MAX_IOAPICS) |->
                      [address |-> Whole("IOAPIC", MADT_MAX_IOAPICS)[i].address,
                       gsi_base |-> Whole("IOAPIC", MADT_MAX_IOAPICS)[i].gsi_base]]
    /\ g_isos = [i \in DOMAIN Whole("ISO", MADT_MAX_ISOS) |->
                   [f \in {"irq", "gsi", "polarity", "trigger"} |->
                      Whole("ISO", MADT_MAX_ISOS)[i][f]]]

\* Once arch_irq_init has returned, the line the keyboard is wired to
\* interrupts the boot CPU with the keyboard's vector, its polarity and its
\* trigger mode, and every other line of the units in use is masked unless
\* its driver unmasked it: whatever the firmware left in the registers, and
\* wherever the override of IRQ 1 sends it, x86_ioapic_route_isa_irq finds
\* the entry, and x86_ioapic_mask_gsi, between any two of its writes, has
\* changed no other, as long as no two calls overlap.
RouteExact ==
  bpc \in {"sti", "run"} =>
    /\ Entry = [low |-> [vector |-> PS2_KBD_VECTOR, masked |-> FALSE,
                          polarity |-> machine.line.low, trigger |-> machine.line.level],
                 high |-> machine.bsp]
    /\ \A p \in Pins \ {machine.line.pin} : \A u \in DOMAIN g_ioapics :
         g_ioapics[u].address = p[1] =>
           redir[p] = [Placeholder EXCEPT !.low.masked = (g_ioapics[u].gsi_base + p[2]) \notin opened]

\* The listeners are in order of priority and none is linked twice, an
\* interrupt finds the byte it was sent for, its event says whether the
\* keyboard sent the prefix just before that byte, and when the handler is
\* done it has called exactly the listeners that are registered, the most
\* important first: no byte is lost or read twice on its way, and no listener
\* is called after its unregister call returned, whatever CPUs do.
EventsRight ==
  /\ \A i, j \in DOMAIN g_kbd_list :
       i < j => /\ g_kbd_list[i] # g_kbd_list[j]
                /\ machine.prio[g_kbd_list[i]] >= machine.prio[g_kbd_list[j]]
  /\ \A c \in CPUs :
       /\ isr[c].pc = "read" => obf # NULL
       /\ isr[c].pc = "call" =>
            /\ isr[c].event = [e0_prefix |-> isr[c].read[1], pressed |-> isr[c].read[2] \in 0..127,
                               keycode |-> isr[c].read[2] % 128]
            /\ isr[c].listener = NULL => isr[c].called = g_kbd_list
            /\ isr[c].listener # NULL => \E i \in DOMAIN g_kbd_list : g_kbd_list[i] = isr[c].listener

\* CPU c waits for g_kbd_lock for ever, although it is free again and again:
\* others take it each time.
Starved(c) ==
  /\ <>[](isr[c].pc = "lock" \/ t[c].pc = "spin")
  /\ []<>(g_kbd_lock = NULL)

\* A byte that comes when IRQ 1 has been routed is read, and on a
\* level-triggered line one that came before, too, unless the lock starves a
\* CPU: no early return of ps2_keyboard_irq keeps the lock, and no CPU is
\* interrupted by the keyboard while it holds the lock itself.
KeysHandled ==
  \/ \E c \in CPUs : Starved(c)
  \/ (obf # NULL /\ (obf.when \in {"sti", "run"} \/ machine.line.level)) ~> (obf = NULL)
=============================================================================
