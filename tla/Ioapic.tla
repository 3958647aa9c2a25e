------------------------------- MODULE Ioapic -------------------------------
(***************************************************************************)
(* The I/O APICs: cpu/ioapic.c.  A redirection entry is two registers,     *)
(* written one after the other: low has the vector, the mask bit, the      *)
(* polarity and the trigger mode, high the APIC id of the destination.     *)
(* The interrupt controllers decide on an interrupt with what the two      *)
(* registers hold at that moment.                                          *)
(*                                                                         *)
(* Every access is a write of regsel and one of window, which all callers  *)
(* share, and the code takes no lock around them.  The boot CPU alone does *)
(* the routing; x86_ioapic_mask_gsi is modelled for callers that do not    *)
(* overlap (nothing in the kernel calls it yet).                           *)
(***************************************************************************)
EXTENDS Pci

CONSTANTS
  PS2_KBD_VECTOR  \* 0x21

VARIABLES
  g_ioapic_desc,  \* the units initialised, up to g_ioapic_desc_count
  g_ioapic_ready,
  redir,          \* redir[<<address, index>>]: the redirection registers
  mask,           \* the x86_ioapic_mask_gsi call under way
  opened          \* history: the GSIs of which a driver last asked to be unmasked

ioapic_vars == <<g_ioapic_desc, g_ioapic_ready, redir, mask, opened>>

Pins == UNION {{<<a, i>> : i \in 0..(machine.ioapics[a].redirs - 1)} : a \in DOMAIN machine.ioapics}

\* IOAPIC_REDIR_MASKED | 0x20, destination 0.
Placeholder ==
  [low |-> [vector |-> 32, masked |-> TRUE, polarity |-> FALSE, trigger |-> FALSE], high |-> 0]

NoCall == [pc |-> "none"]

\* The registers as the firmware leaves them.
IoapicStart ==
  /\ g_ioapic_desc = <<>>
  /\ g_ioapic_ready = FALSE
  /\ redir = [p \in Pins |-> machine.left]
  /\ mask = NoCall /\ opened = {}

\* ioapic_write_redir on every entry of the unit.
MasksAll(io) ==
  [p \in Pins |-> IF p[1] = io.address /\ p[2] < io.max_redirs
                  THEN Placeholder ELSE redir[p]]

\* x86_ioapic_init, one unit of the MADT after the other; without any it
\* fails and arch_irq_init panics.
IoapicInit ==
  /\ bpc = "ioapic"
  /\ IF g_ioapics = <<>>
     THEN bpc' = "panic" /\ UNCHANGED <<g_ioapic_desc, g_ioapic_ready, redir>>
     ELSE \E from \in {g_ioapics[Len(g_ioapic_desc) + 1]} :
          \E io \in {[address |-> from.address, gsi_base |-> from.gsi_base,
                      max_redirs |-> machine.ioapics[from.address].redirs]} :
            /\ g_ioapic_desc' = Append(g_ioapic_desc, io)
            /\ redir' = MasksAll(io)
            /\ g_ioapic_ready' = (Len(g_ioapic_desc') = Len(g_ioapics))
            /\ bpc' = IF g_ioapic_ready' THEN "handler" ELSE "ioapic"
  /\ UNCHANGED <<mask, opened>>

-----------------------------------------------------------------------------

\* ioapic_for_gsi: the register pair of a GSI in the first unit that has it.
ioapic_for_gsi(gsi) ==
  LET has == {i \in DOMAIN g_ioapic_desc :
                /\ gsi >= g_ioapic_desc[i].gsi_base
                /\ gsi <= g_ioapic_desc[i].gsi_base + g_ioapic_desc[i].max_redirs - 1}
  IN  IF has = {} THEN NULL
      ELSE LET i == CHOOSE i \in has : \A j \in has : i <= j
           IN  <<g_ioapic_desc[i].address, gsi - g_ioapic_desc[i].gsi_base>>

\* find_iso_for_irq, and what stands in for it without one: the GSI of the
\* same number, with the polarity and trigger mode of the bus.
find_iso_for_irq(irq) ==
  LET fits == {i \in DOMAIN g_isos : g_isos[i].irq = irq}
  IN  IF fits = {} THEN [irq |-> irq, gsi |-> irq, polarity |-> 0, trigger |-> 0]
      ELSE g_isos[CHOOSE i \in fits : \A j \in fits : i <= j]

\* x86_ioapic_route_isa_irq(irq, vector, false) up to the write of the low
\* register: fail if there is no unit for the GSI or the vector is below 32.
RouteLow(irq, vector, ok, fail) ==
  \E iso \in {find_iso_for_irq(irq)} : \E pin \in {ioapic_for_gsi(iso.gsi)} :
    /\ bpc' = IF ~g_ioapic_ready \/ vector < 32 \/ pin = NULL THEN fail ELSE ok
    /\ redir' = IF bpc' = fail THEN redir
                ELSE [redir EXCEPT ![pin].low =
                        [vector |-> vector, masked |-> FALSE,
                         polarity |-> iso.polarity = 3, trigger |-> iso.trigger = 3]]
    /\ UNCHANGED <<g_ioapic_desc, g_ioapic_ready, mask, opened>>

\* ... and the write of the high register, with the id of the calling CPU.
RouteHigh(irq, dest) ==
  /\ redir' = [redir EXCEPT ![ioapic_for_gsi(find_iso_for_irq(irq).gsi)].high = dest]
  /\ UNCHANGED <<g_ioapic_desc, g_ioapic_ready, mask, opened>>

\* x86_ioapic_mask_gsi: ioapic_read_redir ...
MaskRead(gsi, masked) ==
  /\ mask = NoCall /\ g_ioapic_ready
  /\ \E pin \in {ioapic_for_gsi(gsi)} :
       /\ pin # NULL
       /\ mask' = [pc |-> "low", gsi |-> gsi, masked |-> masked, pin |-> pin, entry |-> redir[pin]]
  /\ UNCHANGED <<g_ioapic_desc, g_ioapic_ready, redir, opened>>

\* ... and ioapic_write_redir of the entry with its mask bit changed, first
\* the low register ...
MaskLow ==
  /\ mask.pc = "low"
  /\ redir' = [redir EXCEPT ![mask.pin].low = [mask.entry.low EXCEPT !.masked = mask.masked]]
  /\ mask' = [mask EXCEPT !.pc = "high"]
  /\ opened' = IF mask.masked THEN opened \ {mask.gsi} ELSE opened \cup {mask.gsi}
  /\ UNCHANGED <<g_ioapic_desc, g_ioapic_ready>>

\* ... and then the high register.
MaskHigh ==
  /\ mask.pc = "high"
  /\ redir' = [redir EXCEPT ![mask.pin].high = mask.entry.high]
  /\ mask' = NoCall
  /\ UNCHANGED <<g_ioapic_desc, g_ioapic_ready, opened>>
=============================================================================
