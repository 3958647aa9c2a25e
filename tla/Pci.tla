-------------------------------- MODULE Pci ---------------------------------
(***************************************************************************)
(* The enumeration of the PCI buses in drivers/block/pci.c, one function   *)
(* looked at per step.  The stack of calls is explicit: a frame is the     *)
(* bus, device and function number that pci_scan_bus, pci_scan_device and  *)
(* pci_scan_function have got to, and a bridge calls pci_scan_bus again.   *)
(***************************************************************************)
EXTENDS Firmware

CONSTANTS
  PCI_DEVICES,    \* device numbers of a bus, 32
  PCI_FUNCTIONS   \* function numbers of a device, 8

VARIABLES
  scan,               \* the frames of the enumeration, the innermost one last
  pci_device_list,    \* the functions found, the head of the list first
  dropped             \* the functions vmalloc had no node for

pci_vars == <<scan, pci_device_list, dropped>>

\* machine.pci[f]: the configuration space of the functions that answer.
Present(f) == f \in DOMAIN machine.pci

\* Header type 1 with a secondary bus number.
Bridge(f) == machine.pci[f].type = 1 /\ machine.pci[f].secondary # 0

PciStart ==
  /\ scan = <<<<0, 0, 0>>>>
  /\ pci_device_list = <<>>
  /\ dropped = {}

\* Mutant: the first function number that does not answer ends the device.
StopsAtHole(f) ==
  IF \/ ~Present(f)
     \/ ~machine.pci[<<f[1], f[2], 0>>].multi
     \/ f[3] + 1 = PCI_FUNCTIONS
  THEN <<f[1], f[2] + 1, 0>>
  ELSE <<f[1], f[2], f[3] + 1>>

\* The frame after function f: its device's next function if function 0
\* answers and has bit 7 of its header type set, or the next device.
Advanced(f) ==
  IF \/ ~Present(<<f[1], f[2], 0>>)
     \/ ~machine.pci[<<f[1], f[2], 0>>].multi
     \/ f[3] + 1 = PCI_FUNCTIONS
  THEN <<f[1], f[2] + 1, 0>>
  ELSE <<f[1], f[2], f[3] + 1>>

\* The innermost frame is now g.
Top(g) == [scan EXCEPT ![Len(scan)] = g]

\* pci_scan_function on a function that is not there, or that vmalloc has no
\* node for: a bridge is dropped with all that is behind it.
PciSkip(f) ==
  /\ scan' = Top(Advanced(f))
  /\ dropped' = dropped \cup ({f} \cap DOMAIN machine.pci)
  /\ UNCHANGED pci_device_list

\* A function that is not a bridge is put at the head of the list.
PciLink(f) ==
  /\ Present(f) /\ ~Bridge(f)
  /\ scan' = Top(Advanced(f))
  /\ pci_device_list' = <<f>> \o pci_device_list
  /\ UNCHANGED dropped

\* The call of pci_scan_bus on the bus behind a bridge ...
PciDescend(f) ==
  /\ Present(f) /\ Bridge(f)
  /\ scan' = Append(scan, <<machine.pci[f].secondary, 0, 0>>)
  /\ UNCHANGED <<pci_device_list, dropped>>

\* ... and its return, after which the bridge itself is put in the list.
PciReturn ==
  LET up == SubSeq(scan, 1, Len(scan) - 1)
      f  == up[Len(up)]
  IN  /\ scan' = [up EXCEPT ![Len(up)] = Advanced(f)]
      /\ pci_device_list' = <<f>> \o pci_device_list
      /\ UNCHANGED dropped

\* pci_enumerate, up to its return.
PciEnumerate ==
  /\ bpc = "pci"
  /\ \E f \in {scan[Len(scan)]} :
       IF f[2] < PCI_DEVICES
       THEN (PciSkip(f) \/ PciLink(f) \/ PciDescend(f)) /\ UNCHANGED bpc
       ELSE IF Len(scan) > 1 THEN PciReturn /\ UNCHANGED bpc
       ELSE bpc' = "ioapic" /\ UNCHANGED pci_vars
  /\ UNCHANGED fw_vars
=============================================================================
