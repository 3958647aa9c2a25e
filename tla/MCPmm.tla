------------------------------- MODULE MCPmm -------------------------------
(***************************************************************************)
(* Small instances of Pmm.  Two "bytes" make a page, an address word has   *)
(* 40 values, the kernel image is [5, 7).                                  *)
(***************************************************************************)
EXTENDS Pmm

E(b, l, t) == [base |-> b, length |-> l, type |-> t]

\* Three adjacent entries with every choice of two cuts (aligned or not),
\* followed by a reserved tail that fixes the number of pages at 8.  The
\* kernel image lies in the first entry, or in the second when that one is
\* reserved: a boot loader never marks it reclaimable.
CutMaps ==
  {<<E(0, x, "USABLE"), E(x, y - x, t), E(y, 14 - y, u), E(14, 2, "RESERVED")>> :
     x \in {2, 7, 8}, y \in {9, 10, 11}, t \in {"RECLAIMABLE", "RESERVED"},
     u \in {"USABLE", "RECLAIMABLE"}}
  \ {<<E(0, 2, "USABLE"), E(2, y - 2, "RECLAIMABLE"), E(y, 14 - y, u), E(14, 2, "RESERVED")>> :
       y \in {9, 10, 11}, u \in {"USABLE", "RECLAIMABLE"}}

\* Edges: no map, a map that ends within the last page of the address space
\* (the page count wraps to 0), one whose length wraps, one too small for the
\* bitmap, a single page, overlapping usable entries, a two-page bitmap.
EdgeMaps ==
  {<<>>,
   <<E(0, 8, "USABLE"), E(37, 3, "USABLE")>>,
   <<E(0, 8, "USABLE"), E(39, 9, "RESERVED")>>,
   <<E(0, 1, "USABLE"), E(1, 5, "RESERVED")>>,
   <<E(0, 2, "USABLE")>>,
   <<E(1, 9, "USABLE"), E(4, 8, "USABLE"), E(12, 4, "RECLAIMABLE")>>,
   <<E(2, 1, "USABLE"), E(10, 10, "USABLE"), E(30, 6, "RESERVED")>>}

Maps == CutMaps \cup EdgeMaps

=============================================================================
