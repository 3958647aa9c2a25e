-------------------------- MODULE RegionAllocator --------------------------
(***************************************************************************)
(* What a memory allocator promises: regions of the size that was asked    *)
(* for, aligned, inside the memory it manages, and disjoint from each      *)
(* other until they are given back.                                        *)
(***************************************************************************)
EXTENDS Naturals

CONSTANTS
  Memory,         \* the bytes the allocator may hand out
  Sizes,          \* the sizes that may be asked for
  Align           \* regions start at multiples of this

VARIABLE regions  \* a function from the start of each live region to its size

Bytes(p, n) == p .. p + n - 1

Init == regions = [p \in {} |-> 0]

Alloc(p, n) ==
  /\ p % Align = 0
  /\ Bytes(p, n) \subseteq Memory
  /\ \A q \in DOMAIN regions : Bytes(p, n) \cap Bytes(q, regions[q]) = {}
  /\ regions' = [q \in DOMAIN regions \cup {p} |-> IF q = p THEN n ELSE regions[q]]

Free(p) == regions' = [q \in DOMAIN regions \ {p} |-> regions[q]]

Next ==
  \/ \E p \in Memory, n \in Sizes : Alloc(p, n)
  \/ \E p \in DOMAIN regions : Free(p)

Spec == Init /\ [][Next]_regions

=============================================================================
