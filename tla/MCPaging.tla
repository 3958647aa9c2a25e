------------------------------ MODULE MCPaging ------------------------------
(***************************************************************************)
(* Tables of three entries, so 81 virtual pages, the upper third of them   *)
(* the kernel's.  In every boot the kernel is page 80, the frame buffer is *)
(* page 77 and beyond memory, and the stack lies in the direct map.        *)
(***************************************************************************)
EXTENDS Paging, TLC

\* The direct map is aligned: five large pages and a small one.
Aligned ==
  [old |-> 56 :> 2 @@ 77 :> 25 @@ 80 :> 1, kernel |-> {80}, preserved |-> {56, 77},
   hhdm |-> 54, span |-> 16, free |-> 3 .. 11, reclaimed |-> 12 .. 15,
   pages |-> {0, 1, 9, 55}]

\* It is not, and has small pages only.
Unaligned ==
  [old |-> 57 :> 2 @@ 77 :> 25 @@ 80 :> 1, kernel |-> {80}, preserved |-> {57, 77},
   hhdm |-> 55, span |-> 21, free |-> 3 .. 17, reclaimed |-> 18 .. 20,
   pages |-> {0, 3, 27}]

\* The boot loader had the stack elsewhere than the direct map puts it, did not
\* map it, or left too little memory.
Conflict == [Unaligned EXCEPT !.old = 57 :> 25 @@ 77 :> 25 @@ 80 :> 1]
Missing == [Aligned EXCEPT !.old = 77 :> 25 @@ 80 :> 1]
Short == [Aligned EXCEPT !.free = 3 .. 7]

MCBoots == {Aligned, Unaligned, Conflict, Missing, Short}

MCFlagSets == {{}, {"EXEC", "USER"}, {"GLOBAL", "USER"}}

=============================================================================
