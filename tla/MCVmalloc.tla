----------------------------- MODULE MCVmalloc -----------------------------
(***************************************************************************)
(* Tables of three entries.  The direct map is pages 27 to 38; the kernel  *)
(* ends above it, below it (which cuts the area short), or inside it.      *)
(***************************************************************************)
EXTENDS Vmalloc

MCHhdm == 27 .. 38

MCFlagSets == {{"WRITABLE"}, {"GLOBAL", "USER"}}

=============================================================================
