----------------------------- MODULE MCKmalloc -----------------------------
(***************************************************************************)
(* Two pools next to each other, of up to three blocks each.  Headers take *)
(* three alignment units, as in the code.  The sizes are two that are      *)
(* rounded up, to blocks that do and do not leave room for a split, one    *)
(* that no pool can hold, and SIZE_MAX, which wraps to 0.                  *)
(***************************************************************************)
EXTENDS Kmalloc

=============================================================================
