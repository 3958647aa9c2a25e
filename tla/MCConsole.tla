----------------------------- MODULE MCConsole -----------------------------
(***************************************************************************)
(* One CPU, printlock and the scheduler lock that its handlers take.       *)
(***************************************************************************)
EXTENDS Console

=============================================================================
