---------------------------- MODULE MCSpinlock ----------------------------
(***************************************************************************)
(* Two CPUs; the chain of four nested locks, the keyboard lock, which its  *)
(* handler takes, and the scheduler lock, taken by threads and handlers.   *)
(***************************************************************************)
EXTENDS Spinlock

=============================================================================
