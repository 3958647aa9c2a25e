------------------------------ MODULE MCSched ------------------------------
(***************************************************************************)
(* Two CPUs and two tasks: with its bootstrap thread, a CPU schedules up   *)
(* to three threads.                                                       *)
(***************************************************************************)
EXTENDS Sched

=============================================================================
