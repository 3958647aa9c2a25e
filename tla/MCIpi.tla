------------------------------ MODULE MCIpi -------------------------------
(***************************************************************************)
(* The machines: one without a list; two CPUs, both of which may panic;    *)
(* and one with a hole in the list, more CPUs than records, and an id that *)
(* the register truncates to that of the boot CPU.  There up to three CPUs *)
(* run, when the first is denied a stack, and one may panic.               *)
(***************************************************************************)
EXTENDS Ipi

MCMachines == {<<>>, <<0, 2>>, <<4, 1, NULL, 0, 2>>}

MCMaxPanics == [m \in MCMachines |-> IF Len(m) > 2 THEN 1 ELSE 2]

=============================================================================
