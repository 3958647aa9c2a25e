------------------------------ MODULE MCNvme ------------------------------
(***************************************************************************)
(* Two threads.  On rings of three entries both have a command under way   *)
(* (no memory is left for PRP lists there); on rings of two they contend   *)
(* for the entry and for one list, with transfers of one, two and three    *)
(* pages.  In the other setups start-up fails: MQES is too small, or wraps *)
(* as a uint16_t, or memory runs out.                                      *)
(***************************************************************************)
EXTENDS Nvme

Machine(mqes, msix, n) == [mqes |-> mqes, mdts |-> 3 * (mqes % 2), msix |-> msix, pages |-> 1 .. n]

MCSetups ==
  {Machine(2, TRUE, 4), Machine(1, FALSE, 5), Machine(0, TRUE, 5), Machine(3, TRUE, 5)}
    \cup {Machine(1, TRUE, n) : n \in 0 .. 3}

=============================================================================
