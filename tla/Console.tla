------------------------------ MODULE Console ------------------------------
(***************************************************************************)
(* safe_printk and disable_print of include/printk.c on top of the spin    *)
(* locks: what the early return of safe_printk does to printlock and to    *)
(* the interrupt flag of the calling CPU.                                  *)
(***************************************************************************)
EXTENDS Spinlock

VARIABLES
  print_enabled,
  printing        \* contexts past the test of print_enabled

console_vars == <<vars, print_enabled, printing>>

ConsoleInit == Init /\ print_enabled = TRUE /\ printing = {}

\* x has just taken printlock in safe_printk.
AtTest(x) == At(x, "run") /\ "printlock" \in inside[x] /\ x \notin printing

\* safe_printk goes on to print.
PrintEnabled(x) ==
  /\ AtTest(x)
  /\ print_enabled
  /\ printing' = printing \cup {x}
  /\ UNCHANGED <<vars, print_enabled>>

\* safe_printk returns at once: nothing is released, nothing restored.
PrintDisabled(x) ==
  /\ AtTest(x)
  /\ ~print_enabled
  /\ inside' = [inside EXCEPT ![x] = @ \ {"printlock"}]
  /\ flags' = [flags EXCEPT ![x] = [@ EXCEPT !["printlock"] = "dead"]]
  /\ UNCHANGED <<locked, iflag, pc, want, enabled, print_enabled, printing>>

\* disable_print, called by handoff_framebuffer, in a thread of CPU c.
DisablePrint(c) ==
  /\ At(Thread(c), "run")
  /\ inside[Thread(c)] = {}
  /\ print_enabled' = FALSE
  /\ UNCHANGED <<vars, printing>>

\* The steps of Spinlock; printlock is released only after printing.
LockStep ==
  /\ Next
  /\ \A x \in Contexts :
       "printlock" \in inside[x] \ inside'[x] => x \in printing
  /\ printing' = {x \in printing : "printlock" \in inside'[x]}
  /\ UNCHANGED print_enabled

ConsoleNext ==
  \/ LockStep
  \/ \E c \in CPUs : DisablePrint(c)
  \/ \E x \in Contexts : PrintEnabled(x) \/ PrintDisabled(x)

ConsoleSpec == ConsoleInit /\ [][ConsoleNext]_console_vars

=============================================================================
