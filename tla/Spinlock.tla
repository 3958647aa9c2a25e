------------------------------ MODULE Spinlock ------------------------------
(***************************************************************************)
(* The spin locks of arch/x86_64/lib/spinlock.S, one instruction per step, *)
(* and the way the kernel uses them: which locks are taken while which     *)
(* others are held, and which are taken by interrupt handlers.             *)
(*                                                                         *)
(* Each CPU runs a thread and, on top of it, at most one interrupt         *)
(* handler: the gates of idt.c are interrupt gates, so a handler runs with *)
(* the interrupt flag clear.  A handler may start before any instruction   *)
(* of the thread that finds the flag set.                                  *)
(***************************************************************************)
EXTENDS Naturals, FiniteSets

CONSTANTS
  CPUs,
  BSP,            \* the CPU that boots
  Locks           \* the locks of the kernel that are modelled

ASSUME LocksAssumption ==
  /\ BSP \in CPUs
  /\ Locks \subseteq {"g_kmalloc_lock", "g_vmalloc_lock", "g_paging_lock", "g_pmm_lock",
                      "g_sched_lock", "g_kbd_lock", "io_lock", "printlock"}

VARIABLES
  locked,         \* locked[l]: bit 0 of the lock word
  iflag,          \* iflag[c]: the interrupt flag of CPU c, "on" or "off"
  pc,             \* pc[x]: next instruction of context x
  want,           \* want[x]: the lock of the call in progress (rdi)
  flags,          \* flags[x][l]: the caller's variable "flags" for l; "plain"
                  \*   if l was taken by spin_lock, "dead" if not in use
  inside,         \* inside[x]: the critical sections x is in
  enabled         \* enabled[c]: c has executed its boot-time sti

vars == <<locked, iflag, pc, want, flags, inside, enabled>>

Thread(c) == <<c, "thread">>
Isr(c)    == <<c, "isr">>
Contexts  == CPUs \X {"thread", "isr"}

-----------------------------------------------------------------------------
(* The call sites.                                                         *)

\* Mutant: paging is called back from under the pmm lock.
CallsBackwards == {<<"g_paging_lock", "g_pmm_lock">>, <<"g_pmm_lock", "g_paging_lock">>}

\* <<a, b>>: some function takes b while it holds a.
Calls == {<<"g_kmalloc_lock", "g_vmalloc_lock">>,
          <<"g_vmalloc_lock", "g_paging_lock">>,
          <<"g_vmalloc_lock", "g_pmm_lock">>,
          <<"g_paging_lock", "g_pmm_lock">>}

\* <<a, b>>: a may be held, directly or further out, when b is taken.
LockOrder == Calls \cup {<<"g_kmalloc_lock", "g_paging_lock">>,
                         <<"g_kmalloc_lock", "g_pmm_lock">>}

\* l is the lock x took last of those it holds.
Innermost(x, l) ==
  l \in inside[x] /\ \A m \in inside[x] \ {l} : <<m, l>> \in LockOrder

\* x may call a function that takes l.
CanCall(x, l) ==
  /\ l \notin inside[x]
  /\ \/ inside[x] = {}
     \/ \E m \in inside[x] : Innermost(x, m) /\ <<m, l>> \in Calls

\* Mutant: a thread uses plain spin_lock on the keyboard lock.
SpinLockCallerAnywhere(x, l) == l = "g_kbd_lock"

\* Plain spin_lock: the keyboard handler, and pmm_init and paging_init, which
\* run before interrupts are enabled.
SpinLockCaller(x, l) ==
  \/ x[2] = "isr" /\ l = "g_kbd_lock"
  \/ x = Thread(BSP) /\ l \in {"g_pmm_lock", "g_paging_lock"} /\ enabled[BSP] = "off"

\* spin_lock_irqsave: any thread; in handlers sched_on_tick and nvme_irq.
IrqsaveCaller(x, l) == x[2] = "isr" => l \in {"g_sched_lock", "io_lock"}

-----------------------------------------------------------------------------
Init ==
  /\ locked = [l \in Locks |-> FALSE]
  /\ iflag = [c \in CPUs |-> "off"]
  /\ pc = [x \in Contexts |-> IF x[2] = "thread" THEN "run" ELSE "idle"]
  /\ want = [x \in Contexts |-> "none"]
  /\ flags = [x \in Contexts |-> [l \in Locks |-> "dead"]]
  /\ inside = [x \in Contexts |-> {}]
  /\ enabled = [c \in CPUs |-> "off"]

\* A thread makes no step while a handler runs on its CPU.
Active(x) == x[2] = "thread" => pc[Isr(x[1])] = "idle"

At(x, i) == Active(x) /\ pc[x] = i

Goto(x, i) == pc' = [pc EXCEPT ![x] = i]

\* spin_lock_irqsave(l): pushfq; pop rax.
Pushfq(x, l) ==
  /\ At(x, "run")
  /\ IrqsaveCaller(x, l)
  /\ CanCall(x, l)
  /\ flags' = [flags EXCEPT ![x] = [@ EXCEPT ![l] = iflag[x[1]]]]
  /\ want' = [want EXCEPT ![x] = l]
  /\ Goto(x, "cli")
  /\ UNCHANGED <<locked, iflag, inside, enabled>>

Cli(x) ==
  /\ At(x, "cli")
  /\ iflag' = [iflag EXCEPT ![x[1]] = "off"]
  /\ Goto(x, "bts")
  /\ UNCHANGED <<locked, want, flags, inside, enabled>>

\* spin_lock(l).
SpinLock(x, l) ==
  /\ At(x, "run")
  /\ SpinLockCaller(x, l)
  /\ CanCall(x, l)
  /\ flags' = [flags EXCEPT ![x] = [@ EXCEPT ![l] = "plain"]]
  /\ want' = [want EXCEPT ![x] = l]
  /\ Goto(x, "bts")
  /\ UNCHANGED <<locked, iflag, inside, enabled>>

\* Mutant: the lock is taken whether or not the bit was clear.
CarryClearIgnored(x) == TRUE

\* "lock bts" sets the carry to the old value of the bit.
CarryClear(x) == ~locked[want[x]]

\* lock bts finds the bit clear and sets it: x is in its critical section.
BtsAcquires(x) ==
  /\ At(x, "bts")
  /\ CarryClear(x)
  /\ locked' = [locked EXCEPT ![want[x]] = TRUE]
  /\ inside' = [inside EXCEPT ![x] = @ \cup {want[x]}]
  /\ want' = [want EXCEPT ![x] = "none"]
  /\ Goto(x, "run")
  /\ UNCHANGED <<iflag, flags, enabled>>

\* lock bts finds the bit set.
BtsBusy(x) ==
  /\ At(x, "bts")
  /\ ~CarryClear(x)
  /\ Goto(x, "test")
  /\ UNCHANGED <<locked, iflag, want, flags, inside, enabled>>

\* pause; test: leaves the loop when the bit is clear.
Test(x) ==
  /\ At(x, "test")
  /\ ~locked[want[x]]
  /\ Goto(x, "bts")
  /\ UNCHANGED <<locked, iflag, want, flags, inside, enabled>>

\* spin_unlock(l).
SpinUnlock(x, l) ==
  /\ At(x, "run")
  /\ Innermost(x, l)
  /\ flags[x][l] = "plain"
  /\ locked' = [locked EXCEPT ![l] = FALSE]
  /\ inside' = [inside EXCEPT ![x] = @ \ {l}]
  /\ flags' = [flags EXCEPT ![x] = [@ EXCEPT ![l] = "dead"]]
  /\ UNCHANGED <<iflag, pc, want, enabled>>

\* spin_unlock_irqrestore(l): the store that releases the lock.
Release(x, l) ==
  /\ At(x, "run")
  /\ Innermost(x, l)
  /\ flags[x][l] # "plain"
  /\ locked' = [locked EXCEPT ![l] = FALSE]
  /\ inside' = [inside EXCEPT ![x] = @ \ {l}]
  /\ want' = [want EXCEPT ![x] = l]
  /\ Goto(x, "popfq")
  /\ UNCHANGED <<iflag, flags, enabled>>

\* Mutant: spin_unlock_irqrestore always enables interrupts.
RestoredFlagOn(x) == "on"

\* What popfq loads into the interrupt flag.
RestoredFlag(x) == flags[x][want[x]]

\* The push rsi; popfq of spin_unlock_irqrestore.
Popfq(x) ==
  /\ At(x, "popfq")
  /\ iflag' = [iflag EXCEPT ![x[1]] = RestoredFlag(x)]
  /\ flags' = [flags EXCEPT ![x] = [@ EXCEPT ![want[x]] = "dead"]]
  /\ want' = [want EXCEPT ![x] = "none"]
  /\ Goto(x, "run")
  /\ UNCHANGED <<locked, inside, enabled>>

\* A handler starts, before any instruction of the thread.
Interrupt(c) ==
  /\ iflag[c] = "on"
  /\ pc[Isr(c)] = "idle"
  /\ iflag' = [iflag EXCEPT ![c] = "off"]
  /\ Goto(Isr(c), "run")
  /\ UNCHANGED <<locked, want, flags, inside, enabled>>

\* iretq reloads the flags that were pushed on entry.
Iretq(c) ==
  /\ pc[Isr(c)] = "run"
  /\ inside[Isr(c)] = {}
  /\ iflag' = [iflag EXCEPT ![c] = "on"]
  /\ Goto(Isr(c), "idle")
  /\ UNCHANGED <<locked, want, flags, inside, enabled>>

\* The sti of arch_irq_init on the boot CPU and of smp_ap_entry_main on others.
Sti(c) ==
  /\ At(Thread(c), "run")
  /\ inside[Thread(c)] = {}
  /\ enabled[c] = "off"
  /\ iflag' = [iflag EXCEPT ![c] = "on"]
  /\ enabled' = [enabled EXCEPT ![c] = "on"]
  /\ UNCHANGED <<locked, pc, want, flags, inside>>

-----------------------------------------------------------------------------
Call(x) == \E l \in Locks : Pushfq(x, l) \/ SpinLock(x, l)

Acquire(x) == BtsAcquires(x)

\* The steps a context takes without being asked to.
Step(x) ==
  \/ Cli(x) \/ BtsAcquires(x) \/ BtsBusy(x) \/ Test(x) \/ Popfq(x)
  \/ \E l \in Locks : SpinUnlock(x, l) \/ Release(x, l)

Next ==
  \/ \E x \in Contexts : Call(x) \/ Step(x)
  \/ \E c \in CPUs : Interrupt(c) \/ Iretq(c) \/ Sti(c)

\* A CPU goes on executing instructions, and a handler returns.
Fairness ==
  /\ \A x \in Contexts : WF_vars(Step(x))
  /\ \A c \in CPUs : WF_vars(Iretq(c))

Spec == Init /\ [][Next]_vars /\ Fairness

-----------------------------------------------------------------------------
(* Properties.                                                             *)

\* What popfq loads is a flag that was saved: a lock taken by spin_lock is never
\* released by spin_unlock_irqrestore.
TypeOK ==
  /\ locked \in [Locks -> BOOLEAN]
  /\ iflag \in [CPUs -> {"on", "off"}]
  /\ pc \in [Contexts -> {"idle", "run", "cli", "bts", "test", "popfq"}]
  /\ want \in [Contexts -> Locks \cup {"none"}]
  /\ flags \in [Contexts -> [Locks -> {"on", "off", "plain", "dead"}]]
  /\ inside \in [Contexts -> SUBSET Locks]
  /\ enabled \in [CPUs -> {"on", "off"}]

\* No two contexts, of the same CPU or of two, are inside the same critical
\* section, and the lock word is set exactly while one is.
MutualExclusion ==
  /\ \A x, y \in Contexts : x # y => inside[x] \cap inside[y] = {}
  /\ \A l \in Locks : locked[l] <=> \E x \in Contexts : l \in inside[x]

\* A thread in a critical section cannot be interrupted, also when it has just
\* left a nested one: no handler of its CPU ever spins on a lock it holds.
NoIrqWhileHeld ==
  \A c \in CPUs : inside[Thread(c)] # {} =>
    iflag[c] = "off" /\ pc[Isr(c)] = "idle"

\* "saves/restores interrupt state" (spinlock.h): a thread outside all critical
\* sections runs with interrupts enabled as its CPU enabled them, whatever
\* nesting of locks it has been through.
IrqStateRestored ==
  \A c \in CPUs :
    At(Thread(c), "run") /\ inside[Thread(c)] = {} => iflag[c] = enabled[c]

\* The kernel never deadlocks on its locks: while some context keeps waiting,
\* locks keep being acquired.  (A given context may starve: the locks are not
\* fair.)
Progress ==
  \/ []<>(\A x \in Contexts : pc[x] \notin {"bts", "test"})
  \/ []<><<\E x \in Contexts : Acquire(x)>>_vars

=============================================================================
