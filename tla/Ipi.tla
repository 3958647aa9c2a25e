-------------------------------- MODULE Ipi --------------------------------
(***************************************************************************)
(* Interrupts between CPUs (kernel/ipi.c), on top of their start-up: the   *)
(* shootdown of TLB entries by paging_invlpg after a change of the page    *)
(* tables (mm/paging.c), and the halting of the other CPUs by panic.       *)
(*                                                                         *)
(* A page table change and its broadcast run under g_paging_lock with      *)
(* interrupts off; the broadcast is a step per record it looks at.  Nobody *)
(* waits for the interrupts to be handled.  A CPU that waits for the lock  *)
(* has interrupts off as well.                                             *)
(***************************************************************************)
EXTENDS Smp

CONSTANTS
  Pages,          \* virtual pages
  Entries,        \* what the page table may hold for one: frame and flags
  MaxPanics       \* machine -> bound on the CPUs that panic

VARIABLES
  g_irq_handlers, \* vector -> "tlb", "halt" or NULL
  g_ipi_ready,
  pt,             \* the kernel's page tables: page -> entry, or NULL
  tlb,            \* CPU -> page -> entry of pt its TLB caches, or NULL
  g_paging_lock,  \* the CPU that holds it, or NULL
  spinning,       \* CPUs in spin_lock_irqsave(&g_paging_lock)
  pending,        \* CPU -> vectors its APIC has accepted
  in_service,     \* CPU -> vectors without an EOI
  bcast,          \* CPU -> its broadcast: [vector, at], or NULL
  doomed          \* CPUs that were running when another panicked (history)

ipi_vars == <<g_irq_handlers, g_ipi_ready, pt, tlb, g_paging_lock, spinning, pending, in_service,
              bcast, doomed>>
vars == <<smp_vars, ipi_vars>>

Vectors == {"TLB", "HALT"}

ASSUME IpiAssumption == NULL \notin [vector : Vectors, at : Nat]

IpiStart ==
  /\ Init
  /\ g_irq_handlers = [v \in Vectors |-> NULL]
  /\ g_ipi_ready = FALSE
  /\ pt = [p \in Pages |-> NULL]
  /\ tlb = [c \in Cpus |-> pt]
  /\ g_paging_lock = NULL /\ spinning = {}
  /\ pending = [c \in Cpus |-> {}]
  /\ in_service = [c \in Cpus |-> {}]
  /\ bcast = [c \in Cpus |-> NULL]
  /\ doomed = {}

\* Boot goes on; arch_cpu_init calls ipi_init after x86_lapic_bsp_init.
Boot ==
  /\ BspStep
  /\ IF pc[Bsp] = "lapic"
       THEN /\ g_irq_handlers' = [v \in Vectors |-> IF v = "TLB" THEN "tlb" ELSE "halt"]
            /\ g_ipi_ready' = TRUE
       ELSE UNCHANGED <<g_irq_handlers, g_ipi_ready>>
  /\ bcast[Bsp] = NULL /\ Bsp \notin spinning
  /\ UNCHANGED <<pt, tlb, g_paging_lock, spinning, pending, in_service, bcast, doomed>>

ApBoot(c) == ApStep(c) /\ UNCHANGED ipi_vars

-----------------------------------------------------------------------------
(* Sending.                                                                *)

\* The start of ipi_tlb_shootdown and ipi_halt_others, then of
\* ipi_broadcast_vector, on CPU c.
Broadcasts(c) == g_ipi_ready /\ g_cpu_count > 1 /\ g_cpus[CpuSelf(c)].initialized
NewBroadcast(v) == [vector |-> v, at |-> 0]

\* Mutant: the records are scanned from 1, as if the sender were the boot CPU.
SkipsFirst(c, s) == s # 0 /\ g_cpus[s].online

\* Whether ipi_broadcast_vector sends to the CPU of slot s.
SendsTo(c, s) == g_cpus[s].online /\ g_cpus[s].apic_id # g_cpus[CpuSelf(c)].apic_id

\* One round of ipi_broadcast_vector.  The APIC with the id accepts the
\* vector if it is enabled; a vector that is pending already stays so.
BroadcastTo(c) ==
  /\ bcast[c] # NULL /\ bcast[c].at < g_cpu_count
  /\ LET s == bcast[c].at
     IN /\ pending' = [d \in Cpus |->
                         IF SendsTo(c, s) /\ LapicId(d) = g_cpus[s].apic_id /\ lapic[d].enabled
                           THEN pending[d] \cup {bcast[c].vector} ELSE pending[d]]
        /\ bcast' = [bcast EXCEPT ![c].at = s + 1]
  /\ UNCHANGED <<smp_vars, g_irq_handlers, g_ipi_ready, pt, tlb, g_paging_lock, spinning,
                 in_service, doomed>>

\* The end of the broadcast: the paging lock is released, or the CPU that
\* panicked stops.
BroadcastEnds(c) ==
  /\ bcast[c] # NULL /\ bcast[c].at >= g_cpu_count
  /\ bcast' = [bcast EXCEPT ![c] = NULL]
  /\ IF bcast[c].vector = "HALT"
       THEN pc' = [pc EXCEPT ![c] = "stopped"] /\ UNCHANGED g_paging_lock
       ELSE g_paging_lock' = NULL /\ UNCHANGED pc
  /\ UNCHANGED <<cpus, i, next_cpu, g_cpu_count, g_cpus, extra_argument, goto_address, lapic,
                 g_sched_ready, g_sched_lapic_init_count, irq_on, g_irq_handlers, g_ipi_ready,
                 pt, tlb, spinning, pending, in_service, doomed>>

\* CPUs that execute kernel code which changes page tables or may panic: the
\* boot CPU also while it starts others (vmalloc), before sched_init
\* (kmalloc_init) and in arch_irq_init.
Running(c) ==
  \/ pc[c] = "run"
  \/ c = Bsp /\ (pc[c] \in {"loop", "irq"} \/ (pc[c] = "wait" /\ i >= g_cpu_count))

\* spin_lock_irqsave(&g_paging_lock), up to the loop.
PagingLock(c) ==
  /\ Running(c) /\ bcast[c] = NULL /\ c \notin spinning
  /\ spinning' = spinning \cup {c}
  /\ UNCHANGED <<smp_vars, g_irq_handlers, g_ipi_ready, pt, tlb, g_paging_lock, pending,
                 in_service, bcast, doomed>>

\* paging_map_page, paging_unmap_page and paging_protect_page from the lock up
\* to the broadcast: a page is mapped only if it is not.
PagingChange(c, p, e) ==
  /\ Running(c) /\ bcast[c] = NULL /\ c \in spinning /\ g_paging_lock = NULL
  /\ e # pt[p]
  /\ spinning' = spinning \ {c}
  /\ pt' = [pt EXCEPT ![p] = e]
  /\ tlb' = [tlb EXCEPT ![c][p] = NULL]
  /\ IF Broadcasts(c)
       THEN bcast' = [bcast EXCEPT ![c] = NewBroadcast("TLB")] /\ g_paging_lock' = c
       ELSE UNCHANGED <<bcast, g_paging_lock>>
  /\ UNCHANGED <<smp_vars, g_irq_handlers, g_ipi_ready, pending, in_service, doomed>>

\* panic, from any code that runs; or, like that of alloc_table_page when
\* memory is out, with the lock held, which then stays so.
Panic(c) ==
  /\ Running(c) /\ bcast[c] = NULL
  /\ \/ c \notin spinning /\ UNCHANGED <<spinning, g_paging_lock>>
     \/ /\ c \in spinning /\ g_paging_lock = NULL
        /\ g_paging_lock' = c
        /\ spinning' = spinning \ {c}
  /\ Cardinality({d \in Cpus : pc[d] \in {"panic", "stopped"}}) < MaxPanics[cpus]
  /\ irq_on' = [irq_on EXCEPT ![c] = FALSE]
  /\ doomed' = doomed \cup {d \in Cpus \ {c} : pc[d] = "run"}
  /\ pc' = [pc EXCEPT ![c] = IF Broadcasts(c) THEN "panic" ELSE "stopped"]
  /\ bcast' = IF Broadcasts(c) THEN [bcast EXCEPT ![c] = NewBroadcast("HALT")] ELSE bcast
  /\ UNCHANGED <<cpus, i, next_cpu, g_cpu_count, g_cpus, extra_argument, goto_address, lapic,
                 g_sched_ready, g_sched_lapic_init_count, g_irq_handlers, g_ipi_ready,
                 pt, tlb, pending, in_service>>

\* The CPUs that translate by the kernel's page tables: paging_init loads CR3
\* on the boot CPU, and no code does on another.
OnKernelTables == {Bsp}

\* The CPU uses a page (external: it loads the entry into its TLB).  What the
\* others load from the boot loader's tables never changes there.
Access(c, p) ==
  /\ Running(c) /\ c \in OnKernelTables /\ pt[p] # NULL
  /\ tlb' = [tlb EXCEPT ![c][p] = IF @ = NULL THEN pt[p] ELSE @]
  /\ UNCHANGED <<smp_vars, g_irq_handlers, g_ipi_ready, pt, g_paging_lock, spinning, pending,
                 in_service, bcast, doomed>>

-----------------------------------------------------------------------------
(* Receiving.                                                              *)

\* paging_tlb_flush_all.
FlushAll(c) == [p \in Pages |-> NULL]

\* Mutant: the interrupt is not acknowledged.
NoEoi(c, v) == in_service[c] \cup {v}

\* x86_lapic_handle_irq and x86_lapic_eoi: the EOI, if the record of the CPU
\* says that its APIC is set up.
Eoi(c, v) == IF g_cpus[CpuSelf(c)].initialized THEN in_service[c] ELSE in_service[c] \cup {v}

\* isr_handler for the pending IPI of the highest vector: irq_dispatch calls
\* ipi_tlb_handler or ipi_halt_handler.
TakeIpi(c, v) ==
  /\ pc[c] = "run" /\ irq_on[c] /\ bcast[c] = NULL /\ c \notin spinning
  /\ v \in pending[c] /\ in_service[c] = {}
  /\ v = "TLB" => "HALT" \notin pending[c]
  /\ pending' = [pending EXCEPT ![c] = @ \ {v}]
  /\ in_service' = [in_service EXCEPT ![c] = Eoi(c, v)]
  /\ tlb' = IF g_irq_handlers[v] = "tlb" THEN [tlb EXCEPT ![c] = FlushAll(c)] ELSE tlb
  /\ IF g_irq_handlers[v] = "halt"
       THEN /\ pc' = [pc EXCEPT ![c] = "halted"]
            /\ irq_on' = [irq_on EXCEPT ![c] = FALSE]
       ELSE UNCHANGED <<pc, irq_on>>
  /\ UNCHANGED <<cpus, i, next_cpu, g_cpu_count, g_cpus, extra_argument, goto_address, lapic,
                 g_sched_ready, g_sched_lapic_init_count, g_irq_handlers, g_ipi_ready, pt,
                 g_paging_lock, spinning, bcast, doomed>>

-----------------------------------------------------------------------------
Next ==
  \/ Boot
  \/ \E c \in Cpus :
       \/ ApBoot(c) \/ BroadcastTo(c) \/ BroadcastEnds(c) \/ Panic(c) \/ PagingLock(c)
       \/ \E p \in Pages : Access(c, p) \/ \E e \in Entries \cup {NULL} : PagingChange(c, p, e)
       \/ \E v \in Vectors : TakeIpi(c, v)

\* CPUs run on, and boot is not held up for ever by the page table changes
\* it makes.  A pending interrupt is taken once the CPU has interrupts on, be
\* it only between two critical sections: the hardware takes it before the
\* next instruction.  Nothing makes the lock fair: a CPU gets it if it stays
\* free, and may lose it to others for ever.
Fairness ==
  /\ SF_vars(Boot)
  /\ \A c \in Cpus :
       /\ WF_vars(ApBoot(c) \/ BroadcastTo(c) \/ BroadcastEnds(c))
       /\ WF_vars(\E p \in Pages, e \in Entries \cup {NULL} : PagingChange(c, p, e))
       /\ SF_vars(\E v \in Vectors : TakeIpi(c, v))

Spec == IpiStart /\ [][Next]_vars /\ Fairness

-----------------------------------------------------------------------------
Stale(c, p) == tlb[c][p] # NULL /\ tlb[c][p] # pt[p]

\* A translation that the page tables no longer hold stays in the TLB of a CPU
\* that uses these tables only while a shootdown is on its way to that CPU:
\* pending there, or about to be sent.  No broadcast misses it, although the
\* number of CPUs and their online flags change while they are read.
StaleCovered ==
  \A c \in Cpus, p \in Pages :
    Stale(c, p) =>
      \/ "TLB" \in pending[c]
      \/ \E d \in Cpus : /\ bcast[d] # NULL /\ bcast[d].vector = "TLB"
                         /\ \E s \in bcast[d].at .. g_cpu_count - 1 : s = CpuSelf(c)

\* A CPU waits with interrupts off for a lock that will not come: a CPU has
\* panicked with it, or CPUs that came up after the panic keep taking it.
LockedOut(c) ==
  /\ c \in spinning
  /\ \/ g_paging_lock # NULL /\ pc[g_paging_lock] = "stopped"
     \/ \E d \in Cpus \ doomed : Running(d)

\* When a CPU panics, each CPU that is running then is halted in the end, or
\* locked out: the interrupt is neither lost nor held up by another, CPUs that
\* panic at the same time do not wait for each other, and the lock alone can
\* keep a CPU from it.
PanicHalts == <>[](\A c \in doomed : pc[c] \in {"halted", "stopped"} \/ LockedOut(c))

\* A CPU that was given an entry point runs once the scheduler is ready,
\* however late it comes up, unless its id does not fit the register or it
\* cannot use its stack.
ApsJoin ==
  g_sched_ready ~>
    \A c \in goto_address : LapicId(c) = c => pc[c] \notin NotYet \ {"fault"}

=============================================================================
