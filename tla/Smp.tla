-------------------------------- MODULE Smp --------------------------------
(***************************************************************************)
(* Start-up of the CPUs: smp_init on the boot CPU, smp_ap_entry on the     *)
(* others, the local APIC of each, and cpu_self, by which a CPU finds its  *)
(* own record (cpu/smp.c, kernel/cpu.c, cpu/apic.c, and of kernel/sched.c  *)
(* the part that starts the timers).                                       *)
(*                                                                         *)
(* A CPU is named by the APIC id the boot loader reports for it.  The      *)
(* APICs are in xAPIC mode, whose id register keeps the id modulo APIC_IDS.*)
(***************************************************************************)
EXTENDS Integers, Sequences, FiniteSets

CONSTANTS
  Bsp,            \* the boot CPU
  Machines,       \* the lists of CPUs the boot loader may report, with NULLs
  APIC_IDS,       \* number of xAPIC ids
  MAX_CPUS,
  COUNTS,         \* timer counts: the default, the fallback, and measured ones
  NULL

ASSUME SmpAssumption ==
  /\ APIC_IDS \in Nat \ {0} /\ MAX_CPUS \in Nat \ {0}
  /\ Bsp \in 0 .. APIC_IDS - 1
  /\ {"default", "fallback"} \subseteq COUNTS

\* The boot loader reports every CPU once.
ASSUME MachinesAssumption ==
  /\ NULL \notin Nat
  /\ \A m \in Machines :
       /\ m \in Seq(Nat \cup {NULL})
       /\ \A j, k \in DOMAIN m : m[j] = m[k] /\ m[j] # NULL => j = k

VARIABLES
  cpus,           \* g_mp_response->cpus
  pc,             \* CPU -> where it is
  i,              \* loop counter of smp_init
  next_cpu, g_cpu_count,
  g_cpus,         \* slot -> [apic_id, online, stack, initialized, timer]
  extra_argument, \* CPU -> slot of its record, or NULL
  goto_address,   \* the CPUs whose goto_address has been written
  lapic,          \* CPU -> its APIC: [enabled, timer]
  g_sched_ready, g_sched_lapic_init_count,
  irq_on          \* CPU -> interrupt flag

smp_vars == <<cpus, pc, i, next_cpu, g_cpu_count, g_cpus, extra_argument, goto_address,
              lapic, g_sched_ready, g_sched_lapic_init_count, irq_on>>

AllCpus == (UNION {{m[k] : k \in DOMAIN m} : m \in Machines}) \cup {Bsp}
Cpus == AllCpus \ {NULL}
Slots == 0 .. MAX_CPUS - 1
NoTimer == [vector |-> "none", count |-> "none"]
NoCpu == [apic_id |-> 0, online |-> FALSE, stack |-> FALSE, initialized |-> FALSE,
          timer |-> NoTimer]

Init ==
  /\ cpus \in Machines
  /\ pc = [c \in Cpus |-> IF c = Bsp THEN "lapic" ELSE "parked"]
  /\ i = 1 /\ next_cpu = 1 /\ g_cpu_count = 0
  /\ g_cpus = [s \in Slots |-> NoCpu]
  /\ extra_argument = [c \in Cpus |-> NULL]
  /\ goto_address = {}
  /\ lapic = [c \in Cpus |-> [enabled |-> FALSE, timer |-> NoTimer]]
  /\ g_sched_ready = FALSE
  /\ g_sched_lapic_init_count = "none"
  /\ irq_on = [c \in Cpus |-> FALSE]

-----------------------------------------------------------------------------
(* The local APIC.                                                         *)

\* x86_lapic_id.
LapicId(c) == c % APIC_IDS

\* cpu_self: the first of the g_cpu_count records with the CPU's id; slot 0
\* when there is none.
CpuSelf(c) ==
  LET own == {s \in 0 .. g_cpu_count - 1 : g_cpus[s].apic_id = LapicId(c)}
  IN IF own = {} THEN 0 ELSE CHOOSE s \in own : \A t \in own : s <= t

\* lapic_configure by CPU c for the record in slot s: enabled, with the
\* periodic timer of the default vector.
LapicConfigure(c, s, id) ==
  LET t == [vector |-> "default", count |-> "default"]
  IN /\ lapic' = [lapic EXCEPT ![c] = [enabled |-> TRUE, timer |-> t]]
     /\ g_cpus' = [g_cpus EXCEPT ![s] = [@ EXCEPT !.apic_id = id, !.initialized = TRUE, !.timer = t]]

\* x86_lapic_timer_start on CPU c, with SCHED_TICK_VECTOR.
TimerStart(c, n) ==
  LET s == CpuSelf(c)
      t == [vector |-> "tick", count |-> n]
  IN IF g_cpus[s].initialized
       THEN /\ lapic' = [lapic EXCEPT ![c].timer = t]
            /\ g_cpus' = [g_cpus EXCEPT ![s].timer = t]
       ELSE UNCHANGED <<lapic, g_cpus>>

\* x86_lapic_bsp_init.
LapicBspInit ==
  /\ pc[Bsp] = "lapic"
  /\ LapicConfigure(Bsp, 0, LapicId(Bsp))
  /\ g_cpu_count' = 1
  /\ pc' = [pc EXCEPT ![Bsp] = "loop"]
  /\ UNCHANGED <<cpus, i, next_cpu, extra_argument, goto_address, g_sched_ready,
                 g_sched_lapic_init_count, irq_on>>

-----------------------------------------------------------------------------
(* smp_init and what follows it on the boot CPU.                           *)

\* Mutant: kernel_stack_top is not set before the CPU is woken.
RecordWithoutStack(id, stack) == [NoCpu EXCEPT !.apic_id = id]

\* What smp_init writes into the record of a CPU.
CpuRecord(id, stack) == [NoCpu EXCEPT !.apic_id = id, !.stack = stack]

\* One round: a record and a stack for the next CPU of the list, published
\* by extra_argument.  Without a stack the record is used for the CPU after.
SmpInitCpu(stack) ==
  /\ pc[Bsp] = "loop" /\ i <= Len(cpus)
  /\ cpus[i] \notin {NULL, Bsp} /\ next_cpu < MAX_CPUS
  /\ g_cpus' = [g_cpus EXCEPT ![0].online = TRUE,
                              ![next_cpu] = CpuRecord(cpus[i], stack)]
  /\ IF stack THEN /\ extra_argument' = [extra_argument EXCEPT ![cpus[i]] = next_cpu]
                   /\ pc' = [pc EXCEPT ![Bsp] = "goto"]
                   /\ UNCHANGED i
              ELSE i' = i + 1 /\ UNCHANGED <<extra_argument, pc>>
  /\ UNCHANGED <<cpus, next_cpu, g_cpu_count, goto_address, lapic, g_sched_ready,
                 g_sched_lapic_init_count, irq_on>>

\* The write to goto_address, after the fence.
SmpInitGoto ==
  /\ pc[Bsp] = "goto"
  /\ goto_address' = goto_address \cup {cpus[i]}
  /\ next_cpu' = next_cpu + 1
  /\ i' = i + 1
  /\ pc' = [pc EXCEPT ![Bsp] = "loop"]
  /\ UNCHANGED <<cpus, g_cpu_count, g_cpus, extra_argument, lapic, g_sched_ready,
                 g_sched_lapic_init_count, irq_on>>

\* The rounds without a CPU to start.
SmpInitSkip ==
  /\ pc[Bsp] = "loop" /\ i <= Len(cpus)
  /\ cpus[i] \in {NULL, Bsp}
  /\ i' = i + 1
  /\ UNCHANGED <<cpus, pc, next_cpu, g_cpu_count, g_cpus, extra_argument, goto_address,
                 lapic, g_sched_ready, g_sched_lapic_init_count, irq_on>>

\* Mutant: only the CPUs that are online by now are counted.
CountOnline == 1 + Cardinality({s \in 1 .. next_cpu - 1 : g_cpus[s].online})

CpuCount == next_cpu

\* The end of the loop, also at MAX_CPUS, and the count.
SmpInitCount ==
  /\ pc[Bsp] = "loop"
  /\ i <= Len(cpus) => cpus[i] \notin {NULL, Bsp} /\ next_cpu >= MAX_CPUS
  /\ g_cpus' = [g_cpus EXCEPT ![0].online = TRUE]
  /\ g_cpu_count' = CpuCount
  /\ i' = 1
  /\ pc' = [pc EXCEPT ![Bsp] = "wait"]
  /\ UNCHANGED <<cpus, next_cpu, extra_argument, goto_address, lapic, g_sched_ready,
                 g_sched_lapic_init_count, irq_on>>

\* The wait for the record of slot i ends: it is online, or time is up.
SmpInitWait ==
  /\ pc[Bsp] = "wait" /\ i < g_cpu_count
  /\ i' = i + 1
  /\ UNCHANGED <<cpus, pc, next_cpu, g_cpu_count, g_cpus, extra_argument, goto_address,
                 lapic, g_sched_ready, g_sched_lapic_init_count, irq_on>>

\* sched_init: x86_lapic_timer_calibrate leaves the timer as it was and gives
\* a count, or fails.
SchedInit ==
  /\ pc[Bsp] = "wait" /\ i >= g_cpu_count
  /\ \E n \in COUNTS \ {"default"} :
       /\ g_sched_lapic_init_count' = n
       /\ TimerStart(Bsp, n)
  /\ g_sched_ready' = TRUE
  /\ pc' = [pc EXCEPT ![Bsp] = "irq"]
  /\ UNCHANGED <<cpus, i, next_cpu, g_cpu_count, extra_argument, goto_address, irq_on>>

\* arch_irq_init ends with sti.
ArchIrqInit ==
  /\ pc[Bsp] = "irq"
  /\ irq_on' = [irq_on EXCEPT ![Bsp] = TRUE]
  /\ pc' = [pc EXCEPT ![Bsp] = "run"]
  /\ UNCHANGED <<cpus, i, next_cpu, g_cpu_count, g_cpus, extra_argument, goto_address,
                 lapic, g_sched_ready, g_sched_lapic_init_count>>

-----------------------------------------------------------------------------
(* The other CPUs.                                                         *)

\* smp_ap_entry and the start of smp_ap_entry_main: without a record or a
\* stack the CPU stops.  The stack is vmalloc's, mapped in the kernel's page
\* tables; the CPU is on those the boot loader left it, and nothing loads its
\* CR3.  Unless they map the stack too, its first use is a fault that the CPU
\* does not survive.
ApEntry(c, mapped) ==
  /\ pc[c] = "parked" /\ c \in goto_address
  /\ LET s == extra_argument[c]
     IN IF s = NULL \/ ~g_cpus[s].stack
          THEN pc' = [pc EXCEPT ![c] = "dead"] /\ UNCHANGED g_cpus
          ELSE IF mapped
            THEN /\ pc' = [pc EXCEPT ![c] = "entered"]
                 /\ g_cpus' = [g_cpus EXCEPT ![s].online = FALSE, ![s].apic_id = c]
            ELSE pc' = [pc EXCEPT ![c] = "fault"] /\ UNCHANGED g_cpus
  /\ UNCHANGED <<cpus, i, next_cpu, g_cpu_count, extra_argument, goto_address, lapic,
                 g_sched_ready, g_sched_lapic_init_count, irq_on>>

\* x86_lapic_ap_init: a CPU whose id is not the reported one stops.
ApLapicInit(c) ==
  /\ pc[c] = "entered"
  /\ IF LapicId(c) = g_cpus[extra_argument[c]].apic_id
       THEN LapicConfigure(c, extra_argument[c], c) /\ pc' = [pc EXCEPT ![c] = "configured"]
       ELSE pc' = [pc EXCEPT ![c] = "dead"] /\ UNCHANGED <<lapic, g_cpus>>
  /\ UNCHANGED <<cpus, i, next_cpu, g_cpu_count, extra_argument, goto_address,
                 g_sched_ready, g_sched_lapic_init_count, irq_on>>

ApOnline(c) ==
  /\ pc[c] = "configured"
  /\ g_cpus' = [g_cpus EXCEPT ![extra_argument[c]].online = TRUE]
  /\ pc' = [pc EXCEPT ![c] = "spin"]
  /\ UNCHANGED <<cpus, i, next_cpu, g_cpu_count, extra_argument, goto_address, lapic,
                 g_sched_ready, g_sched_lapic_init_count, irq_on>>

\* sched_ap_init once the scheduler is ready, and sti.
SchedApInit(c) ==
  /\ pc[c] = "spin" /\ g_sched_ready
  /\ LET n == IF g_sched_lapic_init_count = "none" THEN "fallback" ELSE g_sched_lapic_init_count
     IN g_sched_lapic_init_count' = n /\ TimerStart(c, n)
  /\ irq_on' = [irq_on EXCEPT ![c] = TRUE]
  /\ pc' = [pc EXCEPT ![c] = "run"]
  /\ UNCHANGED <<cpus, i, next_cpu, g_cpu_count, extra_argument, goto_address, g_sched_ready>>

BspStep ==
  \/ LapicBspInit \/ \E stack \in BOOLEAN : SmpInitCpu(stack)
  \/ SmpInitGoto \/ SmpInitSkip \/ SmpInitCount \/ SmpInitWait \/ SchedInit \/ ArchIrqInit

ApStep(c) ==
  \/ \E mapped \in BOOLEAN : ApEntry(c, mapped)
  \/ ApLapicInit(c) \/ ApOnline(c) \/ SchedApInit(c)

-----------------------------------------------------------------------------
\* The CPUs that run kernel code by which cpu_self is called: the boot CPU,
\* and the others from sched_ap_init on.
NotYet == {"parked", "dead", "fault", "entered", "configured", "spin"}
Callers == {c \in Cpus : c = Bsp \/ pc[c] \notin NotYet}

\* cpu_self gives every CPU that calls it its own record, and what the
\* record says of the timer is what was programmed into the CPU's APIC;
\* although the other CPUs start while g_cpu_count is still 1, and some come
\* up late, have no stack or have an id that does not fit the register.
CpuSelfOwn ==
  \A c \in Callers :
    LET s == CpuSelf(c)
    IN /\ IF c = Bsp THEN s = 0 ELSE s = extra_argument[c] /\ g_cpus[s].online
       /\ g_cpus[s].initialized = lapic[c].enabled
       /\ g_cpus[s].timer = lapic[c].timer

=============================================================================
