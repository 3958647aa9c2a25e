----------------------------- MODULE IpiProofs -----------------------------
(***************************************************************************)
(* Proofs about the start-up of the CPUs and the TLB shootdown, for any    *)
(* number of CPUs, any list of them and any number of pages.               *)
(***************************************************************************)
EXTENDS Ipi, TLAPS

\* A leaf is for Zenon unless it names another prover.
USE Zenon

-----------------------------------------------------------------------------
(* The inductive invariant.                                                *)

Timers == [vector : {"none", "default", "tick"}, count : COUNTS \cup {"none"}]
Records == [apic_id : Nat, online : BOOLEAN, stack : BOOLEAN, initialized : BOOLEAN,
            timer : Timers]

Starting == {"lapic", "loop", "goto", "wait"}
Past == {"run", "panic", "stopped", "halted"}

TypeOK ==
  /\ cpus \in Machines
  /\ pc \in [Cpus -> Starting \cup {"irq"} \cup NotYet \cup Past]
  /\ i \in Nat \ {0}
  /\ next_cpu \in 1 .. MAX_CPUS
  /\ g_cpu_count \in {0, 1, next_cpu}
  /\ g_cpus \in [Slots -> Records]
  /\ extra_argument \in [Cpus -> Slots \cup {NULL}]
  /\ goto_address \subseteq Cpus \ {Bsp}
  /\ lapic \in [Cpus -> [enabled : BOOLEAN, timer : Timers]]
  /\ g_sched_ready \in BOOLEAN
  /\ g_sched_lapic_init_count \in COUNTS \cup {"none"}

\* The record in slot s says of the APIC of c what is true.
Matches(s, c) == (g_cpus[s].initialized <=> lapic[c].enabled) /\ g_cpus[s].timer = lapic[c].timer

\* How far the boot CPU is, and what it has published by then.
BootInv ==
  /\ pc[Bsp] \notin NotYet
  /\ g_cpu_count = 0 <=> pc[Bsp] = "lapic"
  /\ pc[Bsp] = "lapic" => next_cpu = 1
  /\ pc[Bsp] \in {"loop", "goto"} => g_cpu_count = 1
  /\ pc[Bsp] = "wait" => g_cpu_count = next_cpu /\ g_cpus[0].online
  /\ pc[Bsp] \in Starting => ~g_sched_ready
  /\ pc[Bsp] \in {"irq", "run"} => g_sched_ready
  /\ g_sched_ready => g_cpu_count = next_cpu /\ g_cpus[0].online
  /\ g_cpu_count # 0 => g_cpus[0].apic_id = Bsp /\ lapic[Bsp].enabled
  /\ g_cpu_count > 1 => g_cpus[0].online
  /\ Matches(0, Bsp)

\* smp_init has released only CPUs of the list up to i, and before it
\* releases one its record is complete.
ReleaseInv ==
  /\ pc[Bsp] \in {"loop", "goto"} =>
       \A c \in goto_address : \E j \in 1 .. i - 1 : j \in DOMAIN cpus /\ cpus[j] = c
  /\ pc[Bsp] = "goto" =>
       /\ i \in DOMAIN cpus /\ cpus[i] \notin {NULL, Bsp}
       /\ next_cpu < MAX_CPUS
       /\ extra_argument[cpus[i]] = next_cpu
       /\ g_cpus[next_cpu] = CpuRecord(cpus[i], TRUE)

\* The records in use are those of the CPUs released, one each.
RecordInv ==
  /\ \A c \in goto_address : /\ extra_argument[c] \in 1 .. next_cpu - 1
                             /\ g_cpus[extra_argument[c]].apic_id = c
                             /\ Matches(extra_argument[c], c)
  /\ \A s \in 1 .. next_cpu - 1 : /\ g_cpus[s].apic_id \in goto_address
                                  /\ extra_argument[g_cpus[s].apic_id] = s

\* How far another CPU is, and what it has done by then.
ApInv ==
  \A c \in Cpus \ {Bsp} :
    /\ c \notin goto_address => pc[c] = "parked" /\ lapic[c] = [enabled |-> FALSE, timer |-> NoTimer]
    /\ pc[c] \in NotYet \cup Past
    /\ pc[c] \in {"configured", "spin"} \cup Past => LapicId(c) = c /\ lapic[c].enabled
    /\ pc[c] \in {"spin"} \cup Past => g_cpus[extra_argument[c]].online
    /\ pc[c] \in Past => g_sched_ready

SmpInv == TypeOK /\ BootInv /\ ReleaseInv /\ RecordInv /\ ApInv

\* CPUs that have a record under which cpu_self finds them, and its slot.
Up(c) == g_cpu_count # 0 /\ (c = Bsp \/ pc[c] \in Past)
Slot(c) == IF c = Bsp THEN 0 ELSE extra_argument[c]

IpiTypeOK ==
  /\ pt \in [Pages -> Entries \cup {NULL}]
  /\ tlb \in [Cpus -> [Pages -> Entries \cup {NULL}]]
  /\ pending \in [Cpus -> SUBSET Vectors]
  /\ bcast \in [Cpus -> [vector : Vectors, at : Nat] \cup {NULL}]

\* Only CPUs that are up broadcast or use pages, and once there is one the
\* handlers are in place.
UseInv ==
  /\ g_cpu_count # 0 => g_ipi_ready /\ g_irq_handlers["TLB"] = "tlb"
  /\ \A c \in Cpus : bcast[c] # NULL => Up(c)
  /\ \A c \in Cpus, p \in Pages : tlb[c][p] # NULL => Up(c)

\* A CPU that broadcasts a shootdown has the lock.
LockInv ==
  \A c \in Cpus : bcast[c] # NULL /\ bcast[c].vector = "TLB" => g_paging_lock = c

\* StaleCovered, and the broadcast that covers a CPU is another CPU's: its
\* own would pass it over.
CoverInv ==
  \A c \in Cpus, p \in Pages :
    Stale(c, p) =>
      \/ "TLB" \in pending[c]
      \/ \E d \in Cpus \ {c} :
           bcast[d] # NULL /\ bcast[d].vector = "TLB" /\ bcast[d].at <= Slot(c)

IInv == SmpInv /\ IpiTypeOK /\ UseInv /\ LockInv /\ CoverInv

-----------------------------------------------------------------------------
(* Facts about the constants and about records.                            *)

LEMMA ConstantFacts ==
  /\ Bsp \in Cpus /\ Bsp \in Nat /\ LapicId(Bsp) = Bsp
  /\ Cpus \subseteq Nat /\ NULL \notin Cpus
  /\ 0 \in Slots /\ Slots \subseteq Nat /\ NULL \notin Slots
  /\ \A m \in Machines :
       /\ Len(m) \in Nat /\ DOMAIN m = 1 .. Len(m)
       /\ \A j \in DOMAIN m : m[j] # NULL => m[j] \in Cpus
<1>1. Bsp \in Nat /\ LapicId(Bsp) = Bsp
  <2>1. \A a, n \in Nat : a < n => a % n = a
    BY SMT
  <2>2. Bsp \in Nat /\ APIC_IDS \in Nat /\ Bsp < APIC_IDS
    BY SmpAssumption, SMT
  <2> QED
    BY <2>1, <2>2 DEF LapicId
<1>2. Cpus \subseteq Nat
  <2> SUFFICES ASSUME NEW c \in Cpus PROVE c \in Nat
    OBVIOUS
  <2>1. CASE c = Bsp
    BY <1>1, <2>1
  <2>2. CASE c # Bsp
    <3>1. PICK m \in Machines : \E k \in DOMAIN m : c = m[k]
      <4>1. c \in UNION {{m[k] : k \in DOMAIN m} : m \in Machines}
        BY <2>2 DEF Cpus, AllCpus
      <4> QED
        BY <4>1
    <3>2. PICK k \in DOMAIN m : c = m[k]
      BY <3>1
    <3>3. m \in Seq(Nat \cup {NULL})
      BY MachinesAssumption
    <3> QED
      BY <3>2, <3>3, SMT DEF Cpus
  <2> QED
    BY <2>1, <2>2
<1>3. \A m \in Machines : Len(m) \in Nat /\ DOMAIN m = 1 .. Len(m)
  BY MachinesAssumption, SMT
<1>4. ASSUME NEW m \in Machines, NEW j \in DOMAIN m, m[j] # NULL PROVE m[j] \in Cpus
  <2>1. m[j] \in {m[k] : k \in DOMAIN m}
    OBVIOUS
  <2>2. m[j] \in UNION {{n[k] : k \in DOMAIN n} : n \in Machines}
    BY <2>1
  <2> QED
    BY <2>2, <1>4 DEF Cpus, AllCpus
<1>5. Bsp \in Cpus /\ NULL \notin Cpus
  <2>1. Bsp # NULL
    BY <1>1, MachinesAssumption
  <2> QED
    BY <2>1 DEF Cpus, AllCpus
<1>6. 0 \in Slots /\ Slots \subseteq Nat /\ NULL \notin Slots
  BY SmpAssumption, MachinesAssumption, SMT DEF Slots
<1> QED
  BY <1>1, <1>2, <1>3, <1>4, <1>5, <1>6

\* cpu_self of a CPU that smp_init has counted and whose id fits the register
\* is the slot whose record smp_init filled for it.
LEMMA ReleasedSelf ==
  ASSUME SmpInv, NEW c \in goto_address, LapicId(c) = c, g_sched_ready
  PROVE  CpuSelf(c) = extra_argument[c] /\ extra_argument[c] < g_cpu_count
<1> DEFINE own == {s \in 0 .. g_cpu_count - 1 : g_cpus[s].apic_id = LapicId(c)}
<1>0. CpuSelf(c) = IF own = {} THEN 0 ELSE CHOOSE s \in own : \A t \in own : s <= t
  BY DEF CpuSelf
<1>1. next_cpu \in Nat /\ g_cpu_count = next_cpu /\ next_cpu >= 1 /\ g_cpu_count # 0
  BY SmpAssumption, SMT DEF SmpInv, TypeOK, BootInv
<1>2. /\ extra_argument[c] \in 1 .. next_cpu - 1
      /\ g_cpus[extra_argument[c]].apic_id = c
  BY DEF SmpInv, RecordInv
<1>3. \A s \in own : s = extra_argument[c]
  <2> SUFFICES ASSUME NEW s \in own PROVE s = extra_argument[c]
    OBVIOUS
  <2>1. CASE s = 0
    <3>1. g_cpus[0].apic_id = Bsp /\ c # Bsp
      BY <1>1 DEF SmpInv, BootInv, TypeOK
    <3> QED
      BY <3>1, <2>1
  <2>2. CASE s # 0
    <3>1. s \in 1 .. next_cpu - 1
      BY <2>2, <1>1, SMT
    <3> QED
      BY <3>1 DEF SmpInv, RecordInv
  <2> QED
    BY <2>1, <2>2
<1>4. extra_argument[c] \in own
  BY <1>1, <1>2, SMT
<1>5. own = {extra_argument[c]}
  BY <1>3, <1>4
<1>6. \A s \in own : \A t \in own : s <= t
  BY <1>5, <1>2, SMT
<1>7. (CHOOSE s \in own : \A t \in own : s <= t) \in own
  BY <1>6, <1>4
<1> QED
  BY <1>0, <1>1, <1>2, <1>4, <1>5, <1>7, SMT

\* cpu_self of the boot CPU, and of a CPU that is up, is the slot whose record
\* smp_init filled for it.
LEMMA SelfIsSlot ==
  ASSUME SmpInv, NEW c \in Cpus, c = Bsp \/ Up(c)
  PROVE  CpuSelf(c) = Slot(c) /\ Slot(c) \in Slots /\ Matches(Slot(c), c)
         /\ (g_cpu_count # 0 => Slot(c) < g_cpu_count /\ g_cpus[Slot(c)].apic_id = c
                                  /\ LapicId(c) = c /\ lapic[c].enabled)
<1> DEFINE own == {s \in 0 .. g_cpu_count - 1 : g_cpus[s].apic_id = LapicId(c)}
<1>0. CpuSelf(c) = IF own = {} THEN 0 ELSE CHOOSE s \in own : \A t \in own : s <= t
  BY DEF CpuSelf
<1>t. g_cpu_count \in Nat /\ g_cpu_count <= next_cpu /\ next_cpu \in 1 .. MAX_CPUS
  BY SmpAssumption, SMT DEF SmpInv, TypeOK
<1>1. CASE c = Bsp
  <2>1. Slot(c) = 0 /\ Slot(c) \in Slots /\ Matches(Slot(c), c)
    BY <1>1, ConstantFacts DEF Slot, SmpInv, BootInv
  <2>2. g_cpu_count # 0 => Slot(c) < g_cpu_count /\ g_cpus[Slot(c)].apic_id = c
                           /\ LapicId(c) = c /\ lapic[c].enabled
    BY <1>1, <1>t, <2>1, ConstantFacts, SMT DEF SmpInv, BootInv
  <2>3. \A s \in own : s = 0
    <3> SUFFICES ASSUME NEW s \in own, s # 0 PROVE FALSE
      OBVIOUS
    <3>1. s \in 1 .. next_cpu - 1
      BY <1>t, SMT
    <3>2. g_cpus[s].apic_id \in goto_address
      BY <3>1 DEF SmpInv, RecordInv
    <3> QED
      BY <3>2, <1>1, ConstantFacts DEF SmpInv, TypeOK
  <2>4. CpuSelf(c) = 0
    <3>1. CASE own = {}
      BY <3>1, <1>0
    <3>2. CASE own # {}
      <4>1. own = {0}
        BY <3>2, <2>3
      <4>2. \A s \in own : \A t \in own : s <= t
        BY <4>1, SMT
      <4>3. (CHOOSE s \in own : \A t \in own : s <= t) \in own
        BY <4>2, <3>2
      <4> QED
        BY <4>3, <4>1, <1>0, <3>2
    <3> QED
      BY <3>1, <3>2
  <2> QED
    BY <2>1, <2>2, <2>4
<1>2. CASE c # Bsp
  <2>1. pc[c] \in Past /\ g_cpu_count # 0
    BY <1>2 DEF Up
  <2>2. c \in goto_address /\ LapicId(c) = c /\ lapic[c].enabled /\ g_sched_ready
    BY <2>1, <1>2 DEF SmpInv, ApInv, Past
  <2>3. g_cpu_count = next_cpu
    BY <2>2 DEF SmpInv, BootInv
  <2>4. /\ extra_argument[c] \in 1 .. next_cpu - 1
        /\ g_cpus[extra_argument[c]].apic_id = c
        /\ Matches(extra_argument[c], c)
    BY <2>2 DEF SmpInv, RecordInv
  <2>5. Slot(c) = extra_argument[c]
    BY <1>2 DEF Slot
  <2>8. CpuSelf(c) = extra_argument[c]
    BY <2>2, ReleasedSelf
  <2>9. extra_argument[c] \in Slots
    BY <2>4, <1>t, SmpAssumption, SMT DEF Slots
  <2> QED
    BY <2>2, <2>3, <2>4, <2>5, <2>8, <2>9, <1>t, SMT
<1> QED
  BY <1>1, <1>2

-----------------------------------------------------------------------------
(* Start-up preserves SmpInv, action by action.                            *)

DefaultTimer == [vector |-> "default", count |-> "default"]

LEMMA TimerFacts ==
  /\ NoTimer \in Timers /\ DefaultTimer \in Timers
  /\ \A n \in COUNTS : [vector |-> "tick", count |-> n] \in Timers
  /\ NoCpu \in Records
BY SmpAssumption DEF Timers, NoTimer, DefaultTimer, NoCpu, Records

\* x86_lapic_timer_start by a CPU whose record is in slot u writes that
\* record and the CPU's APIC, and nothing else.
LEMMA TimerStartFacts ==
  ASSUME SmpInv, NEW c \in Cpus, NEW u \in Slots, CpuSelf(c) = u, Matches(u, c),
         NEW n \in COUNTS, TimerStart(c, n)
  PROVE  /\ g_cpus' \in [Slots -> Records]
         /\ lapic' \in [Cpus -> [enabled : BOOLEAN, timer : Timers]]
         /\ \A s \in Slots : /\ g_cpus'[s].apic_id = g_cpus[s].apic_id
                             /\ g_cpus'[s].online <=> g_cpus[s].online
                             /\ s # u => g_cpus'[s] = g_cpus[s]
         /\ \A d \in Cpus : (lapic'[d].enabled <=> lapic[d].enabled) /\ (d # c => lapic'[d] = lapic[d])
         /\ Matches(u, c)'
<1> DEFINE t == [vector |-> "tick", count |-> n]
<1>1. t \in Timers
  BY TimerFacts
<1>2. /\ g_cpus \in [Slots -> Records]
      /\ lapic \in [Cpus -> [enabled : BOOLEAN, timer : Timers]]
  BY DEF SmpInv, TypeOK
<1>3. CASE g_cpus[u].initialized
  <2>1. /\ lapic' = [lapic EXCEPT ![c].timer = t]
        /\ g_cpus' = [g_cpus EXCEPT ![u].timer = t]
    BY <1>3 DEF TimerStart
  <2> HIDE DEF t
  <2>2. /\ g_cpus' \in [Slots -> Records]
        /\ \A s \in Slots : s # u => g_cpus'[s] = g_cpus[s]
    BY <2>1, <1>1, <1>2, SMT DEF Records
  <2>3. /\ g_cpus'[u].apic_id = g_cpus[u].apic_id
        /\ g_cpus'[u].online <=> g_cpus[u].online
        /\ g_cpus'[u].initialized
        /\ g_cpus'[u].timer = t
    BY <2>1, <1>1, <1>2, <1>3 DEF Records
  <2>4. /\ lapic' \in [Cpus -> [enabled : BOOLEAN, timer : Timers]]
        /\ \A d \in Cpus : d # c => lapic'[d] = lapic[d]
        /\ lapic'[c].enabled <=> lapic[c].enabled
        /\ lapic'[c].timer = t
    BY <2>1, <1>1, <1>2
  <2>5. lapic[c].enabled
    BY <1>3 DEF Matches
  <2>6. Matches(u, c)'
    BY <2>3, <2>4, <2>5 DEF Matches
  <2>7. \A s \in Slots : /\ g_cpus'[s].apic_id = g_cpus[s].apic_id
                         /\ g_cpus'[s].online <=> g_cpus[s].online
                         /\ s # u => g_cpus'[s] = g_cpus[s]
    <3> SUFFICES ASSUME NEW s \in Slots
                 PROVE  /\ g_cpus'[s].apic_id = g_cpus[s].apic_id
                        /\ g_cpus'[s].online <=> g_cpus[s].online
                        /\ s # u => g_cpus'[s] = g_cpus[s]
      OBVIOUS
    <3>1. CASE s = u
      BY <3>1, <2>3
    <3>2. CASE s # u
      BY <3>2, <2>2
    <3> QED
      BY <3>1, <3>2
  <2>8. \A d \in Cpus : (lapic'[d].enabled <=> lapic[d].enabled) /\ (d # c => lapic'[d] = lapic[d])
    BY <2>4
  <2> QED
    BY <2>2, <2>4, <2>6, <2>7, <2>8
<1>4. CASE ~g_cpus[u].initialized
  <2>1. lapic' = lapic /\ g_cpus' = g_cpus
    BY <1>4 DEF TimerStart
  <2> QED
    BY <2>1, <1>2 DEF Matches
<1> QED
  BY <1>3, <1>4

\* lapic_configure by CPU c for slot s writes that record and its APIC.
LEMMA ConfigureFacts ==
  ASSUME SmpInv, NEW c \in Cpus, NEW s \in Slots, NEW id \in Nat, LapicConfigure(c, s, id)
  PROVE  /\ g_cpus' \in [Slots -> Records]
         /\ lapic' \in [Cpus -> [enabled : BOOLEAN, timer : Timers]]
         /\ \A u \in Slots : u # s => g_cpus'[u] = g_cpus[u]
         /\ g_cpus'[s].apic_id = id /\ (g_cpus'[s].online <=> g_cpus[s].online)
         /\ g_cpus'[s].initialized /\ g_cpus'[s].timer = DefaultTimer
         /\ \A d \in Cpus : d # c => lapic'[d] = lapic[d]
         /\ lapic'[c] = [enabled |-> TRUE, timer |-> DefaultTimer]
<1>1. /\ lapic' = [lapic EXCEPT ![c] = [enabled |-> TRUE, timer |-> DefaultTimer]]
      /\ g_cpus' = [g_cpus EXCEPT ![s] = [@ EXCEPT !.apic_id = id, !.initialized = TRUE,
                                                   !.timer = DefaultTimer]]
  BY DEF LapicConfigure, DefaultTimer
<1>2. /\ g_cpus \in [Slots -> Records] /\ DefaultTimer \in Timers
      /\ lapic \in [Cpus -> [enabled : BOOLEAN, timer : Timers]]
  BY TimerFacts DEF SmpInv, TypeOK
<1>3. /\ lapic' \in [Cpus -> [enabled : BOOLEAN, timer : Timers]]
      /\ \A d \in Cpus : d # c => lapic'[d] = lapic[d]
      /\ lapic'[c] = [enabled |-> TRUE, timer |-> DefaultTimer]
  BY <1>1, <1>2
<1>4. /\ g_cpus' \in [Slots -> Records]
      /\ \A u \in Slots : u # s => g_cpus'[u] = g_cpus[u]
  BY <1>1, <1>2 DEF Records
<1>5. /\ g_cpus'[s].apic_id = id /\ (g_cpus'[s].online <=> g_cpus[s].online)
      /\ g_cpus'[s].initialized /\ g_cpus'[s].timer = DefaultTimer
  BY <1>1, <1>2 DEF Records
<1> QED
  BY <1>3, <1>4, <1>5

LEMMA LapicBspInitStep ==
  ASSUME SmpInv, LapicBspInit
  PROVE  SmpInv'
<1>1. /\ pc[Bsp] = "lapic" /\ g_cpu_count' = 1 /\ pc' = [pc EXCEPT ![Bsp] = "loop"]
      /\ LapicConfigure(Bsp, 0, Bsp)
      /\ UNCHANGED <<cpus, i, next_cpu, extra_argument, goto_address, g_sched_ready,
                     g_sched_lapic_init_count, irq_on>>
  BY ConstantFacts DEF LapicBspInit
<1>2. /\ g_cpus' \in [Slots -> Records]
      /\ lapic' \in [Cpus -> [enabled : BOOLEAN, timer : Timers]]
      /\ \A u \in Slots : u # 0 => g_cpus'[u] = g_cpus[u]
      /\ g_cpus'[0].apic_id = Bsp /\ g_cpus'[0].initialized /\ g_cpus'[0].timer = DefaultTimer
      /\ \A d \in Cpus : d # Bsp => lapic'[d] = lapic[d]
      /\ lapic'[Bsp] = [enabled |-> TRUE, timer |-> DefaultTimer]
  BY <1>1, ConstantFacts, ConfigureFacts
<1>3. /\ next_cpu = 1 /\ ~g_sched_ready
      /\ goto_address = {}
  BY <1>1, SMT DEF SmpInv, TypeOK, BootInv, RecordInv, Starting
<1>4. pc'[Bsp] = "loop" /\ \A c \in Cpus : c # Bsp => pc'[c] = pc[c]
  BY <1>1, ConstantFacts DEF SmpInv, TypeOK
<1>5. TypeOK'
  BY <1>1, <1>2, <1>3 DEF SmpInv, TypeOK, Starting
<1>6. BootInv'
  <2>1. Matches(0, Bsp)'
    BY <1>2, SMT DEF Matches
  <2>2. lapic'[Bsp].enabled
    BY <1>2, SMT
  <2> QED
    BY <1>1, <1>2, <1>3, <1>4, <2>1, <2>2, SMT DEF BootInv, NotYet, Starting
<1>7. ReleaseInv' /\ RecordInv'
  <2>1. goto_address' = {} /\ next_cpu' = 1 /\ pc'[Bsp] # "goto"
    BY <1>1, <1>3, <1>4
  <2>2. ReleaseInv'
    BY <2>1 DEF ReleaseInv
  <2>3. RecordInv'
    BY <2>1, SMT DEF RecordInv
  <2> QED
    BY <2>2, <2>3
<1>8. ApInv'
  BY <1>1, <1>2, <1>3, <1>4, SMT DEF SmpInv, ApInv, Past
<1> QED
  BY <1>5, <1>6, <1>7, <1>8 DEF SmpInv

\* smp_init releases a CPU once: the one it is at has not been released.
LEMMA NotReleased ==
  ASSUME SmpInv, pc[Bsp] \in {"loop", "goto"}, i \in DOMAIN cpus, cpus[i] \notin {NULL, Bsp}
  PROVE  cpus[i] \in Cpus \ {Bsp} /\ cpus[i] \notin goto_address
<1>1. cpus \in Machines /\ i \in Nat
  BY DEF SmpInv, TypeOK
<1>2. cpus[i] \in Cpus
  BY <1>1, ConstantFacts
<1>3. ASSUME cpus[i] \in goto_address PROVE FALSE
  <2>1. PICK j \in 1 .. i - 1 : j \in DOMAIN cpus /\ cpus[j] = cpus[i]
    BY <1>3 DEF SmpInv, ReleaseInv
  <2>2. j = i
    BY <2>1, <1>1, MachinesAssumption
  <2> QED
    BY <2>1, <2>2, <1>1, SMT
<1> QED
  BY <1>2, <1>3

\* The slots of the CPUs that have been released.
LEMMA SlotFacts ==
  ASSUME SmpInv
  PROVE  /\ next_cpu \in Nat /\ next_cpu >= 1 /\ next_cpu <= MAX_CPUS /\ MAX_CPUS \in Nat
         /\ \A c \in goto_address : /\ c \in Cpus /\ c # Bsp
                                    /\ extra_argument[c] \in Nat /\ extra_argument[c] \in Slots
                                    /\ 0 < extra_argument[c] /\ extra_argument[c] < next_cpu
                                    /\ extra_argument[c] # NULL
         /\ \A s \in 1 .. next_cpu - 1 : s \in Slots
<1>1. next_cpu \in 1 .. MAX_CPUS /\ MAX_CPUS \in Nat /\ goto_address \subseteq Cpus \ {Bsp}
  BY SmpAssumption DEF SmpInv, TypeOK
<1>2. \A c \in goto_address : extra_argument[c] \in 1 .. next_cpu - 1
  BY DEF SmpInv, RecordInv
<1>3. \A s \in 1 .. next_cpu - 1 : s \in Slots /\ s \in Nat /\ 0 < s /\ s < next_cpu /\ s # NULL
  BY <1>1, ConstantFacts, SMT DEF Slots
<1> QED
  BY <1>1, <1>2, <1>3, SMT

\* A step of a released CPU c that writes its record, in slot u, and its
\* APIC only.
LEMMA ReleasedStep ==
  ASSUME SmpInv, NEW c \in goto_address, NEW u, u = extra_argument[c],
         NEW q \in NotYet \cup Past, pc' = [pc EXCEPT ![c] = q],
         g_cpus' \in [Slots -> Records],
         lapic' \in [Cpus -> [enabled : BOOLEAN, timer : Timers]],
         \A s \in Slots : s # u => g_cpus'[s] = g_cpus[s],
         \A d \in Cpus : d # c => lapic'[d] = lapic[d],
         g_cpus'[u].apic_id = c, Matches(u, c)',
         q \in {"configured", "spin"} \cup Past => LapicId(c) = c /\ lapic'[c].enabled,
         q \in {"spin"} \cup Past => g_cpus'[u].online,
         q \in Past => g_sched_ready,
         g_sched_lapic_init_count' \in COUNTS \cup {"none"},
         UNCHANGED <<cpus, i, next_cpu, g_cpu_count, extra_argument, goto_address, g_sched_ready>>
  PROVE  SmpInv'
<1>1. /\ c \in Cpus /\ c # Bsp /\ u \in Slots /\ u \in Nat /\ 0 < u /\ u < next_cpu
      /\ next_cpu \in Nat /\ next_cpu <= MAX_CPUS /\ MAX_CPUS \in Nat
  BY SlotFacts
<1>2. pc'[c] = q /\ \A d \in Cpus : d # c => pc'[d] = pc[d]
  BY <1>1 DEF SmpInv, TypeOK
<1>3. TypeOK'
  BY <1>1 DEF SmpInv, TypeOK
<1>4. BootInv'
  <2>1. g_cpus'[0] = g_cpus[0] /\ lapic'[Bsp] = lapic[Bsp] /\ pc'[Bsp] = pc[Bsp]
    BY <1>1, <1>2, ConstantFacts, SMT
  <2>2. Matches(0, Bsp)'
    BY <2>1 DEF SmpInv, BootInv, Matches
  <2> QED
    BY <2>1, <2>2 DEF SmpInv, BootInv
<1>5. ReleaseInv'
  <2>1. pc'[Bsp] = pc[Bsp]
    BY <1>1, <1>2, ConstantFacts
  <2>2. next_cpu < MAX_CPUS => g_cpus'[next_cpu] = g_cpus[next_cpu]
    BY <1>1, SMT DEF Slots
  <2> QED
    BY <2>1, <2>2 DEF SmpInv, ReleaseInv
<1>6. RecordInv'
  <2>1. ASSUME NEW d \in goto_address
        PROVE  /\ extra_argument[d] \in 1 .. next_cpu - 1
               /\ g_cpus'[extra_argument[d]].apic_id = d
               /\ Matches(extra_argument[d], d)'
    <3>1. CASE d = c
      BY <3>1 DEF SmpInv, RecordInv, Matches
    <3>2. CASE d # c
      <4>1. extra_argument[d] # u /\ extra_argument[d] \in Slots /\ d \in Cpus
        BY <3>2, SlotFacts, SMT DEF SmpInv, RecordInv
      <4>2. g_cpus'[extra_argument[d]] = g_cpus[extra_argument[d]] /\ lapic'[d] = lapic[d]
        BY <4>1, <3>2
      <4> QED
        BY <4>2, SMT DEF SmpInv, RecordInv, Matches
    <3> QED
      BY <3>1, <3>2
  <2>2. ASSUME NEW s \in 1 .. next_cpu - 1
        PROVE  g_cpus'[s].apic_id \in goto_address /\ extra_argument[g_cpus'[s].apic_id] = s
    <3>1. CASE s = u
      BY <3>1
    <3>2. CASE s # u
      <4>1. g_cpus'[s] = g_cpus[s]
        BY <3>2, SlotFacts
      <4> QED
        BY <4>1, SMT DEF SmpInv, RecordInv
    <3> QED
      BY <3>1, <3>2
  <2> QED
    BY <2>1, <2>2 DEF RecordInv, Matches
<1>7. ApInv'
  <2> SUFFICES ASSUME NEW d \in Cpus \ {Bsp}
               PROVE  /\ d \notin goto_address =>
                           pc'[d] = "parked" /\ lapic'[d] = [enabled |-> FALSE, timer |-> NoTimer]
                      /\ pc'[d] \in NotYet \cup Past
                      /\ pc'[d] \in {"configured", "spin"} \cup Past => LapicId(d) = d /\ lapic'[d].enabled
                      /\ pc'[d] \in {"spin"} \cup Past => g_cpus'[extra_argument[d]].online
                      /\ pc'[d] \in Past => g_sched_ready
    BY DEF ApInv
  <2>1. CASE d = c
    BY <2>1, <1>2, SMT
  <2>2. CASE d # c
    <3>1. pc'[d] = pc[d] /\ lapic'[d] = lapic[d]
      BY <2>2, <1>2
    <3>2. pc[d] \in {"spin"} \cup Past => g_cpus'[extra_argument[d]].online
      <4> SUFFICES ASSUME pc[d] \in {"spin"} \cup Past PROVE g_cpus'[extra_argument[d]].online
        OBVIOUS
      <4>1. d \in goto_address /\ g_cpus[extra_argument[d]].online
        BY DEF SmpInv, ApInv, Past
      <4>2. extra_argument[d] # u /\ extra_argument[d] \in Slots
        BY <4>1, <2>2, SlotFacts, SMT DEF SmpInv, RecordInv
      <4> QED
        BY <4>1, <4>2
    <3> QED
      BY <3>1, <3>2 DEF SmpInv, ApInv
  <2> QED
    BY <2>1, <2>2
<1> QED
  BY <1>3, <1>4, <1>5, <1>6, <1>7 DEF SmpInv

\* A CPU that has left the boot loader, and is not the boot CPU, was released.
LEMMA Released ==
  ASSUME SmpInv, NEW c \in Cpus, pc[c] \in {"entered", "configured", "spin"} \/ (c # Bsp /\ pc[c] \in Past)
  PROVE  /\ c \in goto_address /\ c # Bsp
         /\ g_cpus[extra_argument[c]].apic_id = c /\ Matches(extra_argument[c], c)
<1>1. c # Bsp
  BY DEF SmpInv, BootInv, NotYet
<1>2. c \in goto_address
  BY <1>1 DEF SmpInv, ApInv, Past
<1> QED
  BY <1>1, <1>2 DEF SmpInv, RecordInv

LEMMA ApStepPreserves ==
  ASSUME SmpInv, NEW c \in Cpus, ApStep(c)
  PROVE  SmpInv'
<1> DEFINE u == extra_argument[c]
<1>t. /\ g_cpus \in [Slots -> Records] /\ lapic \in [Cpus -> [enabled : BOOLEAN, timer : Timers]]
      /\ g_sched_lapic_init_count \in COUNTS \cup {"none"}
  BY DEF SmpInv, TypeOK
<1>1. ASSUME NEW mapped \in BOOLEAN, ApEntry(c, mapped) PROVE SmpInv'
  <2>1. /\ c \in goto_address /\ pc[c] = "parked"
        /\ UNCHANGED <<cpus, i, next_cpu, g_cpu_count, extra_argument, goto_address, lapic,
                       g_sched_ready, g_sched_lapic_init_count>>
    BY <1>1 DEF ApEntry
  <2>2. g_cpus[u].apic_id = c /\ Matches(u, c) /\ u \in Slots
    BY <2>1, SlotFacts DEF SmpInv, RecordInv
  <2>3. CASE pc' = [pc EXCEPT ![c] = "dead"] /\ g_cpus' = g_cpus
    <3>1. Matches(u, c)'
      BY <2>1, <2>2, <2>3 DEF Matches
    <3> HIDE DEF u
    <3> QED
      BY <2>1, <2>2, <2>3, <3>1, <1>t, ReleasedStep DEF NotYet, Past, u
  <2>5. CASE pc' = [pc EXCEPT ![c] = "fault"] /\ g_cpus' = g_cpus
    <3>1. Matches(u, c)'
      BY <2>1, <2>2, <2>5 DEF Matches
    <3> HIDE DEF u
    <3> QED
      BY <2>1, <2>2, <2>5, <3>1, <1>t, ReleasedStep DEF NotYet, Past, u
  <2>4. CASE /\ pc' = [pc EXCEPT ![c] = "entered"]
             /\ g_cpus' = [g_cpus EXCEPT ![u].online = FALSE, ![u].apic_id = c]
    <3>1. /\ g_cpus' \in [Slots -> Records] /\ \A s \in Slots : s # u => g_cpus'[s] = g_cpus[s]
          /\ g_cpus'[u].apic_id = c /\ g_cpus'[u].timer = g_cpus[u].timer
          /\ g_cpus'[u].initialized <=> g_cpus[u].initialized
      <4>1. c \in Nat
        BY ConstantFacts
      <4> HIDE DEF u
      <4> QED
        BY <4>1, <2>2, <2>4, <1>t DEF Records
    <3>2. Matches(u, c)'
      BY <2>1, <2>2, <3>1 DEF Matches
    <3> QED
      BY <2>1, <2>4, <3>1, <3>2, <1>t, ReleasedStep DEF NotYet, Past
  <2> QED
    BY <1>1, <2>3, <2>4, <2>5 DEF ApEntry
<1>2. CASE ApLapicInit(c)
  <2>1. /\ c \in goto_address /\ g_cpus[u].apic_id = c /\ Matches(u, c) /\ u \in Slots
        /\ UNCHANGED <<cpus, i, next_cpu, g_cpu_count, extra_argument, goto_address,
                       g_sched_ready, g_sched_lapic_init_count>>
    BY <1>2, Released, SlotFacts DEF ApLapicInit
  <2>2. CASE /\ LapicId(c) = c /\ LapicConfigure(c, u, c)
             /\ pc' = [pc EXCEPT ![c] = "configured"]
    <3>1. /\ g_cpus' \in [Slots -> Records]
          /\ lapic' \in [Cpus -> [enabled : BOOLEAN, timer : Timers]]
          /\ \A s \in Slots : s # u => g_cpus'[s] = g_cpus[s]
          /\ g_cpus'[u].apic_id = c /\ g_cpus'[u].initialized /\ g_cpus'[u].timer = DefaultTimer
          /\ \A d \in Cpus : d # c => lapic'[d] = lapic[d]
          /\ lapic'[c] = [enabled |-> TRUE, timer |-> DefaultTimer]
      <4>1. c \in Nat
        BY ConstantFacts
      <4>2. u \in Slots /\ LapicConfigure(c, u, c)
        BY <2>1, <2>2
      <4> HIDE DEF u
      <4> QED
        BY <4>1, <4>2, ConfigureFacts
    <3>2. lapic'[c].enabled /\ lapic'[c].timer = DefaultTimer
      BY <3>1, SMT
    <3>3. Matches(u, c)'
      BY <2>1, <3>1, <3>2 DEF Matches
    <3> QED
      BY <2>1, <2>2, <3>1, <3>2, <3>3, <1>t, ReleasedStep DEF NotYet, Past
  <2>3. CASE pc' = [pc EXCEPT ![c] = "dead"] /\ UNCHANGED <<lapic, g_cpus>>
    <3>1. Matches(u, c)'
      BY <2>1, <2>3 DEF Matches
    <3> QED
      BY <2>1, <2>3, <3>1, <1>t, ReleasedStep DEF NotYet, Past
  <2> QED
    BY <1>2, <2>1, <2>2, <2>3 DEF ApLapicInit
<1>3. CASE ApOnline(c)
  <2>1. /\ c \in goto_address /\ g_cpus[u].apic_id = c /\ Matches(u, c) /\ u \in Slots
        /\ UNCHANGED <<cpus, i, next_cpu, g_cpu_count, extra_argument, goto_address, lapic,
                       g_sched_ready, g_sched_lapic_init_count>>
        /\ pc' = [pc EXCEPT ![c] = "spin"] /\ g_cpus' = [g_cpus EXCEPT ![u].online = TRUE]
    BY <1>3, Released, SlotFacts DEF ApOnline
  <2>2. LapicId(c) = c /\ lapic[c].enabled
    BY <1>3, <2>1, SlotFacts DEF SmpInv, ApInv, ApOnline
  <2>3. /\ g_cpus' \in [Slots -> Records] /\ \A s \in Slots : s # u => g_cpus'[s] = g_cpus[s]
        /\ g_cpus'[u].apic_id = c /\ g_cpus'[u].timer = g_cpus[u].timer /\ g_cpus'[u].online
        /\ g_cpus'[u].initialized <=> g_cpus[u].initialized
    <3> HIDE DEF u
    <3> QED
      BY <2>1, <1>t DEF Records
  <2>4. Matches(u, c)'
    BY <2>1, <2>3 DEF Matches
  <2> QED
    BY <2>1, <2>2, <2>3, <2>4, <1>t, ReleasedStep DEF NotYet, Past
<1>4. CASE SchedApInit(c)
  <2>1. /\ c \in goto_address /\ g_cpus[u].apic_id = c /\ Matches(u, c) /\ u \in Slots /\ c # Bsp
        /\ UNCHANGED <<cpus, i, next_cpu, g_cpu_count, extra_argument, goto_address, g_sched_ready>>
        /\ pc' = [pc EXCEPT ![c] = "run"] /\ g_sched_ready /\ pc[c] = "spin"
    BY <1>4, Released, SlotFacts DEF SchedApInit
  <2>2. PICK n \in COUNTS : g_sched_lapic_init_count' = n /\ TimerStart(c, n)
    BY <1>4, <1>t, SmpAssumption DEF SchedApInit
  <2>3. LapicId(c) = c /\ lapic[c].enabled /\ g_cpus[u].online
    BY <2>1 DEF SmpInv, ApInv
  <2>4. CpuSelf(c) = u
    BY <2>1, <2>3, ReleasedSelf
  <2>5. /\ g_cpus' \in [Slots -> Records]
        /\ lapic' \in [Cpus -> [enabled : BOOLEAN, timer : Timers]]
        /\ g_cpus'[u].apic_id = g_cpus[u].apic_id
        /\ g_cpus'[u].online <=> g_cpus[u].online
        /\ \A s \in Slots : s # u => g_cpus'[s] = g_cpus[s]
        /\ lapic'[c].enabled <=> lapic[c].enabled
        /\ \A d \in Cpus : d # c => lapic'[d] = lapic[d]
    BY <2>1, <2>2, <2>4, TimerStartFacts
  <2>6. Matches(u, c)'
    BY <2>1, <2>2, <2>4, TimerStartFacts DEF Matches
  <2> QED
    BY <2>1, <2>2, <2>3, <2>5, <2>6, ReleasedStep DEF NotYet, Past
<1> QED
  BY <1>1, <1>2, <1>3, <1>4 DEF ApStep

\* A step of the boot CPU that changes i at most, outside the loop or past
\* an entry without a CPU to start.
LEMMA CounterStep ==
  ASSUME SmpInv, SmpInitSkip \/ SmpInitWait
  PROVE  SmpInv'
<1>1. /\ i \in Nat /\ i' = i + 1 /\ (pc[Bsp] = "loop" \/ pc[Bsp] = "wait")
      /\ UNCHANGED <<cpus, pc, next_cpu, g_cpu_count, g_cpus, extra_argument, goto_address,
                     lapic, g_sched_ready, g_sched_lapic_init_count>>
  BY DEF SmpInv, TypeOK, SmpInitSkip, SmpInitWait
<1>2. TypeOK'
  BY <1>1, SMT DEF SmpInv, TypeOK
<1>3. BootInv'
  BY <1>1 DEF SmpInv, BootInv, Matches
<1>4. ReleaseInv'
  <2>1. pc'[Bsp] # "goto"
    BY <1>1
  <2>2. ASSUME pc[Bsp] = "loop", NEW c \in goto_address
        PROVE  \E j \in 1 .. i' - 1 : j \in DOMAIN cpus /\ cpus[j] = c
    <3>1. PICK j \in 1 .. i - 1 : j \in DOMAIN cpus /\ cpus[j] = c
      BY <2>2 DEF SmpInv, ReleaseInv
    <3>2. j \in 1 .. i' - 1
      BY <1>1, SMT
    <3> QED
      BY <3>1, <3>2
  <2> QED
    BY <1>1, <2>1, <2>2 DEF ReleaseInv
<1>5. RecordInv'
  BY <1>1 DEF SmpInv, RecordInv, Matches
<1>6. ApInv'
  BY <1>1 DEF SmpInv, ApInv
<1> QED
  BY <1>2, <1>3, <1>4, <1>5, <1>6 DEF SmpInv

LEMMA SmpInitCpuStep ==
  ASSUME SmpInv, NEW stack \in BOOLEAN, SmpInitCpu(stack)
  PROVE  SmpInv'
<1> DEFINE r == CpuRecord(cpus[i], stack)
<1>1. /\ pc[Bsp] = "loop" /\ i <= Len(cpus) /\ cpus[i] \notin {NULL, Bsp} /\ next_cpu < MAX_CPUS
      /\ g_cpus' = [g_cpus EXCEPT ![0].online = TRUE, ![next_cpu] = r]
      /\ UNCHANGED <<cpus, next_cpu, g_cpu_count, goto_address, lapic, g_sched_ready,
                     g_sched_lapic_init_count>>
  BY DEF SmpInitCpu
<1>2. /\ cpus \in Machines /\ i \in Nat /\ i # 0 /\ i \in DOMAIN cpus
      /\ next_cpu \in Nat /\ next_cpu >= 1 /\ next_cpu \in Slots /\ next_cpu # 0
      /\ g_cpus \in [Slots -> Records] /\ 0 \in Slots
  <2>1. cpus \in Machines /\ i \in Nat \ {0}
    BY DEF SmpInv, TypeOK
  <2>2. Len(cpus) \in Nat /\ DOMAIN cpus = 1 .. Len(cpus)
    BY <2>1, ConstantFacts
  <2> QED
    BY <1>1, <2>1, <2>2, SlotFacts, ConstantFacts, SMT DEF SmpInv, TypeOK, Slots
<1>3. cpus[i] \in Cpus \ {Bsp} /\ cpus[i] \notin goto_address /\ cpus[i] \in Nat
  BY <1>1, <1>2, NotReleased, ConstantFacts
<1>4. r \in Records
  BY <1>3, TimerFacts DEF CpuRecord, NoCpu, Records
<1> HIDE DEF r
<1>5. /\ g_cpus' \in [Slots -> Records] /\ g_cpus'[next_cpu] = r
      /\ \A s \in Slots : s # 0 /\ s # next_cpu => g_cpus'[s] = g_cpus[s]
  BY <1>1, <1>2, <1>4 DEF Records
<1>6. /\ g_cpus'[0].online /\ g_cpus'[0].apic_id = g_cpus[0].apic_id
      /\ g_cpus'[0].timer = g_cpus[0].timer
      /\ g_cpus'[0].initialized <=> g_cpus[0].initialized
  BY <1>1, <1>2, <1>4 DEF Records
<1>7. /\ extra_argument' \in [Cpus -> Slots \cup {NULL}]
      /\ \A c \in goto_address : extra_argument'[c] = extra_argument[c]
      /\ \A c \in Cpus : c # Bsp => pc'[c] = pc[c]
      /\ i' \in Nat \ {0} /\ pc' \in [Cpus -> Starting \cup {"irq"} \cup NotYet \cup Past]
      /\ \/ /\ pc'[Bsp] = "goto" /\ i' = i /\ r = CpuRecord(cpus[i], TRUE)
            /\ extra_argument'[cpus[i]] = next_cpu
         \/ pc'[Bsp] = "loop" /\ i' = i + 1
  <2>0. pc \in [Cpus -> Starting \cup {"irq"} \cup NotYet \cup Past]
        /\ extra_argument \in [Cpus -> Slots \cup {NULL}]
    BY DEF SmpInv, TypeOK
  <2>1. CASE stack
    <3>1. /\ extra_argument' = [extra_argument EXCEPT ![cpus[i]] = next_cpu]
          /\ pc' = [pc EXCEPT ![Bsp] = "goto"] /\ i' = i
      BY <2>1 DEF SmpInitCpu
    <3>2. stack = TRUE
      BY <2>1
    <3>3. r = CpuRecord(cpus[i], TRUE)
      BY <3>2 DEF r
    <3>4. goto_address \subseteq Cpus
      BY SlotFacts
    <3> QED
      BY <3>1, <3>3, <3>4, <2>0, <1>2, <1>3, ConstantFacts DEF Starting
  <2>2. CASE ~stack
    <3>1. i' = i + 1 /\ extra_argument' = extra_argument /\ pc' = pc
      BY <2>2 DEF SmpInitCpu
    <3> QED
      BY <3>1, <2>0, <1>1, <1>2, SMT
  <2> QED
    BY <2>1, <2>2
<1>8. TypeOK'
  BY <1>1, <1>5, <1>7 DEF SmpInv, TypeOK
<1>9. BootInv'
  <2>1. Matches(0, Bsp)'
    BY <1>1, <1>6 DEF SmpInv, BootInv, Matches
  <2>2. g_cpu_count = 1 /\ ~g_sched_ready
    BY <1>1 DEF SmpInv, BootInv, Starting
  <2>3. g_cpus'[0].apic_id = Bsp /\ lapic'[Bsp].enabled
    BY <1>1, <1>6, <2>2 DEF SmpInv, BootInv
  <2>4. pc'[Bsp] \in {"loop", "goto"}
    BY <1>7
  <2>5. g_cpu_count' = 1 /\ ~g_sched_ready' /\ g_cpus'[0].online
    BY <1>1, <1>6, <2>2
  <2> QED
    BY <2>1, <2>3, <2>4, <2>5, SMT DEF BootInv, NotYet, Starting
<1>10. ReleaseInv'
  <2>1. ASSUME NEW c \in goto_address
        PROVE  \E j \in 1 .. i' - 1 : j \in DOMAIN cpus /\ cpus[j] = c
    <3>1. PICK j \in 1 .. i - 1 : j \in DOMAIN cpus /\ cpus[j] = c
      BY <1>1 DEF SmpInv, ReleaseInv
    <3>2. i \in Nat /\ (i' = i \/ i' = i + 1)
      BY <1>2, <1>7
    <3>3. j \in 1 .. i' - 1
      BY <3>2, SMT
    <3> QED
      BY <3>1, <3>3
  <2> QED
    BY <1>1, <1>2, <1>5, <1>7, <2>1 DEF ReleaseInv
<1>11. RecordInv'
  <2>1. \A s \in 1 .. next_cpu - 1 : g_cpus'[s] = g_cpus[s]
    BY <1>2, <1>5, SlotFacts, SMT
  <2>2. \A c \in goto_address : extra_argument[c] \in 1 .. next_cpu - 1
    BY DEF SmpInv, RecordInv
  <2>3. \A c \in goto_address : /\ extra_argument'[c] \in 1 .. next_cpu - 1
                                /\ g_cpus'[extra_argument'[c]] = g_cpus[extra_argument[c]]
    BY <1>7, <2>1, <2>2
  <2>4. ASSUME NEW c \in goto_address
        PROVE  g_cpus'[extra_argument'[c]].apic_id = c /\ Matches(extra_argument[c], c)
    BY <2>3 DEF SmpInv, RecordInv
  <2>5. ASSUME NEW s \in 1 .. next_cpu - 1
        PROVE  g_cpus'[s].apic_id \in goto_address /\ extra_argument'[g_cpus'[s].apic_id] = s
    BY <1>7, <2>1 DEF SmpInv, RecordInv
  <2>6. \A c \in goto_address' : /\ extra_argument'[c] \in 1 .. next_cpu' - 1
                                 /\ g_cpus'[extra_argument'[c]].apic_id = c
                                 /\ g_cpus'[extra_argument'[c]].initialized <=> lapic'[c].enabled
                                 /\ g_cpus'[extra_argument'[c]].timer = lapic'[c].timer
    BY <1>1, <2>3, <2>4 DEF Matches
  <2> QED
    BY <1>1, <2>5, <2>6, ZenonT(60) DEF RecordInv, Matches
<1>12. ApInv'
  <2>1. \A s \in 1 .. next_cpu - 1 : g_cpus'[s] = g_cpus[s]
    BY <1>2, <1>5, SlotFacts, SMT
  <2>2. \A c \in goto_address : g_cpus'[extra_argument'[c]] = g_cpus[extra_argument[c]]
    BY <2>1, <1>7 DEF SmpInv, RecordInv
  <2>3. \A c \in Cpus \ {Bsp} : pc[c] \in {"spin"} \cup Past => c \in goto_address
    BY DEF SmpInv, ApInv, Past
  <2> QED
    BY <1>1, <1>7, <2>2, <2>3 DEF SmpInv, ApInv
<1> QED
  BY <1>8, <1>9, <1>10, <1>11, <1>12 DEF SmpInv

LEMMA SmpInitGotoStep ==
  ASSUME SmpInv, SmpInitGoto
  PROVE  SmpInv'
<1> DEFINE d == cpus[i]
<1>1. /\ pc[Bsp] = "goto" /\ goto_address' = goto_address \cup {d}
      /\ next_cpu' = next_cpu + 1 /\ i' = i + 1 /\ pc' = [pc EXCEPT ![Bsp] = "loop"]
      /\ UNCHANGED <<cpus, g_cpu_count, g_cpus, extra_argument, lapic, g_sched_ready,
                     g_sched_lapic_init_count>>
  BY DEF SmpInitGoto
<1>2. /\ i \in DOMAIN cpus /\ i \in Nat /\ i # 0 /\ d \notin {NULL, Bsp}
      /\ next_cpu \in Nat /\ next_cpu >= 1 /\ next_cpu < MAX_CPUS /\ MAX_CPUS \in Nat
      /\ extra_argument[d] = next_cpu /\ g_cpus[next_cpu] = CpuRecord(d, TRUE)
  BY <1>1, SlotFacts DEF SmpInv, TypeOK, ReleaseInv
<1>3. d \in Cpus \ {Bsp} /\ d \notin goto_address
  BY <1>1, <1>2, NotReleased
<1>4. /\ g_cpus[next_cpu].apic_id = d /\ ~g_cpus[next_cpu].initialized
      /\ g_cpus[next_cpu].timer = NoTimer
  <2> HIDE DEF d
  <2> QED
    BY <1>2 DEF CpuRecord, NoCpu
<1>5. pc[d] = "parked" /\ ~lapic[d].enabled /\ lapic[d].timer = NoTimer
  <2>1. pc[d] = "parked" /\ lapic[d] = [enabled |-> FALSE, timer |-> NoTimer]
    BY <1>3 DEF SmpInv, ApInv
  <2> QED
    BY <2>1, SMT
<1>6. pc'[Bsp] = "loop" /\ \A c \in Cpus : c # Bsp => pc'[c] = pc[c]
  BY <1>1, ConstantFacts DEF SmpInv, TypeOK
<1> HIDE DEF d
<1>7. g_cpu_count = 1 /\ ~g_sched_ready
  BY <1>1 DEF SmpInv, BootInv, Starting
<1>8. TypeOK'
  <2>1. next_cpu' \in 1 .. MAX_CPUS /\ g_cpu_count' = 1 /\ i' \in Nat \ {0}
    BY <1>1, <1>2, <1>7, SMT
  <2>2. goto_address' \subseteq Cpus \ {Bsp}
    BY <1>1, <1>3 DEF SmpInv, TypeOK
  <2>3. pc' \in [Cpus -> Starting \cup {"irq"} \cup NotYet \cup Past]
    BY <1>1 DEF SmpInv, TypeOK, Starting
  <2> QED
    BY <1>1, <2>1, <2>2, <2>3 DEF SmpInv, TypeOK
<1>9. BootInv'
  <2>1. Matches(0, Bsp)'
    BY <1>1 DEF SmpInv, BootInv, Matches
  <2> QED
    BY <1>1, <1>6, <1>7, <2>1 DEF SmpInv, BootInv, NotYet, Starting
<1>10. ReleaseInv'
  <2>1. ASSUME NEW c \in goto_address'
        PROVE  \E j \in 1 .. i' - 1 : j \in DOMAIN cpus /\ cpus[j] = c
    <3>1. CASE c = d
      <4>1. i \in 1 .. i' - 1
        BY <1>1, <1>2, SMT
      <4> QED
        BY <4>1, <3>1, <1>2 DEF d
    <3>2. CASE c # d
      <4>1. PICK j \in 1 .. i - 1 : j \in DOMAIN cpus /\ cpus[j] = c
        BY <3>2, <2>1, <1>1 DEF SmpInv, ReleaseInv
      <4>2. i \in Nat /\ i' = i + 1
        BY <1>1, <1>2
      <4>3. j \in 1 .. i' - 1
        BY <4>2, SMT
      <4> QED
        BY <4>1, <4>3
    <3> QED
      BY <3>1, <3>2
  <2> QED
    BY <1>1, <1>6, <2>1 DEF ReleaseInv
<1>11. RecordInv'
  <2>1. ASSUME NEW c \in goto_address'
        PROVE  /\ extra_argument[c] \in 1 .. next_cpu' - 1 /\ g_cpus[extra_argument[c]].apic_id = c
               /\ Matches(extra_argument[c], c)
    <3>1. CASE c = d
      <4>1. next_cpu \in 1 .. next_cpu' - 1
        BY <1>1, <1>2, SMT
      <4>2. extra_argument[c] = next_cpu
        BY <3>1, <1>2
      <4>3. Matches(next_cpu, d)
        BY <1>4, <1>5 DEF Matches
      <4> QED
        BY <3>1, <4>1, <4>2, <4>3, <1>4
    <3>2. CASE c # d
      <4>1. /\ extra_argument[c] \in 1 .. next_cpu - 1 /\ g_cpus[extra_argument[c]].apic_id = c
            /\ Matches(extra_argument[c], c)
        BY <3>2, <2>1, <1>1 DEF SmpInv, RecordInv
      <4>2. extra_argument[c] \in 1 .. next_cpu' - 1
        BY <4>1, <1>1, <1>2, SMT
      <4> QED
        BY <4>1, <4>2
    <3> QED
      BY <3>1, <3>2
  <2>2. ASSUME NEW s \in 1 .. next_cpu' - 1
        PROVE  g_cpus[s].apic_id \in goto_address' /\ extra_argument[g_cpus[s].apic_id] = s
    <3>1. CASE s = next_cpu
      BY <3>1, <1>1, <1>2, <1>4
    <3>2. CASE s # next_cpu
      <4>1. s \in 1 .. next_cpu - 1
        BY <3>2, <1>1, <1>2, SMT
      <4> QED
        BY <4>1, <1>1 DEF SmpInv, RecordInv
    <3> QED
      BY <3>1, <3>2
  <2> QED
    BY <1>1, <2>1, <2>2 DEF RecordInv, Matches
<1>12. ApInv'
  <2> SUFFICES ASSUME NEW c \in Cpus \ {Bsp}
               PROVE  /\ c \notin goto_address' =>
                           pc[c] = "parked" /\ lapic[c] = [enabled |-> FALSE, timer |-> NoTimer]
                      /\ pc[c] \in NotYet \cup Past
                      /\ pc[c] \in {"configured", "spin"} \cup Past => LapicId(c) = c /\ lapic[c].enabled
                      /\ pc[c] \in {"spin"} \cup Past => g_cpus[extra_argument[c]].online
                      /\ pc[c] \in Past => g_sched_ready
    BY <1>1, <1>6 DEF ApInv
  <2> QED
    BY <1>1 DEF SmpInv, ApInv
<1> QED
  BY <1>8, <1>9, <1>10, <1>11, <1>12 DEF SmpInv

\* A step of the boot CPU after the loop over the list, to q, that writes
\* its record and its APIC only.
LEMMA BootStep ==
  ASSUME SmpInv, NEW q \in {"wait", "irq"} \cup Past, pc' = [pc EXCEPT ![Bsp] = q],
         g_cpu_count # 0, g_cpu_count' \in {g_cpu_count, next_cpu}, i' \in Nat \ {0},
         g_cpus' \in [Slots -> Records],
         lapic' \in [Cpus -> [enabled : BOOLEAN, timer : Timers]],
         \A s \in Slots : s # 0 => g_cpus'[s] = g_cpus[s],
         \A c \in Cpus : c # Bsp => lapic'[c] = lapic[c],
         g_cpus'[0].apic_id = Bsp, lapic'[Bsp].enabled, Matches(0, Bsp)',
         g_cpus[0].online => g_cpus'[0].online,
         q = "wait" => g_cpu_count' = next_cpu /\ g_cpus'[0].online /\ ~g_sched_ready',
         q \in {"irq", "run"} => g_sched_ready',
         g_sched_ready' \in BOOLEAN, g_sched_ready => g_sched_ready',
         g_sched_ready' => g_cpu_count' = next_cpu /\ g_cpus'[0].online,
         g_cpu_count' > 1 => g_cpus'[0].online,
         g_sched_lapic_init_count' \in COUNTS \cup {"none"},
         UNCHANGED <<cpus, next_cpu, extra_argument, goto_address>>
  PROVE  SmpInv'
<1>1. pc'[Bsp] = q /\ \A c \in Cpus : c # Bsp => pc'[c] = pc[c]
  BY ConstantFacts, SMT DEF SmpInv, TypeOK
<1>2. TypeOK'
  BY DEF SmpInv, TypeOK, Starting
<1>3. g_cpu_count' # 0
  BY SlotFacts, SMT
<1>4. BootInv'
  BY <1>1, <1>3 DEF BootInv, NotYet, Starting, Past
<1>5. ReleaseInv'
  BY <1>1 DEF ReleaseInv, Past
<1>6. \A c \in goto_address : /\ g_cpus'[extra_argument[c]] = g_cpus[extra_argument[c]]
                              /\ lapic'[c] = lapic[c]
  BY SlotFacts, SMT
<1>7. RecordInv'
  <2>1. \A s \in 1 .. next_cpu - 1 : g_cpus'[s] = g_cpus[s]
    BY SlotFacts, SMT
  <2> QED
    BY <1>6, <2>1, SMT DEF SmpInv, RecordInv, Matches
<1>8. ApInv'
  <2>1. \A c \in Cpus \ {Bsp} : pc[c] \in {"spin"} \cup Past => c \in goto_address
    BY DEF SmpInv, ApInv, Past
  <2> QED
    BY <1>1, <1>6, <2>1, SMT DEF SmpInv, ApInv
<1> QED
  BY <1>2, <1>4, <1>5, <1>7, <1>8 DEF SmpInv

LEMMA SmpInitCountStep ==
  ASSUME SmpInv, SmpInitCount
  PROVE  SmpInv'
<1>1. /\ pc[Bsp] = "loop" /\ g_cpus' = [g_cpus EXCEPT ![0].online = TRUE]
      /\ g_cpu_count' = next_cpu /\ i' = 1 /\ pc' = [pc EXCEPT ![Bsp] = "wait"]
      /\ UNCHANGED <<cpus, next_cpu, extra_argument, goto_address, lapic, g_sched_ready,
                     g_sched_lapic_init_count>>
  BY DEF SmpInitCount, CpuCount
<1>2. /\ g_cpu_count = 1 /\ ~g_sched_ready /\ g_cpus[0].apic_id = Bsp /\ lapic[Bsp].enabled
      /\ Matches(0, Bsp)
  BY <1>1 DEF SmpInv, BootInv, Starting
<1>3. /\ g_cpus \in [Slots -> Records] /\ 0 \in Slots
      /\ lapic \in [Cpus -> [enabled : BOOLEAN, timer : Timers]]
      /\ g_sched_lapic_init_count \in COUNTS \cup {"none"} /\ g_sched_ready \in BOOLEAN
  BY ConstantFacts DEF SmpInv, TypeOK
<1>4. /\ g_cpus' \in [Slots -> Records] /\ \A s \in Slots : s # 0 => g_cpus'[s] = g_cpus[s]
      /\ g_cpus'[0].online /\ g_cpus'[0].apic_id = g_cpus[0].apic_id
      /\ g_cpus'[0].timer = g_cpus[0].timer
      /\ g_cpus'[0].initialized <=> g_cpus[0].initialized
  BY <1>1, <1>3 DEF Records
<1>5. Matches(0, Bsp)'
  BY <1>1, <1>2, <1>4 DEF Matches
<1> QED
  BY <1>1, <1>2, <1>3, <1>4, <1>5, BootStep, SMT DEF Past

\* sched_init and arch_irq_init.
LEMMA SchedInitStep ==
  ASSUME SmpInv, SchedInit \/ ArchIrqInit
  PROVE  SmpInv'
<1>1. /\ Matches(0, Bsp) /\ 0 \in Slots /\ Bsp \in Cpus
      /\ pc[Bsp] \in {"wait", "irq"} => /\ g_cpu_count # 0 /\ g_cpu_count = next_cpu
                                        /\ g_cpus[0].online /\ lapic[Bsp].enabled
                                        /\ g_cpus[0].apic_id = Bsp
  BY ConstantFacts DEF SmpInv, BootInv
<1>2. /\ i \in Nat \ {0} /\ g_cpus \in [Slots -> Records]
      /\ lapic \in [Cpus -> [enabled : BOOLEAN, timer : Timers]]
      /\ g_sched_lapic_init_count \in COUNTS \cup {"none"}
  BY DEF SmpInv, TypeOK
<1>3. CASE SchedInit
  <2>1. PICK n \in COUNTS : g_sched_lapic_init_count' = n /\ TimerStart(Bsp, n)
    BY <1>3 DEF SchedInit
  <2>2. /\ pc[Bsp] = "wait" /\ g_sched_ready' = TRUE /\ pc' = [pc EXCEPT ![Bsp] = "irq"]
        /\ UNCHANGED <<cpus, i, next_cpu, g_cpu_count, extra_argument, goto_address>>
    BY <1>3 DEF SchedInit
  <2>3. CpuSelf(Bsp) = 0
    BY <1>1, SelfIsSlot DEF Slot
  <2>4. /\ g_cpus' \in [Slots -> Records]
        /\ lapic' \in [Cpus -> [enabled : BOOLEAN, timer : Timers]]
        /\ g_cpus'[0].apic_id = g_cpus[0].apic_id
        /\ g_cpus'[0].online <=> g_cpus[0].online
        /\ \A s \in Slots : s # 0 => g_cpus'[s] = g_cpus[s]
        /\ lapic'[Bsp].enabled <=> lapic[Bsp].enabled
        /\ \A c \in Cpus : c # Bsp => lapic'[c] = lapic[c]
        /\ Matches(0, Bsp)'
    BY <1>1, <2>1, <2>3, TimerStartFacts
  <2> QED
    BY <1>1, <1>2, <2>1, <2>2, <2>4, BootStep
<1>4. CASE ArchIrqInit
  <2>1. /\ pc[Bsp] = "irq" /\ pc' = [pc EXCEPT ![Bsp] = "run"]
        /\ UNCHANGED <<cpus, i, next_cpu, g_cpu_count, g_cpus, extra_argument, goto_address,
                       lapic, g_sched_ready, g_sched_lapic_init_count>>
    BY <1>4 DEF ArchIrqInit
  <2>2. g_sched_ready /\ g_sched_ready \in BOOLEAN
    BY <2>1 DEF SmpInv, BootInv, TypeOK
  <2>3. Matches(0, Bsp)'
    BY <1>1, <2>1 DEF Matches
  <2> QED
    BY <1>1, <1>2, <2>1, <2>2, <2>3, BootStep DEF Past
<1> QED
  BY <1>3, <1>4

\* A step by which a CPU that is up goes to q and nothing else of the
\* start-up changes.
LEMMA UpStep ==
  ASSUME SmpInv, NEW c \in Cpus, Up(c), NEW q \in Past \ {"run"}, pc' = [pc EXCEPT ![c] = q],
         UNCHANGED <<cpus, i, next_cpu, g_cpu_count, g_cpus, extra_argument, goto_address,
                     lapic, g_sched_ready, g_sched_lapic_init_count>>
  PROVE  SmpInv'
<1>1. /\ g_cpus \in [Slots -> Records] /\ lapic \in [Cpus -> [enabled : BOOLEAN, timer : Timers]]
      /\ g_sched_lapic_init_count \in COUNTS \cup {"none"} /\ g_sched_ready \in BOOLEAN
      /\ i \in Nat \ {0}
  BY DEF SmpInv, TypeOK
<1>2. CASE c = Bsp
  <2>1. /\ g_cpu_count # 0 /\ g_cpus[0].apic_id = Bsp /\ lapic[Bsp].enabled /\ Matches(0, Bsp)
        /\ g_sched_ready => g_cpu_count = next_cpu /\ g_cpus[0].online
        /\ g_cpu_count > 1 => g_cpus[0].online
    BY DEF SmpInv, BootInv, Up
  <2>2. Matches(0, Bsp)'
    BY <2>1 DEF Matches
  <2> QED
    BY <1>1, <1>2, <2>1, <2>2, BootStep DEF Past
<1>3. CASE c # Bsp
  <2>1. /\ c \in goto_address /\ g_cpus[extra_argument[c]].apic_id = c
        /\ Matches(extra_argument[c], c) /\ pc[c] \in Past
    BY <1>3, Released DEF Up
  <2>2. /\ LapicId(c) = c /\ lapic[c].enabled /\ g_sched_ready /\ g_cpus[extra_argument[c]].online
    BY <1>3, <2>1 DEF SmpInv, ApInv
  <2>3. Matches(extra_argument[c], c)'
    BY <2>1 DEF Matches
  <2> QED
    BY <1>1, <2>1, <2>2, <2>3, ReleasedStep DEF Past
<1> QED
  BY <1>2, <1>3

LEMMA BspStepPreserves ==
  ASSUME SmpInv, BspStep
  PROVE  SmpInv'
BY LapicBspInitStep, SmpInitCpuStep, SmpInitGotoStep, CounterStep, SmpInitCountStep, SchedInitStep
   DEF BspStep

LEMMA SmpStutter ==
  ASSUME SmpInv, UNCHANGED <<cpus, pc, i, next_cpu, g_cpu_count, g_cpus, extra_argument, goto_address,
                             lapic, g_sched_ready, g_sched_lapic_init_count>>
  PROVE  SmpInv'
<1>1. TypeOK' /\ ReleaseInv' /\ ApInv'
  BY DEF SmpInv, TypeOK, ReleaseInv, ApInv
<1>2. BootInv' /\ RecordInv'
  BY DEF SmpInv, BootInv, RecordInv, Matches
<1> QED
  BY <1>1, <1>2 DEF SmpInv

LEMMA SmpStart ==
  ASSUME Init
  PROVE  SmpInv
<1>1. TypeOK
  <2>1. lapic \in [Cpus -> [enabled : BOOLEAN, timer : Timers]] /\ g_cpus \in [Slots -> Records]
    BY TimerFacts DEF Init
  <2>2. /\ next_cpu \in 1 .. MAX_CPUS /\ g_cpu_count \in {0, 1, next_cpu} /\ i \in Nat \ {0}
        /\ extra_argument \in [Cpus -> Slots \cup {NULL}]
    BY SmpAssumption, SMT DEF Init
  <2>3. pc \in [Cpus -> Starting \cup {"irq"} \cup NotYet \cup Past]
    BY DEF Init, Starting, NotYet
  <2> QED
    BY <2>1, <2>2, <2>3 DEF Init, TypeOK
<1>2. BootInv
  BY ConstantFacts, SMT DEF Init, BootInv, Matches, NotYet, Starting, NoCpu
<1>3. ReleaseInv
  BY ConstantFacts DEF Init, ReleaseInv
<1>4. RecordInv
  BY SMT DEF Init, RecordInv
<1>5. ApInv
  BY DEF Init, ApInv, NotYet, Past
<1> QED
  BY <1>1, <1>2, <1>3, <1>4, <1>5 DEF SmpInv

-----------------------------------------------------------------------------
(* The shootdown.                                                          *)

LEMMA RunningUp ==
  ASSUME SmpInv, NEW c \in Cpus, Running(c) \/ pc[c] = "run" \/ (c # Bsp /\ pc[c] \in Past)
  PROVE  Up(c)
<1>1. CASE c = Bsp
  <2>1. pc[Bsp] # "lapic"
    BY <1>1 DEF Running, Past
  <2> QED
    BY <1>1, <2>1 DEF SmpInv, BootInv, Up
<1>2. CASE c # Bsp
  <2>1. pc[c] \in Past
    BY <1>2 DEF Running, Past
  <2>2. g_sched_ready
    BY <1>2, <2>1 DEF SmpInv, ApInv
  <2>3. g_cpu_count # 0
    BY <2>2, SlotFacts, SMT DEF SmpInv, BootInv
  <2> QED
    BY <2>1, <2>3 DEF Up
<1> QED
  BY <1>1, <1>2

\* CPUs stay up, in their slots.
LEMMA UpStable ==
  ASSUME SmpInv, g_cpu_count # 0 => g_cpu_count' # 0,
         \A c \in goto_address : extra_argument'[c] = extra_argument[c],
         \A c \in Cpus \ {Bsp} : pc[c] \in Past => pc'[c] \in Past,
         NEW d \in Cpus, Up(d)
  PROVE  Up(d)' /\ Slot(d)' = Slot(d)
<1>1. CASE d = Bsp
  BY <1>1 DEF Up, Slot
<1>2. CASE d # Bsp
  <2>1. d \in goto_address
    BY <1>2, Released DEF Up
  <2> QED
    BY <1>2, <2>1 DEF Up, Slot
<1> QED
  BY <1>1, <1>2

\* Two CPUs are up only when there is more than one record.
LEMMA TwoUp ==
  ASSUME SmpInv, NEW c \in Cpus, NEW d \in Cpus, c # d, Up(c), Up(d)
  PROVE  /\ g_cpu_count > 1
         /\ g_cpus[Slot(c)].online
         /\ g_cpus[CpuSelf(c)].initialized /\ g_cpus[CpuSelf(c)].apic_id = c
         /\ LapicId(c) = c /\ lapic[c].enabled
         /\ Slot(c) \in Nat /\ Slot(c) < g_cpu_count
<1>1. /\ CpuSelf(c) = Slot(c) /\ Slot(c) \in Slots /\ Matches(Slot(c), c)
      /\ Slot(c) < g_cpu_count /\ g_cpus[Slot(c)].apic_id = c /\ LapicId(c) = c /\ lapic[c].enabled
  BY SelfIsSlot DEF Up
<1>2. g_cpus[CpuSelf(c)].initialized
  BY <1>1 DEF Matches
<1>3. PICK a \in {c, d} : a # Bsp /\ pc[a] \in Past
  BY DEF Up
<1>4. a \in goto_address /\ g_sched_ready
  BY <1>3, Released DEF SmpInv, ApInv
<1>5. g_cpu_count > 1 /\ g_cpus[0].online
  BY <1>4, SlotFacts, SMT DEF SmpInv, BootInv
<1>6. g_cpus[Slot(c)].online
  <2>1. CASE c = Bsp
    BY <2>1, <1>5 DEF Slot
  <2>2. CASE c # Bsp
    BY <2>2 DEF SmpInv, ApInv, Slot, Up
  <2> QED
    BY <2>1, <2>2
<1> QED
  BY <1>1, <1>2, <1>5, <1>6, ConstantFacts

\* Steps that leave TLBs, page tables, interrupts and broadcasts alone.
LEMMA BootKeeps ==
  ASSUME IInv, SmpInv', g_cpu_count # 0 => g_cpu_count' # 0,
         \A c \in goto_address : extra_argument'[c] = extra_argument[c],
         \A c \in Cpus \ {Bsp} : pc[c] \in Past => pc'[c] \in Past,
         g_cpu_count' # 0 => g_ipi_ready' /\ g_irq_handlers'["TLB"] = "tlb",
         UNCHANGED <<pt, tlb, g_paging_lock, pending, bcast>>
  PROVE  IInv'
<1>1. SmpInv
  BY DEF IInv
<1>2. \A d \in Cpus : Up(d) => Up(d)' /\ Slot(d)' = Slot(d)
  BY <1>1, UpStable
<1>3. IpiTypeOK'
  BY DEF IInv, IpiTypeOK
<1>4. UseInv'
  <2>1. \A c \in Cpus : bcast[c] # NULL => Up(c)'
    BY <1>2 DEF IInv, UseInv
  <2>2. \A c \in Cpus, p \in Pages : tlb[c][p] # NULL => Up(c)'
    BY <1>2 DEF IInv, UseInv
  <2> QED
    BY <2>1, <2>2 DEF UseInv
<1>5. CoverInv'
  <2> SUFFICES ASSUME NEW c \in Cpus, NEW p \in Pages, Stale(c, p)'
               PROVE  \/ "TLB" \in pending'[c]
                      \/ \E d \in Cpus \ {c} :
                           bcast'[d] # NULL /\ bcast'[d].vector = "TLB" /\ bcast'[d].at <= Slot(c)'
    BY DEF CoverInv
  <2>1. Stale(c, p) /\ tlb[c][p] # NULL
    BY DEF Stale
  <2>2. Slot(c)' = Slot(c)
    BY <2>1, <1>2 DEF IInv, UseInv
  <2> QED
    BY <2>1, <2>2 DEF IInv, CoverInv
<1>6. LockInv'
  BY DEF IInv, LockInv
<1> QED
  BY <1>3, <1>4, <1>5, <1>6 DEF IInv

LEMMA BootKeepsInv ==
  ASSUME IInv, Boot
  PROVE  IInv'
<1>1. SmpInv /\ SmpInv'
  BY BspStepPreserves DEF IInv, Boot
<1>2. g_cpu_count # 0 => g_cpu_count' # 0
  <2>1. g_cpu_count' \in {1, next_cpu, g_cpu_count}
    BY DEF Boot, BspStep, LapicBspInit, SmpInitCpu, SmpInitGoto, SmpInitSkip, SmpInitCount, CpuCount,
           SmpInitWait, SchedInit, ArchIrqInit
  <2> QED
    BY <1>1, <2>1, SlotFacts, SMT
<1>3. \A c \in goto_address : extra_argument'[c] = extra_argument[c]
  <2>1. CASE \E stack \in BOOLEAN : SmpInitCpu(stack)
    <3>1. /\ pc[Bsp] = "loop" /\ i <= Len(cpus) /\ cpus[i] \notin {NULL, Bsp}
          /\ \/ extra_argument' = [extra_argument EXCEPT ![cpus[i]] = next_cpu]
             \/ extra_argument' = extra_argument
      BY <2>1 DEF SmpInitCpu
    <3>2. cpus \in Machines /\ i \in Nat \ {0} /\ extra_argument \in [Cpus -> Slots \cup {NULL}]
      BY <1>1 DEF SmpInv, TypeOK
    <3>3. Len(cpus) \in Nat /\ DOMAIN cpus = 1 .. Len(cpus)
      BY <3>2, ConstantFacts
    <3>4. i \in DOMAIN cpus
      BY <3>1, <3>2, <3>3, SMT
    <3>5. cpus[i] \notin goto_address
      BY <1>1, <3>1, <3>4, NotReleased
    <3>6. goto_address \subseteq Cpus
      BY <1>1, SlotFacts
    <3> QED
      BY <3>1, <3>2, <3>5, <3>6
  <2>2. CASE ~\E stack \in BOOLEAN : SmpInitCpu(stack)
    BY <2>2 DEF Boot, BspStep, LapicBspInit, SmpInitGoto, SmpInitSkip, SmpInitCount,
                SmpInitWait, SchedInit, ArchIrqInit
  <2> QED
    BY <2>1, <2>2
<1>4. \A c \in Cpus \ {Bsp} : pc'[c] = pc[c]
  <2>1. pc' = pc \/ \E q \in {"loop", "goto", "wait", "irq", "run"} : pc' = [pc EXCEPT ![Bsp] = q]
    BY DEF Boot, BspStep, LapicBspInit, SmpInitCpu, SmpInitGoto, SmpInitSkip, SmpInitCount,
           SmpInitWait, SchedInit, ArchIrqInit
  <2>2. pc \in [Cpus -> Starting \cup {"irq"} \cup NotYet \cup Past]
    BY <1>1 DEF SmpInv, TypeOK
  <2> QED
    BY <2>1, <2>2
<1>5. g_cpu_count' # 0 => g_ipi_ready' /\ g_irq_handlers'["TLB"] = "tlb"
  <2>1. CASE pc[Bsp] = "lapic"
    BY <2>1 DEF Boot, Vectors
  <2>2. CASE pc[Bsp] # "lapic"
    BY <1>1, <2>2 DEF Boot, IInv, UseInv, SmpInv, BootInv
  <2> QED
    BY <2>1, <2>2
<1>6. UNCHANGED <<pt, tlb, g_paging_lock, pending, bcast>>
  BY DEF Boot
<1> QED
  BY <1>1, <1>2, <1>3, <1>4, <1>5, <1>6, BootKeeps

LEMMA ApBootKeepsInv ==
  ASSUME IInv, NEW c \in Cpus, ApBoot(c)
  PROVE  IInv'
<1>1. SmpInv /\ SmpInv'
  BY ApStepPreserves DEF IInv, ApBoot
<1>2. /\ pc[c] \in NotYet
      /\ \E q \in NotYet \cup Past : pc' = [pc EXCEPT ![c] = q]
      /\ UNCHANGED <<g_cpu_count, extra_argument, g_irq_handlers, g_ipi_ready, pt, tlb,
                     g_paging_lock, pending, bcast>>
  BY DEF ApBoot, ApStep, ApEntry, ApLapicInit, ApOnline, SchedApInit, ipi_vars, NotYet, Past
<1>3. \A d \in Cpus \ {Bsp} : pc[d] \in Past => pc'[d] \in Past
  BY <1>1, <1>2 DEF SmpInv, TypeOK, NotYet, Past
<1>4. g_cpu_count' # 0 => g_ipi_ready' /\ g_irq_handlers'["TLB"] = "tlb"
  BY <1>2 DEF IInv, UseInv
<1> QED
  BY <1>1, <1>2, <1>3, <1>4, BootKeeps

\* A round of the broadcast: if the record is that of a CPU that is up, the
\* interrupt is pending there afterwards.
LEMMA BroadcastToKeepsInv ==
  ASSUME IInv, NEW c \in Cpus, BroadcastTo(c)
  PROVE  IInv'
<1> DEFINE s == bcast[c].at
<1>1. /\ bcast[c] # NULL /\ s < g_cpu_count
      /\ pending' = [d \in Cpus |->
                       IF SendsTo(c, s) /\ LapicId(d) = g_cpus[s].apic_id /\ lapic[d].enabled
                         THEN pending[d] \cup {bcast[c].vector} ELSE pending[d]]
      /\ bcast' = [bcast EXCEPT ![c].at = s + 1]
      /\ UNCHANGED <<pt, tlb, g_paging_lock, g_irq_handlers, g_ipi_ready>>
  BY DEF BroadcastTo
<1>2. UNCHANGED <<cpus, pc, i, next_cpu, g_cpu_count, g_cpus, extra_argument, goto_address,
                  lapic, g_sched_ready, g_sched_lapic_init_count>>
  BY DEF BroadcastTo, smp_vars
<1>3. SmpInv /\ SmpInv' /\ Up(c)
  BY <1>1, <1>2, SmpStutter DEF IInv, UseInv
<1>4. /\ bcast \in [Cpus -> [vector : Vectors, at : Nat] \cup {NULL}]
      /\ pending \in [Cpus -> SUBSET Vectors]
      /\ bcast[c] \in [vector : Vectors, at : Nat]
  BY <1>1 DEF IInv, IpiTypeOK
<1>5. /\ bcast' \in [Cpus -> [vector : Vectors, at : Nat] \cup {NULL}]
      /\ \A d \in Cpus : d # c => bcast'[d] = bcast[d]
      /\ bcast'[c].vector = bcast[c].vector /\ bcast'[c].at = s + 1
      /\ bcast'[c] \in [vector : Vectors, at : Nat]
  BY <1>1, <1>4, SMT
<1>6. pending' \in [Cpus -> SUBSET Vectors] /\ \A d \in Cpus : pending[d] \subseteq pending'[d]
  BY <1>1, <1>4
<1>7. \A d \in Cpus : (Up(d)' <=> Up(d)) /\ Slot(d)' = Slot(d)
  BY <1>2 DEF Up, Slot
<1>8. IpiTypeOK'
  BY <1>1, <1>5, <1>6 DEF IInv, IpiTypeOK
<1>9. UseInv'
  <2>1. \A d \in Cpus : bcast'[d] # NULL => Up(d)
    BY <1>3, <1>5 DEF IInv, UseInv
  <2> QED
    BY <1>1, <1>2, <1>7, <2>1 DEF IInv, UseInv
<1>10. CoverInv'
  <2> SUFFICES ASSUME NEW d \in Cpus, NEW p \in Pages, Stale(d, p)'
               PROVE  \/ "TLB" \in pending'[d]
                      \/ \E x \in Cpus \ {d} :
                           bcast'[x] # NULL /\ bcast'[x].vector = "TLB" /\ bcast'[x].at <= Slot(d)'
    BY DEF CoverInv
  <2>1. Stale(d, p) /\ Up(d)
    BY <1>1 DEF IInv, UseInv, Stale
  <2>2. CASE "TLB" \in pending[d]
    BY <2>2, <1>6
  <2>3. ASSUME NEW x \in Cpus \ {d}, bcast[x] # NULL, bcast[x].vector = "TLB", bcast[x].at <= Slot(d)
        PROVE  \/ "TLB" \in pending'[d]
               \/ bcast'[x] # NULL /\ bcast'[x].vector = "TLB" /\ bcast'[x].at <= Slot(d)'
    <3>1. CASE x # c
      BY <3>1, <2>3, <1>5, <1>7
    <3>2. CASE x = c /\ s = Slot(d)
      <4>1. /\ g_cpus[Slot(d)].online /\ LapicId(d) = d /\ lapic[d].enabled
            /\ g_cpus[Slot(d)].apic_id = d
        BY <3>2, <2>1, <2>3, <1>3, TwoUp, SelfIsSlot DEF Up
      <4>2. g_cpus[CpuSelf(c)].apic_id = c
        BY <3>2, <2>1, <2>3, <1>3, TwoUp
      <4>3. SendsTo(c, s)
        BY <4>1, <4>2, <3>2, <2>3 DEF SendsTo
      <4>4. bcast[c].vector = "TLB"
        BY <3>2, <2>3
      <4> HIDE DEF s
      <4> QED
        BY <1>1, <4>1, <4>3, <4>4, <3>2
    <3>3. CASE x = c /\ s # Slot(d)
      <4>1. Slot(d) \in Nat /\ s \in Nat /\ s <= Slot(d)
        BY <3>3, <2>1, <2>3, <1>3, <1>4, TwoUp
      <4>2. bcast'[c].at <= Slot(d)
        BY <4>1, <3>3, <1>5, SMT
      <4>3. bcast'[c] # NULL
        BY <1>5, IpiAssumption
      <4> QED
        BY <4>2, <4>3, <3>3, <2>3, <1>5, <1>7
    <3> QED
      BY <3>1, <3>2, <3>3
  <2> QED
    BY <2>1, <2>2, <2>3 DEF IInv, CoverInv
<1>11. LockInv'
  BY <1>1, <1>5 DEF IInv, LockInv
<1> QED
  BY <1>3, <1>8, <1>9, <1>10, <1>11 DEF IInv

\* The end of a broadcast, or a panic that begins one: c, which is up, has no
\* TLB broadcast before or is past every slot in use, and none afterwards.
LEMMA StopKeepsInv ==
  ASSUME IInv, NEW c \in Cpus, BroadcastEnds(c) \/ Panic(c)
  PROVE  IInv'
<1>1. /\ UNCHANGED <<cpus, i, next_cpu, g_cpu_count, g_cpus, extra_argument, goto_address, lapic,
                     g_sched_ready, g_sched_lapic_init_count, g_irq_handlers, g_ipi_ready,
                     pt, tlb, pending>>
      /\ bcast[c] = NULL \/ bcast[c].at >= g_cpu_count
      /\ bcast' \in {bcast, [bcast EXCEPT ![c] = NULL], [bcast EXCEPT ![c] = NewBroadcast("HALT")]}
      /\ pc' = pc \/ \E q \in Past \ {"run"} : pc' = [pc EXCEPT ![c] = q]
  BY DEF BroadcastEnds, Panic, Past
<1>2. SmpInv /\ Up(c)
  BY RunningUp DEF IInv, UseInv, BroadcastEnds, Panic
<1>3. SmpInv'
  BY <1>1, <1>2, UpStep, SmpStutter
<1>4. /\ bcast \in [Cpus -> [vector : Vectors, at : Nat] \cup {NULL}]
      /\ pc \in [Cpus -> Starting \cup {"irq"} \cup NotYet \cup Past]
  BY <1>2 DEF IInv, IpiTypeOK, SmpInv, TypeOK
<1>5. /\ bcast' \in [Cpus -> [vector : Vectors, at : Nat] \cup {NULL}]
      /\ \A d \in Cpus : d # c => bcast'[d] = bcast[d]
  <2>1. NewBroadcast("HALT") \in [vector : Vectors, at : Nat]
    BY DEF NewBroadcast, Vectors
  <2> QED
    BY <1>1, <1>4, <2>1
<1>6. \A d \in Cpus : Up(d) => Up(d)' /\ Slot(d)' = Slot(d)
  <2>1. \A d \in Cpus \ {Bsp} : pc[d] \in Past => pc'[d] \in Past
    BY <1>1, <1>4
  <2> QED
    BY <1>1, <1>2, <2>1, UpStable
<1>7. IpiTypeOK'
  BY <1>1, <1>5 DEF IInv, IpiTypeOK
<1>8. UseInv'
  <2>1. \A d \in Cpus : bcast'[d] # NULL => Up(d)'
    BY <1>2, <1>5, <1>6 DEF IInv, UseInv
  <2>2. \A d \in Cpus, p \in Pages : tlb'[d][p] # NULL => Up(d)'
    BY <1>1, <1>6 DEF IInv, UseInv
  <2> QED
    BY <1>1, <2>1, <2>2 DEF IInv, UseInv
<1>9. CoverInv'
  <2> SUFFICES ASSUME NEW d \in Cpus, NEW p \in Pages, Stale(d, p)'
               PROVE  \/ "TLB" \in pending'[d]
                      \/ \E x \in Cpus \ {d} :
                           bcast'[x] # NULL /\ bcast'[x].vector = "TLB" /\ bcast'[x].at <= Slot(d)'
    BY DEF CoverInv
  <2>1. Stale(d, p) /\ Up(d)
    BY <1>1 DEF IInv, UseInv, Stale
  <2>2. CASE "TLB" \in pending[d]
    BY <2>2, <1>1
  <2>3. ASSUME NEW x \in Cpus \ {d}, bcast[x] # NULL, bcast[x].vector = "TLB", bcast[x].at <= Slot(d)
        PROVE  bcast'[x] # NULL /\ bcast'[x].vector = "TLB" /\ bcast'[x].at <= Slot(d)'
    <3>1. x # c
      <4> SUFFICES ASSUME x = c PROVE FALSE
        OBVIOUS
      <4>1. Slot(d) \in Nat /\ Slot(d) < g_cpu_count
        BY <1>2, <2>1, <2>3, TwoUp
      <4>2. bcast[c].at \in Nat /\ bcast[c].at >= g_cpu_count /\ bcast[c].at <= Slot(d)
        BY <1>1, <1>4, <2>3
      <4>3. g_cpu_count \in Nat
        BY <1>2, SlotFacts, SMT DEF SmpInv, TypeOK
      <4> QED
        BY <4>1, <4>2, <4>3, SMT
    <3> QED
      BY <3>1, <2>1, <2>3, <1>5, <1>6
  <2> QED
    BY <2>1, <2>2, <2>3 DEF IInv, CoverInv
<1>10. LockInv'
  <2> SUFFICES ASSUME NEW d \in Cpus, bcast'[d] # NULL, bcast'[d].vector = "TLB"
               PROVE  g_paging_lock' = d
    BY DEF LockInv
  <2>1. d # c
    <3>1. bcast'[c] = NULL \/ bcast'[c] = NewBroadcast("HALT")
      BY <1>1, <1>4 DEF BroadcastEnds, Panic
    <3>2. NewBroadcast("HALT").vector # "TLB"
      BY DEF NewBroadcast
    <3> QED
      BY <3>1, <3>2
  <2>2. g_paging_lock = d /\ d # NULL
    BY <2>1, <1>5, ConstantFacts DEF IInv, LockInv
  <2>3. ~(bcast[c] # NULL /\ bcast[c].vector = "TLB")
    BY <2>1, <2>2 DEF IInv, LockInv
  <2>4. g_paging_lock' = g_paging_lock
    <3>1. CASE BroadcastEnds(c)
      <4>1. bcast[c] # NULL /\ bcast[c].vector \in Vectors
        BY <3>1, <1>4 DEF BroadcastEnds
      <4> QED
        BY <3>1, <4>1, <2>3 DEF BroadcastEnds, Vectors
    <3>2. CASE Panic(c)
      BY <3>2, <2>2 DEF Panic
    <3> QED
      BY <3>1, <3>2
  <2> QED
    BY <2>2, <2>4
<1> QED
  BY <1>3, <1>7, <1>8, <1>9, <1>10 DEF IInv

\* A CPU that begins to wait for the lock.
LEMMA PagingLockKeepsInv ==
  ASSUME IInv, NEW c \in Cpus, PagingLock(c)
  PROVE  IInv'
<1>1. UNCHANGED <<g_cpu_count, pc, extra_argument, g_irq_handlers, g_ipi_ready, pt, tlb,
                  g_paging_lock, pending, bcast>>
  BY DEF PagingLock, smp_vars
<1>2. SmpInv'
  BY SmpStutter DEF PagingLock, smp_vars, IInv
<1> QED
  BY <1>1, <1>2, BootKeeps DEF IInv, UseInv

\* A change of a page table entry.  Under the paging lock whatever is stale
\* already is covered by a pending interrupt; what becomes stale is on a CPU
\* other than c, and with two CPUs up c does broadcast.
LEMMA PagingChangeKeepsInv ==
  ASSUME IInv, NEW c \in Cpus, NEW p \in Pages, NEW e \in Entries \cup {NULL}, PagingChange(c, p, e)
  PROVE  IInv'
<1>1. /\ Running(c) /\ bcast[c] = NULL /\ g_paging_lock = NULL
      /\ pt' = [pt EXCEPT ![p] = e] /\ tlb' = [tlb EXCEPT ![c][p] = NULL]
      /\ bcast' = IF Broadcasts(c) THEN [bcast EXCEPT ![c] = NewBroadcast("TLB")] ELSE bcast
      /\ UNCHANGED <<g_irq_handlers, g_ipi_ready, pending>>
  BY DEF PagingChange
<1>2. UNCHANGED <<cpus, pc, i, next_cpu, g_cpu_count, g_cpus, extra_argument, goto_address,
                  lapic, g_sched_ready, g_sched_lapic_init_count>>
  BY DEF PagingChange, smp_vars
<1>3. SmpInv /\ SmpInv' /\ Up(c)
  BY <1>1, <1>2, SmpStutter, RunningUp DEF IInv
<1>4. /\ bcast \in [Cpus -> [vector : Vectors, at : Nat] \cup {NULL}]
      /\ pt \in [Pages -> Entries \cup {NULL}]
      /\ tlb \in [Cpus -> [Pages -> Entries \cup {NULL}]]
  BY DEF IInv, IpiTypeOK
<1>5. /\ pt' \in [Pages -> Entries \cup {NULL}] /\ \A q \in Pages : q # p => pt'[q] = pt[q]
      /\ tlb' \in [Cpus -> [Pages -> Entries \cup {NULL}]] /\ tlb'[c][p] = NULL
      /\ \A d \in Cpus, q \in Pages : d # c \/ q # p => tlb'[d][q] = tlb[d][q]
  BY <1>1, <1>4
<1>6. NewBroadcast("TLB") \in [vector : Vectors, at : Nat]
  BY DEF NewBroadcast, Vectors
<1>7. /\ bcast' \in [Cpus -> [vector : Vectors, at : Nat] \cup {NULL}]
      /\ \A d \in Cpus : d # c => bcast'[d] = bcast[d]
      /\ Broadcasts(c) => bcast'[c] = NewBroadcast("TLB")
  BY <1>1, <1>4, <1>6
<1>8. \A d \in Cpus : (Up(d)' <=> Up(d)) /\ Slot(d)' = Slot(d)
  BY <1>2 DEF Up, Slot
<1>9. IpiTypeOK'
  BY <1>1, <1>5, <1>7 DEF IInv, IpiTypeOK
<1>10. UseInv'
  <2>1. \A d \in Cpus : bcast'[d] # NULL => Up(d)'
    BY <1>3, <1>7, <1>8 DEF IInv, UseInv
  <2>2. \A d \in Cpus, q \in Pages : tlb'[d][q] # NULL => Up(d)'
    BY <1>3, <1>5, <1>8, SMT DEF IInv, UseInv
  <2> QED
    BY <1>1, <1>2, <2>1, <2>2 DEF IInv, UseInv
<1>11. CoverInv'
  <2> SUFFICES ASSUME NEW d \in Cpus, NEW q \in Pages, Stale(d, q)'
               PROVE  \/ "TLB" \in pending'[d]
                      \/ \E x \in Cpus \ {d} :
                           bcast'[x] # NULL /\ bcast'[x].vector = "TLB" /\ bcast'[x].at <= Slot(d)'
    BY DEF CoverInv
  <2>1. tlb'[d][q] # NULL /\ tlb'[d][q] # pt'[q]
    BY DEF Stale
  <2>2. CASE q # p
    <3>1. Stale(d, q)
      BY <2>1, <2>2, <1>5 DEF Stale
    <3>2. "TLB" \in pending[d]
      <4>1. \A x \in Cpus : ~(bcast[x] # NULL /\ bcast[x].vector = "TLB")
        BY <1>1, ConstantFacts DEF IInv, LockInv
      <4> QED
        BY <3>1, <4>1 DEF IInv, CoverInv
    <3> QED
      BY <3>2, <1>1
  <2>3. CASE q = p
    <3>1. d # c /\ tlb[d][p] # NULL
      BY <2>1, <2>3, <1>5
    <3>2. Up(d)
      BY <3>1 DEF IInv, UseInv
    <3>3. g_cpu_count > 1 /\ g_cpus[CpuSelf(c)].initialized
      BY <3>1, <3>2, <1>3, TwoUp
    <3>4. Slot(d) \in Nat
      BY <3>1, <3>2, <1>3, TwoUp
    <3>5. Broadcasts(c)
      BY <3>3, <1>3 DEF Broadcasts, IInv, UseInv, Up
    <3>6. bcast'[c].vector = "TLB" /\ bcast'[c].at = 0 /\ bcast'[c] # NULL
      BY <3>5, <1>6, <1>7, IpiAssumption, SMT DEF NewBroadcast
    <3>7. bcast'[c].at <= Slot(d)'
      BY <3>4, <3>6, <1>8, SMT
    <3> QED
      BY <3>1, <3>6, <3>7
  <2> QED
    BY <2>2, <2>3
<1>12. LockInv'
  <2> SUFFICES ASSUME NEW d \in Cpus, bcast'[d] # NULL, bcast'[d].vector = "TLB"
               PROVE  g_paging_lock' = d
    BY DEF LockInv
  <2>1. d = c
    BY <1>1, <1>7, ConstantFacts DEF IInv, LockInv
  <2>2. Broadcasts(c)
    BY <1>1, <2>1
  <2> QED
    BY <2>1, <2>2 DEF PagingChange
<1> QED
  BY <1>3, <1>9, <1>10, <1>11, <1>12 DEF IInv

LEMMA AccessKeepsInv ==
  ASSUME IInv, NEW c \in Cpus, NEW p \in Pages, Access(c, p)
  PROVE  IInv'
<1>1. /\ Running(c) /\ pt[p] # NULL
      /\ tlb' = [tlb EXCEPT ![c][p] = IF tlb[c][p] = NULL THEN pt[p] ELSE tlb[c][p]]
      /\ UNCHANGED <<g_irq_handlers, g_ipi_ready, pt, g_paging_lock, pending, bcast>>
  BY DEF Access
<1>2. UNCHANGED <<cpus, pc, i, next_cpu, g_cpu_count, g_cpus, extra_argument, goto_address,
                  lapic, g_sched_ready, g_sched_lapic_init_count>>
  BY DEF Access, smp_vars
<1>3. SmpInv' /\ Up(c)
  BY <1>1, <1>2, SmpStutter, RunningUp DEF IInv
<1>4. tlb \in [Cpus -> [Pages -> Entries \cup {NULL}]] /\ pt \in [Pages -> Entries \cup {NULL}]
  BY DEF IInv, IpiTypeOK
<1>5. /\ tlb' \in [Cpus -> [Pages -> Entries \cup {NULL}]]
      /\ \A d \in Cpus, q \in Pages : tlb'[d][q] = tlb[d][q] \/ (d = c /\ tlb'[d][q] = pt[q])
  BY <1>1, <1>4
<1>6. \A d \in Cpus : (Up(d)' <=> Up(d)) /\ Slot(d)' = Slot(d)
  BY <1>2 DEF Up, Slot
<1>7. IpiTypeOK'
  BY <1>1, <1>5 DEF IInv, IpiTypeOK
<1>8. UseInv'
  <2>1. \A d \in Cpus, q \in Pages : tlb'[d][q] # NULL => Up(d)'
    BY <1>3, <1>5, <1>6 DEF IInv, UseInv
  <2> QED
    BY <1>1, <1>2, <1>6, <2>1 DEF IInv, UseInv
<1>9. CoverInv'
  <2>1. \A d \in Cpus, q \in Pages : Stale(d, q)' => Stale(d, q)
    BY <1>1, <1>5 DEF Stale
  <2> QED
    BY <1>1, <1>6, <2>1 DEF IInv, CoverInv
<1>10. LockInv'
  BY <1>1 DEF IInv, LockInv
<1> QED
  BY <1>3, <1>7, <1>8, <1>9, <1>10 DEF IInv

LEMMA TakeIpiKeepsInv ==
  ASSUME IInv, NEW c \in Cpus, NEW v \in Vectors, TakeIpi(c, v)
  PROVE  IInv'
<1>1. /\ pc[c] = "run" /\ pending' = [pending EXCEPT ![c] = pending[c] \ {v}]
      /\ tlb' = IF g_irq_handlers[v] = "tlb" THEN [tlb EXCEPT ![c] = FlushAll(c)] ELSE tlb
      /\ pc' = pc \/ \E q \in Past \ {"run"} : pc' = [pc EXCEPT ![c] = q]
      /\ UNCHANGED <<cpus, i, next_cpu, g_cpu_count, g_cpus, extra_argument, goto_address, lapic,
                     g_sched_ready, g_sched_lapic_init_count, g_irq_handlers, g_ipi_ready, pt,
                     g_paging_lock, bcast>>
  BY DEF TakeIpi, Past
<1>2. SmpInv /\ Up(c)
  BY <1>1, RunningUp DEF IInv
<1>3. SmpInv'
  BY <1>1, <1>2, UpStep, SmpStutter
<1>4. /\ tlb \in [Cpus -> [Pages -> Entries \cup {NULL}]] /\ pending \in [Cpus -> SUBSET Vectors]
      /\ pc \in [Cpus -> Starting \cup {"irq"} \cup NotYet \cup Past]
  BY <1>2 DEF IInv, IpiTypeOK, SmpInv, TypeOK
<1>5. /\ tlb' \in [Cpus -> [Pages -> Entries \cup {NULL}]]
      /\ \A d \in Cpus, q \in Pages : tlb'[d][q] = tlb[d][q] \/ (d = c /\ tlb'[d][q] = NULL)
      /\ g_irq_handlers[v] = "tlb" => \A q \in Pages : tlb'[c][q] = NULL
  BY <1>1, <1>4 DEF FlushAll
<1>6. /\ pending' \in [Cpus -> SUBSET Vectors]
      /\ \A d \in Cpus : d # c => pending'[d] = pending[d]
      /\ pending'[c] = pending[c] \ {v}
  BY <1>1, <1>4
<1>7. \A d \in Cpus : Up(d) => Up(d)' /\ Slot(d)' = Slot(d)
  <2>1. \A d \in Cpus \ {Bsp} : pc[d] \in Past => pc'[d] \in Past
    BY <1>1, <1>4
  <2> QED
    BY <1>1, <1>2, <2>1, UpStable
<1>8. IpiTypeOK'
  BY <1>1, <1>5, <1>6 DEF IInv, IpiTypeOK
<1>9. UseInv'
  <2>1. \A d \in Cpus : bcast'[d] # NULL => Up(d)'
    BY <1>1, <1>7 DEF IInv, UseInv
  <2>2. \A d \in Cpus, q \in Pages : tlb'[d][q] # NULL => Up(d)'
    BY <1>5, <1>7 DEF IInv, UseInv
  <2> QED
    BY <1>1, <2>1, <2>2 DEF IInv, UseInv
<1>10. CoverInv'
  <2> SUFFICES ASSUME NEW d \in Cpus, NEW q \in Pages, Stale(d, q)'
               PROVE  \/ "TLB" \in pending'[d]
                      \/ \E x \in Cpus \ {d} :
                           bcast'[x] # NULL /\ bcast'[x].vector = "TLB" /\ bcast'[x].at <= Slot(d)'
    BY DEF CoverInv
  <2>1. Stale(d, q) /\ Up(d) /\ tlb'[d][q] # NULL
    BY <1>1, <1>5 DEF IInv, UseInv, Stale
  <2>2. "TLB" \in pending[d] => "TLB" \in pending'[d]
    <3>1. CASE d # c
      BY <3>1, <1>6
    <3>2. CASE d = c /\ v # "TLB"
      BY <3>2, <1>6
    <3>3. CASE d = c /\ v = "TLB"
      BY <3>3, <2>1, <1>2, <1>5 DEF IInv, UseInv, Up
    <3> QED
      BY <3>1, <3>2, <3>3
  <2>3. Slot(d)' = Slot(d) /\ bcast' = bcast
    BY <2>1, <1>1, <1>7
  <2> QED
    BY <2>1, <2>2, <2>3 DEF IInv, CoverInv
<1>11. LockInv'
  BY <1>1 DEF IInv, LockInv
<1> QED
  BY <1>3, <1>8, <1>9, <1>10, <1>11 DEF IInv

-----------------------------------------------------------------------------
\* The invariant holds in every reachable state, whatever the number of CPUs,
\* the list the boot loader reports, the CPUs whose ids do not fit or that
\* cannot use their stack, the number of pages and of CPUs that panic, with
\* the paging lock or without.
THEOREM Invariance == Spec => []IInv
<1>1. IpiStart => IInv
  <2> SUFFICES ASSUME IpiStart PROVE IInv
    OBVIOUS
  <2>1. SmpInv
    BY SmpStart DEF IpiStart
  <2>2. IpiTypeOK
    BY DEF IpiStart, IpiTypeOK
  <2>3. UseInv
    BY DEF IpiStart, UseInv, Init
  <2>4. CoverInv
    BY DEF IpiStart, CoverInv, Stale
  <2>5. LockInv
    BY DEF IpiStart, LockInv
  <2> QED
    BY <2>1, <2>2, <2>3, <2>4, <2>5 DEF IInv
<1>2. IInv /\ [Next]_vars => IInv'
  <2> SUFFICES ASSUME IInv, [Next]_vars PROVE IInv'
    OBVIOUS
  <2>1. CASE Boot
    BY <2>1, BootKeepsInv
  <2>2. CASE \E c \in Cpus : ApBoot(c)
    BY <2>2, ApBootKeepsInv
  <2>3. CASE \E c \in Cpus : BroadcastTo(c)
    BY <2>3, BroadcastToKeepsInv
  <2>4. CASE \E c \in Cpus : BroadcastEnds(c) \/ Panic(c)
    BY <2>4, StopKeepsInv
  <2>5. CASE \E c \in Cpus, p \in Pages : Access(c, p)
    BY <2>5, AccessKeepsInv
  <2>6. CASE \E c \in Cpus, p \in Pages, e \in Entries \cup {NULL} : PagingChange(c, p, e)
    BY <2>6, PagingChangeKeepsInv
  <2>7. CASE \E c \in Cpus, v \in Vectors : TakeIpi(c, v)
    BY <2>7, TakeIpiKeepsInv
  <2>8. CASE UNCHANGED vars
    <3>1. UNCHANGED <<g_cpu_count, pc, extra_argument, g_irq_handlers, g_ipi_ready, pt, tlb,
                      g_paging_lock, pending, bcast>>
      BY <2>8 DEF vars, smp_vars, ipi_vars
    <3>2. SmpInv'
      BY <2>8, SmpStutter DEF vars, smp_vars, IInv
    <3> QED
      BY <3>1, <3>2, BootKeeps DEF IInv, UseInv
  <2>9. CASE \E c \in Cpus : PagingLock(c)
    BY <2>9, PagingLockKeepsInv
  <2> QED
    BY <2>1, <2>2, <2>3, <2>4, <2>5, <2>6, <2>7, <2>8, <2>9 DEF Next
<1> QED
  BY <1>1, <1>2, PTL DEF Spec

\* cpu_self gives each CPU that calls it its own record, and the record says
\* of the CPU's timer what was programmed.
THEOREM CpuSelfRight == Spec => []CpuSelfOwn
<1>1. IInv => CpuSelfOwn
  <2> SUFFICES ASSUME IInv, NEW c \in Callers
               PROVE  /\ IF c = Bsp THEN CpuSelf(c) = 0
                           ELSE CpuSelf(c) = extra_argument[c] /\ g_cpus[CpuSelf(c)].online
                      /\ g_cpus[CpuSelf(c)].initialized = lapic[c].enabled
                      /\ g_cpus[CpuSelf(c)].timer = lapic[c].timer
    BY DEF CpuSelfOwn
  <2>1. SmpInv /\ c \in Cpus /\ (c = Bsp \/ pc[c] \notin NotYet)
    BY DEF IInv, Callers
  <2>2. c # Bsp => pc[c] \in Past /\ Up(c) /\ g_cpus[extra_argument[c]].online
    BY <2>1, RunningUp DEF SmpInv, ApInv
  <2>3. CpuSelf(c) = Slot(c) /\ Slot(c) \in Slots /\ Matches(Slot(c), c)
    BY <2>1, <2>2, SelfIsSlot
  <2>4. g_cpus[Slot(c)].initialized \in BOOLEAN /\ lapic[c].enabled \in BOOLEAN
    BY <2>1, <2>3 DEF SmpInv, TypeOK, Records
  <2>5. g_cpus[Slot(c)].initialized = lapic[c].enabled
    BY <2>3, <2>4 DEF Matches
  <2>6. g_cpus[Slot(c)].timer = lapic[c].timer
    BY <2>3 DEF Matches
  <2>7. IF c = Bsp THEN Slot(c) = 0 ELSE Slot(c) = extra_argument[c] /\ g_cpus[Slot(c)].online
    BY <2>2 DEF Slot
  <2> QED
    BY <2>3, <2>5, <2>6, <2>7
<1> QED
  BY <1>1, Invariance, PTL

\* No shootdown misses a CPU that is on the kernel's page tables: a stale
\* translation is in its TLB only while the interrupt is pending there or its
\* sender has yet to come to its record.
THEOREM ShootdownCovers == Spec => []StaleCovered
<1>1. IInv => StaleCovered
  <2> SUFFICES ASSUME IInv, NEW c \in Cpus, NEW p \in Pages, Stale(c, p), "TLB" \notin pending[c]
               PROVE  \E d \in Cpus : /\ bcast[d] # NULL /\ bcast[d].vector = "TLB"
                                      /\ \E s \in bcast[d].at .. g_cpu_count - 1 : s = CpuSelf(c)
    BY DEF StaleCovered
  <2>1. PICK d \in Cpus \ {c} : bcast[d] # NULL /\ bcast[d].vector = "TLB" /\ bcast[d].at <= Slot(c)
    BY DEF IInv, CoverInv
  <2>2. Up(c) /\ Up(d) /\ SmpInv
    BY <2>1 DEF IInv, UseInv, Stale
  <2>3. CpuSelf(c) = Slot(c) /\ Slot(c) \in Nat /\ Slot(c) < g_cpu_count
    BY <2>1, <2>2, TwoUp, SelfIsSlot
  <2>4. bcast[d].at \in Nat
    BY <2>1 DEF IInv, IpiTypeOK
  <2>5. g_cpu_count \in Nat
    BY <2>2, SlotFacts, SMT DEF SmpInv, TypeOK
  <2>6. CpuSelf(c) \in bcast[d].at .. g_cpu_count - 1
    BY <2>1, <2>3, <2>4, <2>5, SMT
  <2> QED
    BY <2>1, <2>6
<1> QED
  BY <1>1, Invariance, PTL
=============================================================================
