------------------------------- MODULE Sched -------------------------------
(***************************************************************************)
(* The scheduler of kernel/sched.c and the interrupt path that drives it   *)
(* (isr_handler.c, isr_common_stub of idt.S): per-CPU run queues, the      *)
(* bootstrap thread of every CPU, context switches on the timer tick and   *)
(* the RESCHED IPI, and sched_spawn, which may be preempted half way.      *)
(*                                                                         *)
(* A thread has at most one interrupt frame, on its own stack, so a frame  *)
(* pointer is the thread whose stack it points into.  "running" is the     *)
(* stack a CPU really executes on, "current" what the scheduler believes.  *)
(* A CPU that has lost its stack (see StacksFrom) executes on none, NULL,  *)
(* and takes no further part.                                              *)
(* Critical sections under g_sched_lock are single steps (see Spinlock).   *)
(* Every task is TASK_RUNNABLE: nothing sets TASK_ZOMBIE.  CPUs are        *)
(* numbered below MAX_CPUS by smp_init.                                    *)
(***************************************************************************)
EXTENDS Integers, Sequences, FiniteSets, Functions

CONSTANTS
  CPUs,           \* the first g_cpu_count entries of g_cpus
  BSP,            \* the CPU that boots
  Tasks,          \* the sched_task_t structures the heap has room for
  NULL

VARIABLES
  ready,          \* g_sched_ready
  up,             \* up[c]: "off", "init" (scheduler state set up), "on" (after sti)
  timer,          \* timer[c]: the LAPIC timer of c was started
  current,        \* current[c]: g_sched_cpus[c].current
  runq,           \* runq[c]: the list from runq_head to runq_tail
  frame,          \* frame[t]: t->frame
  vec,            \* vec[t]: the vector in the frame on t's stack
  running,        \* running[c]: the thread whose stack c executes on, or NULL
  isr,            \* isr[c]: the interrupt handler of c: next step and "frame"
  call,           \* call[t]: the sched_spawn call thread t is in
  heap,           \* the structures of Tasks that are allocated
  stacks          \* the number of task stacks that are allocated

vars == <<ready, up, timer, current, runq, frame, vec, running, isr, call, heap, stacks>>

Bootstrap(c) == <<"bootstrap", c>>
Threads == Tasks \cup {Bootstrap(c) : c \in CPUs}

ASSUME SchedAssumption ==
  /\ BSP \in CPUs
  /\ NULL \notin Threads /\ NULL \notin CPUs
  /\ \A c \in CPUs : Bootstrap(c) \notin Tasks

TICK    == "tick"       \* SCHED_TICK_VECTOR
RESCHED == "resched"    \* IPI_VECTOR_RESCHED
Fresh   == "fresh"      \* the zero of a frame sched_spawn made

\* Mutant: the lookup finds nothing and falls back to g_cpus[0].
CpuSelfFallback(c) == BSP

\* cpu_self(), on c.
CpuSelf(c) == c

NoIsr  == [pc |-> "none", f |-> NULL]
NoCall == [pc |-> "none", task |-> NULL, cpu |-> NULL]

Init ==
  /\ ready = FALSE
  /\ up = [c \in CPUs |-> "off"]
  /\ timer = [c \in CPUs |-> FALSE]
  /\ current = [c \in CPUs |-> NULL]
  /\ runq = [c \in CPUs |-> <<>>]
  /\ frame = [t \in Threads |-> NULL]
  /\ vec = [t \in Threads |-> Fresh]
  /\ running = [c \in CPUs |-> Bootstrap(c)]
  /\ isr = [c \in CPUs |-> NoIsr]
  /\ call = [t \in Threads |-> NoCall]
  /\ heap = {}
  /\ stacks = 0

-----------------------------------------------------------------------------
(* Start-up.                                                               *)

\* sched_init, on the boot CPU: sched_init_cpu for every CPU; then the timer,
\* which may fail to start; then the flag the APs wait for.
SchedInit ==
  /\ ~ready
  /\ current' = [c \in CPUs |-> Bootstrap(c)]
  /\ runq' = [c \in CPUs |-> <<>>]
  /\ frame' = [t \in Threads |-> IF t \in Tasks THEN frame[t] ELSE NULL]
  /\ \E ok \in BOOLEAN : timer' = [timer EXCEPT ![BSP] = ok]
  /\ up' = [up EXCEPT ![BSP] = "init"]
  /\ ready' = TRUE
  /\ UNCHANGED <<vec, running, isr, call, heap, stacks>>

\* Mutant: the AP initialises its queue after it has enabled interrupts.
SchedApInitLate(c) ==
  /\ c # BSP
  /\ ready
  /\ ~timer[c]
  /\ \E ok \in BOOLEAN : timer' = [timer EXCEPT ![c] = ok]
  /\ current' = [current EXCEPT ![c] = Bootstrap(c)]
  /\ runq' = [runq EXCEPT ![c] = <<>>]
  /\ up' = [up EXCEPT ![c] = IF @ = "off" THEN "init" ELSE @]
  /\ UNCHANGED <<ready, frame, vec, running, isr, call, heap, stacks>>

\* The AP's wait for sched_is_ready, then sched_ap_init.
SchedApInit(c) ==
  /\ c # BSP
  /\ up[c] = "off"
  /\ ready
  /\ current' = [current EXCEPT ![c] = IF @ = NULL THEN Bootstrap(c) ELSE @]
  /\ runq' = [runq EXCEPT ![c] = IF current[c] = NULL THEN <<>> ELSE @]
  /\ \E ok \in BOOLEAN : timer' = [timer EXCEPT ![c] = ok]
  /\ up' = [up EXCEPT ![c] = "init"]
  /\ UNCHANGED <<ready, frame, vec, running, isr, call, heap, stacks>>

\* The sti of arch_irq_init and of smp_ap_entry_main.
Sti(c) ==
  /\ up[c] = "init"
  /\ up' = [up EXCEPT ![c] = "on"]
  /\ UNCHANGED <<ready, timer, current, runq, frame, vec, running, isr, call, heap, stacks>>

-----------------------------------------------------------------------------
(* Interrupts.                                                             *)

\* isr_common_stub pushes the frame on the stack of the running thread and
\* calls isr_handler; no handler is registered for these two vectors.
Interrupt(c, v) ==
  /\ up[c] = "on" /\ running[c] # NULL
  /\ isr[c].pc = "none"
  /\ v = TICK => timer[c]
  /\ vec' = [vec EXCEPT ![running[c]] = v]
  /\ isr' = [isr EXCEPT ![c] = [pc |-> "tick", f |-> running[c]]]
  /\ UNCHANGED <<ready, up, timer, current, runq, frame, running, call, heap, stacks>>

\* Mutant: the caller's frame is not stored in the outgoing task.
SaveFrameForgotten(fr, t, f) == fr

\* scpu->current->frame = frame.
SaveFrame(fr, t, f) == [fr EXCEPT ![t] = f]

\* sched_on_tick(f) on CPU c; the handler then continues at pc.
SchedOnTick(c, f, pc) ==
  LET cur == IF current[c] = NULL THEN Bootstrap(c) ELSE current[c]
      fr  == SaveFrame(frame, cur, f)
      stay == /\ current' = [current EXCEPT ![c] = cur]
              /\ isr' = [isr EXCEPT ![c] = [pc |-> pc, f |-> f]]
  IN /\ frame' = fr
     /\ IF runq[c] = <<>>
          THEN stay /\ UNCHANGED runq
          ELSE LET next == Head(runq[c])
               IN IF next = cur \/ fr[next] = NULL
                    THEN stay /\ runq' = [runq EXCEPT ![c] = Tail(@)]
                    ELSE /\ runq' = [runq EXCEPT ![c] = Append(Tail(@), cur)]
                         /\ current' = [current EXCEPT ![c] = next]
                         /\ isr' = [isr EXCEPT ![c] = [pc |-> pc, f |-> fr[next]]]
     /\ UNCHANGED <<ready, up, timer, vec, running, call, heap, stacks>>

\* A test of isr_handler that fails: on to pc.
Skip(c, pc) ==
  /\ isr' = [isr EXCEPT ![c].pc = pc]
  /\ UNCHANGED <<ready, up, timer, current, runq, frame, vec, running, call, heap, stacks>>

\* if (frame->vector == SCHED_TICK_VECTOR) ...
IsrTick(c) ==
  /\ isr[c].pc = "tick"
  /\ IF vec[isr[c].f] = TICK
       THEN SchedOnTick(c, isr[c].f, "resched")
       ELSE Skip(c, "resched")

\* Mutant: a frame that was returned by the first call is rescheduled again.
IsrReschedAlways(c) ==
  /\ isr[c].pc = "resched"
  /\ SchedOnTick(c, isr[c].f, "return")

\* if (frame->vector == IPI_VECTOR_RESCHED && sched_is_ready()) ..., where
\* "frame" is what the first test left.
IsrResched(c) ==
  /\ isr[c].pc = "resched"
  /\ IF vec[isr[c].f] = RESCHED /\ ready
       THEN SchedOnTick(c, isr[c].f, "return")
       ELSE Skip(c, "return")

\* The stacks iretq may end on when it pops the frame on the stack of t.  In
\* 64-bit mode it pops rsp and ss after rip, cs and rflags, always.  They are in
\* a frame the processor pushed.  The frame sched_spawn makes ends before
\* them, at the top of the stack: what iretq pops is whatever lies above.  If
\* that is not mapped or no stack of t, the CPU faults or goes on elsewhere,
\* and what it does from then on is left open (NULL).
StacksFrom(t) == IF vec[t] = Fresh THEN {t, NULL} ELSE {t}

\* The EOI; isr_common_stub loads rsp with the frame isr_handler returned
\* and pops it.
IsrReturn(c) ==
  /\ isr[c].pc = "return"
  /\ \E stack \in StacksFrom(isr[c].f) : running' = [running EXCEPT ![c] = stack]
  /\ isr' = [isr EXCEPT ![c] = NoIsr]
  /\ UNCHANGED <<ready, up, timer, current, runq, frame, vec, call, heap, stacks>>

-----------------------------------------------------------------------------
(* sched_spawn, called by the thread that runs on c.                       *)

Executing(c, pc) ==
  /\ up[c] # "off" /\ running[c] # NULL
  /\ isr[c].pc = "none"
  /\ call[running[c]].pc = pc

\* kmalloc of the task structure; if it fails nothing has changed.
SpawnKmalloc(c) ==
  /\ Executing(c, "none")
  /\ \E t \in Tasks \ heap :
       /\ heap' = heap \cup {t}
       /\ call' = [call EXCEPT ![running[c]] = [pc |-> "vmalloc", task |-> t, cpu |-> NULL]]
  /\ UNCHANGED <<ready, up, timer, current, runq, frame, vec, running, isr, stacks>>

\* Mutant: the error path forgets the task structure.
SpawnNoStackLeaks(c) ==
  /\ Executing(c, "vmalloc")
  /\ call' = [call EXCEPT ![running[c]] = NoCall]
  /\ UNCHANGED <<ready, up, timer, current, runq, frame, vec, running, isr, heap, stacks>>

\* vmalloc of the stack fails, as it may whenever others have used up the
\* memory: kfree(task).
SpawnNoStack(c) ==
  /\ Executing(c, "vmalloc")
  /\ heap' = heap \ {call[running[c]].task}
  /\ call' = [call EXCEPT ![running[c]] = NoCall]
  /\ UNCHANGED <<ready, up, timer, current, runq, frame, vec, running, isr, stacks>>

\* vmalloc succeeds.
SpawnStack(c) ==
  /\ Executing(c, "vmalloc")
  /\ stacks' = stacks + 1
  /\ call' = [call EXCEPT ![running[c]].pc = "fill"]
  /\ UNCHANGED <<ready, up, timer, current, runq, frame, vec, running, isr, heap>>

\* The frame at the top of the new stack, zeroed but for the registers the
\* trampoline needs, without rsp and ss; then the read of cpu_self().
SpawnFill(c) ==
  /\ Executing(c, "fill")
  /\ frame' = [frame EXCEPT ![call[running[c]].task] = call[running[c]].task]
  /\ vec' = [vec EXCEPT ![call[running[c]].task] = Fresh]
  /\ call' = [call EXCEPT ![running[c]] = [pc |-> "push", task |-> @.task, cpu |-> CpuSelf(c)]]
  /\ UNCHANGED <<ready, up, timer, current, runq, running, isr, heap, stacks>>

\* runq_push on the CPU that was read.
SpawnPush(c) ==
  /\ Executing(c, "push")
  /\ runq' = [runq EXCEPT ![call[running[c]].cpu] = Append(@, call[running[c]].task)]
  /\ call' = [call EXCEPT ![running[c]] = NoCall]
  /\ UNCHANGED <<ready, up, timer, current, frame, vec, running, isr, heap, stacks>>

-----------------------------------------------------------------------------
Spawn(c) ==
  SpawnKmalloc(c) \/ SpawnNoStack(c) \/ SpawnStack(c) \/ SpawnFill(c) \/ SpawnPush(c)

Handle(c) == IsrTick(c) \/ IsrResched(c) \/ IsrReturn(c)

Next ==
  \/ SchedInit
  \/ \E c \in CPUs : SchedApInit(c) \/ Sti(c) \/ Handle(c) \/ Spawn(c)
  \/ \E c \in CPUs, v \in {TICK, RESCHED} : Interrupt(c, v)

\* The timer keeps firing and handlers run to their end.
Fairness == \A c \in CPUs : WF_vars(Interrupt(c, TICK)) /\ WF_vars(Handle(c))

Spec == Init /\ [][Next]_vars /\ Fairness

-----------------------------------------------------------------------------
(* Properties.                                                             *)

\* The run queues and the task pointers hold threads; no stack is freed that
\* was not allocated.
TypeOK ==
  /\ ready \in BOOLEAN
  /\ up \in [CPUs -> {"off", "init", "on"}]
  /\ timer \in [CPUs -> BOOLEAN]
  /\ current \in [CPUs -> Threads \cup {NULL}]
  /\ runq \in [CPUs -> Seq(Threads)]
  /\ frame \in [Threads -> Threads \cup {NULL}]
  /\ vec \in [Threads -> {TICK, RESCHED, Fresh}]
  /\ running \in [CPUs -> Threads \cup {NULL}]
  /\ isr \in [CPUs -> [pc : {"none", "tick", "resched", "return"}, f : Threads \cup {NULL}]]
  /\ call \in [Threads -> [pc : {"none", "vmalloc", "fill", "push"},
                           task : Tasks \cup {NULL}, cpu : CPUs \cup {NULL}]]
  /\ heap \subseteq Tasks
  /\ stacks \in Nat

Queued(c) == Range(runq[c])

\* The new task of a sched_spawn call that has not been pushed yet.
Unborn == {call[t].task : t \in Threads} \ {NULL}

\* The threads the scheduler has been given.
Live == (heap \ Unborn) \cup {Bootstrap(c) : c \in CPUs}

\* The state is well typed, and once a CPU schedules every thread is in exactly one place: the current
\* thread of one CPU, or once on one run queue.  None is lost by the early
\* returns of sched_on_tick that drop the popped task, none is on a list twice
\* (the lists are linked through the task, so that would corrupt them).
OnePlace ==
  /\ TypeOK
  /\ ready =>
    /\ \A t \in Threads :
         t \in Live <=> \E c \in CPUs : current[c] = t \/ t \in Queued(c)
    /\ \A c, d \in CPUs : c # d =>
         ({current[c]} \cup Queued(c)) \cap ({current[d]} \cup Queued(d)) = {}
    /\ \A c \in CPUs : current[c] \notin Queued(c) /\ IsInjective(runq[c])

\* A CPU executes on the stack of the thread the scheduler calls current, and
\* a thread that waits will be resumed from its own stack.  The only way off
\* the stacks is the first switch to a thread sched_spawn made.
StackIsCurrents ==
  \A c \in CPUs : up[c] # "off" =>
    /\ isr[c].pc = "none" /\ running[c] # NULL => running[c] = current[c]
    /\ isr[c].pc # "none" => isr[c].f = current[c]
    /\ running[c] = NULL => vec[current[c]] = Fresh
    /\ \A t \in Queued(c) : frame[t] = t

\* sched_spawn reads cpu_self() with interrupts on and uses it after it may
\* have been preempted: it is still on that CPU, since threads never migrate.
SpawnsAtHome ==
  \A t \in Threads : call[t].pc = "push" =>
    current[call[t].cpu] = t \/ t \in Queued(call[t].cpu)

\* Every structure and every stack that is allocated belongs to a thread the
\* scheduler knows or to one sched_spawn call in progress: its error paths
\* leak nothing and free nothing twice.
NothingLeaked ==
  LET withStack == (heap \ Unborn)
                     \cup {call[t].task : t \in {u \in Threads : call[u].pc \in {"fill", "push"}}}
  IN /\ Unborn \subseteq heap
     /\ \A t, u \in Threads : t # u /\ call[t].task = call[u].task => call[t].task = NULL
     /\ stacks = Cardinality(withStack)

\* A thread on the queue of a CPU that gets ticks runs again, as long as the
\* CPU has not lost its stack in the first switch to a new thread, and unless
\* it was last preempted by a RESCHED IPI: isr_handler tests the vector of the
\* frame it is about to resume, so a tick that picks such a thread switches it
\* out again at once.
EventuallyRuns ==
  \A c \in CPUs, t \in Threads :
    (up[c] = "on" /\ timer[c] /\ t \in Queued(c) /\ vec[t] # RESCHED)
      ~> (running[c] \in {t, NULL})

=============================================================================
