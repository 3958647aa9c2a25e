---------------------------- MODULE SchedProofs ----------------------------
(***************************************************************************)
(* Proofs about the scheduler, for every set of CPUs and every set of task *)
(* structures: the run queues, the stacks the CPUs execute on, and         *)
(* sched_spawn.                                                            *)
(***************************************************************************)
EXTENDS Sched, FiniteSetTheorems, TLAPS

\* A leaf is for Zenon unless it names another prover.
USE Zenon

-----------------------------------------------------------------------------
(* Run queues as sequences.                                                *)

\* runq_push of a thread that is not in the queue: it is in it once.
LEMMA PushQueue ==
  ASSUME NEW S, NEW q \in Seq(S), IsInjective(q), NEW x \in S, x \notin Range(q)
  PROVE  /\ Append(q, x) \in Seq(S)
         /\ Range(Append(q, x)) = Range(q) \cup {x}
         /\ IsInjective(Append(q, x))
<1> DEFINE r == Append(q, x)
<1>1. /\ r \in Seq(S) /\ Len(q) \in Nat /\ Len(r) = Len(q) + 1
      /\ DOMAIN q = 1 .. Len(q) /\ DOMAIN r = 1 .. Len(q) + 1
      /\ \A i \in 1 .. Len(q) : r[i] = q[i]
      /\ r[Len(q) + 1] = x
  BY SMT
<1> HIDE DEF r
<1>2. \A i \in 1 .. Len(q) + 1 : i \in 1 .. Len(q) \/ i = Len(q) + 1
  BY <1>1, SMT
<1>3. \A i \in 1 .. Len(q) : i \in 1 .. Len(q) + 1
  BY <1>1, SMT
<1>4. Len(q) + 1 \in 1 .. Len(q) + 1
  BY <1>1, SMT
<1>5. Range(r) = Range(q) \cup {x}
  BY <1>1, <1>2, <1>3, <1>4 DEF Range
<1>6. IsInjective(r)
  BY <1>1, <1>2 DEF IsInjective, Range
<1> QED BY <1>1, <1>5, <1>6 DEF r

\* The head is taken off and x put at the end: the queue holds x instead of
\* the head.
LEMMA RotateQueue ==
  ASSUME NEW S, NEW q \in Seq(S), q # <<>>, IsInjective(q), NEW x \in S, x \notin Range(q)
  PROVE  /\ Head(q) \in Range(q)
         /\ Append(Tail(q), x) \in Seq(S)
         /\ Range(Append(Tail(q), x)) = (Range(q) \ {Head(q)}) \cup {x}
         /\ IsInjective(Append(Tail(q), x))
<1> DEFINE r == Tail(q)
<1>1. /\ r \in Seq(S) /\ Len(q) \in Nat \ {0} /\ Len(r) = Len(q) - 1
      /\ DOMAIN q = 1 .. Len(q) /\ DOMAIN r = 1 .. Len(q) - 1
      /\ \A i \in 1 .. Len(q) - 1 : r[i] = q[i + 1]
      /\ Head(q) = q[1]
  BY SMT
<1> HIDE DEF r
<1>2. 1 \in 1 .. Len(q) /\ \A i \in 1 .. Len(q) - 1 : i + 1 \in 1 .. Len(q) /\ i + 1 # 1
  BY <1>1, SMT
<1>3. \A i \in 1 .. Len(q) : i # 1 => i - 1 \in 1 .. Len(q) - 1 /\ (i - 1) + 1 = i
  BY <1>1, SMT
<1>4. Head(q) \in Range(q)
  BY <1>1, <1>2 DEF Range
<1>5. Range(r) = Range(q) \ {Head(q)}
  <2>1. ASSUME NEW y \in Range(r) PROVE y \in Range(q) \ {Head(q)}
    <3>1. PICK i \in 1 .. Len(q) - 1 : y = q[i + 1]
      BY <1>1 DEF Range
    <3> QED BY <3>1, <1>1, <1>2 DEF Range, IsInjective
  <2>2. ASSUME NEW y \in Range(q), y # Head(q) PROVE y \in Range(r)
    <3>1. PICK i \in 1 .. Len(q) : y = q[i]
      BY <1>1 DEF Range
    <3>2. i # 1
      BY <3>1, <2>2, <1>1
    <3>3. i - 1 \in 1 .. Len(q) - 1 /\ r[i - 1] = y
      BY <3>1, <3>2, <1>1, <1>3
    <3> QED BY <3>3, <1>1 DEF Range
  <2> QED BY <2>1, <2>2
<1>6. IsInjective(r)
  <2> SUFFICES ASSUME NEW i \in 1 .. Len(q) - 1, NEW j \in 1 .. Len(q) - 1, r[i] = r[j]
               PROVE  i = j
    BY <1>1 DEF IsInjective
  <2>1. q[i + 1] = q[j + 1] /\ i + 1 \in DOMAIN q /\ j + 1 \in DOMAIN q
    BY <1>1, <1>2
  <2>2. i + 1 = j + 1
    BY <2>1 DEF IsInjective
  <2> QED BY <2>2, <1>1, SMT
<1>7. x \notin Range(r)
  BY <1>5
<1>8. /\ Append(r, x) \in Seq(S)
      /\ Range(Append(r, x)) = Range(r) \cup {x}
      /\ IsInjective(Append(r, x))
  BY <1>1, <1>6, <1>7, PushQueue
<1> QED BY <1>4, <1>5, <1>8 DEF r

\* Nothing is in an empty queue.
LEMMA EmptyQueue == Range(<<>>) = {} /\ IsInjective(<<>>)
BY SMT DEF Range, IsInjective

-----------------------------------------------------------------------------
(* The inductive invariant.                                                *)

\* CPU c is the home of thread t: t is current there or in its queue.
Placed(t, c) == current[c] = t \/ t \in Queued(c)

\* Before sched_init there is nothing to schedule.
Cold ==
  /\ \A c \in CPUs : up[c] = "off" /\ current[c] = NULL /\ runq[c] = <<>>
  /\ heap = {}
  /\ \A t \in Threads : call[t] = NoCall
  /\ stacks = 0

\* The live threads are placed, each on one CPU and once.
Places ==
  /\ \A t \in Threads : t \in Live <=> \E c \in CPUs : Placed(t, c)
  /\ \A c, d \in CPUs, t \in Threads : Placed(t, c) /\ Placed(t, d) => c = d
  /\ \A c \in CPUs : /\ current[c] \in Threads /\ current[c] \notin Queued(c)
                     /\ IsInjective(runq[c])

\* What CPU c executes on, in its handler or outside of it: it loses its stack
\* only to the frame of a new thread.
Context(c) ==
  /\ up[c] = "off" => /\ isr[c].pc = "none" /\ running[c] = Bootstrap(c)
                      /\ ready => current[c] = Bootstrap(c)
  /\ isr[c].pc = "none" /\ ready /\ running[c] # NULL => running[c] = current[c]
  /\ isr[c].pc # "none" => isr[c].f = current[c]
  /\ running[c] = NULL => isr[c].pc = "none" /\ vec[current[c]] = Fresh
  /\ \A t \in Queued(c) : frame[t] = t

\* The sched_spawn call of thread t owns its task, which has a frame when it
\* is about to be pushed on the queue of the CPU t lives on.
CallSound(t) ==
  /\ (call[t].pc = "none" <=> call[t].task = NULL)
  /\ call[t].pc # "none" => call[t].task \in heap /\ t \in Live
  /\ call[t].pc = "push" => /\ call[t].cpu \in CPUs /\ Placed(t, call[t].cpu)
                            /\ frame[call[t].task] = call[t].task

\* No two calls have the same task.
CallsApart ==
  \A t, u \in Threads : t # u /\ call[t].task = call[u].task => call[t].task = NULL

\* The tasks that have a stack: those the scheduler was given, and those of
\* calls past their vmalloc.
Filled == {call[t].task : t \in {u \in Threads : call[u].pc \in {"fill", "push"}}}
WithStack == (heap \ Unborn) \cup Filled

IInv ==
  /\ TypeOK
  /\ ~ready => Cold
  /\ ready => Places
  /\ \A c \in CPUs : Context(c)
  /\ \A t \in Threads : CallSound(t)
  /\ CallsApart
  /\ IsFiniteSet(heap)
  /\ stacks = Cardinality(WithStack)

LEMMA InitInv == Init => IInv
<1> SUFFICES ASSUME Init PROVE IInv
  OBVIOUS
<1> USE DEF Init
<1>1. TypeOK
  <2>1. \A c \in CPUs : Bootstrap(c) \in Threads
    BY DEF Threads
  <2>2. runq \in [CPUs -> Seq(Threads)]
    BY SMT
  <2>3. isr \in [CPUs -> [pc : {"none", "tick", "resched", "return"}, f : Threads \cup {NULL}]]
    BY DEF NoIsr
  <2>4. call \in [Threads -> [pc : {"none", "vmalloc", "fill", "push"},
                              task : Tasks \cup {NULL}, cpu : CPUs \cup {NULL}]]
    BY DEF NoCall
  <2>5. /\ up \in [CPUs -> {"off", "init", "on"}] /\ timer \in [CPUs -> BOOLEAN]
        /\ current \in [CPUs -> Threads \cup {NULL}] /\ running \in [CPUs -> Threads \cup {NULL}]
    BY <2>1
  <2>6. /\ frame \in [Threads -> Threads \cup {NULL}]
        /\ vec \in [Threads -> {TICK, RESCHED, Fresh}]
    OBVIOUS
  <2>7. ready \in BOOLEAN
    OBVIOUS
  <2>8. heap \subseteq Tasks /\ stacks \in Nat
    OBVIOUS
  <2> HIDE DEF Init
  <2> QED BY <2>2, <2>3, <2>4, <2>5, <2>6, <2>7, <2>8 DEF TypeOK
<1>2. Cold
  BY DEF Cold
<1>3. \A c \in CPUs : Context(c)
  <2>1. \A c \in CPUs : Bootstrap(c) # NULL
    BY SchedAssumption DEF Threads
  <2> QED BY <2>1, EmptyQueue DEF Context, Queued, NoIsr
<1>4. (\A t \in Threads : CallSound(t)) /\ CallsApart
  BY DEF CallSound, CallsApart, NoCall
<1>5. IsFiniteSet(heap) /\ stacks = Cardinality(WithStack)
  <2>1. WithStack = {}
    BY DEF WithStack, Filled, NoCall
  <2> QED BY <2>1, FS_EmptySet
<1> QED BY <1>1, <1>2, <1>3, <1>4, <1>5 DEF IInv

-----------------------------------------------------------------------------
(* Start-up.                                                               *)

LEMMA SchedInitInv == IInv /\ SchedInit => IInv'
<1> SUFFICES ASSUME IInv, SchedInit PROVE IInv'
  OBVIOUS
<1>0. TypeOK /\ Cold /\ CallsApart /\ (\A c \in CPUs : Context(c))
        /\ (\A t \in Threads : CallSound(t)) /\ IsFiniteSet(heap)
        /\ stacks = Cardinality(WithStack)
  BY DEF IInv, SchedInit
<1> USE DEF SchedInit
<1>1. TypeOK'
  BY <1>0, SchedAssumption, SMT DEF TypeOK, Threads
<1>2. \A c \in CPUs : current'[c] = Bootstrap(c) /\ Queued(c)' = {} /\ IsInjective(runq'[c])
  BY EmptyQueue DEF Queued
<1>3. Places'
  <2>1. \A t \in Threads : (t \in Live)' <=> \E c \in CPUs : t = Bootstrap(c)
    BY <1>0 DEF Live, Unborn, Cold
  <2>2. \A t \in Threads, c \in CPUs : Placed(t, c)' <=> t = Bootstrap(c)
    BY <1>2 DEF Placed
  <2>3. \A c, d \in CPUs : Bootstrap(c) = Bootstrap(d) => c = d
    BY DEF Bootstrap
  <2>4. \A c, d \in CPUs, t \in Threads : Placed(t, c)' /\ Placed(t, d)' => c = d
    BY <2>2, <2>3
  <2>5. \A c \in CPUs : /\ current'[c] \in Threads /\ current'[c] \notin Queued(c)'
                        /\ IsInjective(runq'[c])
    BY <1>2 DEF Threads
  <2> QED BY <2>1, <2>2, <2>4, <2>5 DEF Places
<1>4. ASSUME NEW c \in CPUs PROVE Context(c)'
  <2>1. Bootstrap(c) # NULL
    BY SchedAssumption DEF Threads
  <2> QED BY <1>0, <1>2, <1>4, <2>1 DEF Context, Cold
<1>5. ASSUME NEW t \in Threads PROVE CallSound(t)'
  BY <1>0 DEF CallSound, Cold, NoCall
<1>6. CallsApart' /\ IsFiniteSet(heap') /\ stacks' = Cardinality(WithStack')
  BY <1>0 DEF CallsApart, WithStack, Filled, Unborn
<1> QED BY <1>1, <1>3, <1>4, <1>5, <1>6 DEF IInv

\* A step that leaves the queues, the heap and the spawn calls alone leaves
\* every thread where it is.
LEMMA SameThreads ==
  ASSUME UNCHANGED <<current, runq, heap, call>>
  PROVE  /\ \A t, c : Placed(t, c)' <=> Placed(t, c)
         /\ \A c : Queued(c)' = Queued(c)
         /\ Live' = Live /\ WithStack' = WithStack
         /\ Places => Places'
         /\ CallsApart => CallsApart'
<1>1. (\A c : Queued(c)' = Queued(c)) /\ Unborn' = Unborn
  BY DEF Queued, Unborn
<1>2. \A t, c : Placed(t, c)' <=> Placed(t, c)
  BY <1>1 DEF Placed
<1>3. Live' = Live /\ WithStack' = WithStack
  BY <1>1 DEF Live, WithStack, Filled
<1>4. Places => Places'
  BY <1>1, <1>2, <1>3 DEF Places
<1>5. CallsApart => CallsApart'
  BY DEF CallsApart
<1> QED BY <1>1, <1>2, <1>3, <1>4, <1>5

\* Such a step keeps the invariant if it keeps the types, the saved frames and
\* what the CPUs execute on.
LEMMA ContextStep ==
  ASSUME IInv, ready, UNCHANGED <<ready, current, runq, call, heap, stacks>>,
         \A x \in Threads : frame[x] = x => frame'[x] = x,
         TypeOK', \A c \in CPUs : Context(c)'
  PROVE  IInv'
<1>1. \A t \in Threads : CallSound(t)'
  <2> SUFFICES ASSUME NEW t \in Threads PROVE CallSound(t)'
    OBVIOUS
  <2>1. CallSound(t)
    BY DEF IInv
  <2>2. call[t].pc # "none" => call[t].task \in Threads
    BY <2>1 DEF CallSound, IInv, TypeOK, Threads
  <2> QED BY <2>1, <2>2, SameThreads DEF CallSound
<1>2. Places' /\ CallsApart' /\ stacks' = Cardinality(WithStack')
  BY SameThreads DEF IInv
<1>3. (~ready => Cold)' /\ IsFiniteSet(heap')
  BY DEF IInv
<1> QED BY <1>1, <1>2, <1>3 DEF IInv

LEMMA SchedApInitInv ==
  ASSUME IInv, NEW c \in CPUs, SchedApInit(c)
  PROVE  IInv'
<1> USE DEF SchedApInit
<1>1. TypeOK /\ ready /\ current[c] \in Threads /\ (\A d \in CPUs : Context(d))
  BY DEF IInv, Places
<1>2. current' = current /\ runq' = runq
  BY <1>1, SchedAssumption DEF TypeOK
<1>3. TypeOK'
  <2>1. PICK ok \in BOOLEAN : timer' = [timer EXCEPT ![c] = ok]
    OBVIOUS
  <2>2. timer' \in [CPUs -> BOOLEAN] /\ up' \in [CPUs -> {"off", "init", "on"}]
    BY <1>1, <2>1 DEF TypeOK
  <2> QED BY <1>1, <1>2, <2>2 DEF TypeOK
<1>4. \A d \in CPUs : Context(d)'
  BY <1>1, <1>2, SMT DEF Context, TypeOK, Queued
<1> QED BY <1>1, <1>2, <1>3, <1>4, ContextStep

LEMMA StiInv ==
  ASSUME IInv, NEW c \in CPUs, Sti(c)
  PROVE  IInv'
<1> USE DEF Sti
<1>1. TypeOK /\ ready /\ (\A d \in CPUs : Context(d))
  BY DEF IInv, Cold
<1>2. TypeOK'
  BY <1>1 DEF TypeOK
<1>3. \A d \in CPUs : Context(d)'
  BY <1>1 DEF Context, TypeOK, Queued
<1> QED BY <1>1, <1>2, <1>3, ContextStep

-----------------------------------------------------------------------------
(* Interrupts.                                                             *)

LEMMA InterruptInv ==
  ASSUME IInv, NEW c \in CPUs, NEW v \in {TICK, RESCHED}, Interrupt(c, v)
  PROVE  IInv'
<1> USE DEF Interrupt
<1>1. TypeOK /\ ready /\ Places /\ (\A d \in CPUs : Context(d))
  BY DEF IInv, Cold
<1>2. running[c] \in Threads /\ running[c] = current[c]
  BY <1>1 DEF TypeOK, Context
<1>3. TypeOK'
  <2>1. vec' \in [Threads -> {TICK, RESCHED, Fresh}]
    BY <1>1 DEF TypeOK
  <2>2. isr' \in [CPUs -> [pc : {"none", "tick", "resched", "return"}, f : Threads \cup {NULL}]]
    BY <1>1, <1>2 DEF TypeOK
  <2> QED BY <1>1, <2>1, <2>2 DEF TypeOK
<1>4. \A d \in CPUs : Context(d)'
  <2> SUFFICES ASSUME NEW d \in CPUs PROVE Context(d)'
    OBVIOUS
  <2>1. CASE d = c
    BY <1>1, <1>2, <2>1 DEF Context, TypeOK, Queued
  <2>2. CASE d # c
    <3>1. isr'[d] = isr[d]
      BY <1>1, <2>2 DEF TypeOK
    <3>2. current[d] \in Threads /\ current[d] # running[c]
      BY <1>1, <1>2, <2>2 DEF Places, Placed
    <3>3. vec'[current[d]] = vec[current[d]]
      BY <1>1, <3>2 DEF TypeOK
    <3> QED BY <1>1, <3>1, <3>3 DEF Context, Queued
  <2> QED BY <2>1, <2>2
<1> QED BY <1>1, <1>3, <1>4, ContextStep

\* A handler goes on to its next test with the frame it has.
LEMMA SkipInv ==
  ASSUME IInv, NEW c \in CPUs, isr[c].pc # "none", NEW pc \in {"resched", "return"}, Skip(c, pc)
  PROVE  IInv'
<1> USE DEF Skip
<1>1. TypeOK /\ (\A d \in CPUs : Context(d))
  BY DEF IInv
<1>2. up[c] # "off"
  BY <1>1 DEF Context
<1>3. ready
  BY <1>2 DEF IInv, Cold
<1>4. isr' \in [CPUs -> [pc : {"none", "tick", "resched", "return"}, f : Threads \cup {NULL}]]
  <2>1. isr' = [isr EXCEPT ![c] = [isr[c] EXCEPT !.pc = pc]]
    OBVIOUS
  <2>2. isr[c] \in [pc : {"none", "tick", "resched", "return"}, f : Threads \cup {NULL}]
    BY <1>1 DEF TypeOK
  <2>3. [isr[c] EXCEPT !.pc = pc]
          \in [pc : {"none", "tick", "resched", "return"}, f : Threads \cup {NULL}]
    BY <2>2
  <2> QED BY <1>1, <2>1, <2>3 DEF TypeOK
<1>5. TypeOK'
  BY <1>1, <1>4 DEF TypeOK
<1>6. /\ isr'[c].pc = pc /\ isr'[c].f = isr[c].f
      /\ \A d \in CPUs : d # c => isr'[d] = isr[d]
  BY <1>1, SMT DEF TypeOK
<1>7. \A d \in CPUs : Context(d)'
  <2> SUFFICES ASSUME NEW d \in CPUs PROVE Context(d)'
    OBVIOUS
  <2>1. CASE d = c
    BY <1>1, <1>2, <1>6, <2>1 DEF Context, Queued
  <2>2. CASE d # c
    BY <1>1, <1>6, <2>2 DEF Context, Queued
  <2> QED BY <2>1, <2>2
<1> QED BY <1>3, <1>5, <1>7, ContextStep

LEMMA IsrReturnInv ==
  ASSUME IInv, NEW c \in CPUs, IsrReturn(c)
  PROVE  IInv'
<1> USE DEF IsrReturn
<1>1. TypeOK /\ (\A d \in CPUs : Context(d))
  BY DEF IInv
<1>2. up[c] # "off" /\ isr[c].f = current[c]
  BY <1>1 DEF Context
<1>3. ready /\ current[c] \in Threads /\ current[c] # NULL
  BY <1>2, SchedAssumption DEF IInv, Cold, Places
<1>a. PICK stack \in StacksFrom(current[c]) : running' = [running EXCEPT ![c] = stack]
  BY <1>2
<1>b. stack = current[c] \/ (stack = NULL /\ vec[current[c]] = Fresh)
  BY DEF StacksFrom
<1>4. isr' \in [CPUs -> [pc : {"none", "tick", "resched", "return"}, f : Threads \cup {NULL}]]
  BY <1>1 DEF TypeOK, NoIsr
<1>5. TypeOK'
  BY <1>a, <1>1, <1>3, <1>4, <1>b DEF TypeOK
<1>6. /\ isr'[c].pc = "none" /\ running'[c] = stack
      /\ \A d \in CPUs : d # c => isr'[d] = isr[d] /\ running'[d] = running[d]
  BY <1>a, <1>1 DEF TypeOK, NoIsr
<1>7. \A d \in CPUs : Context(d)'
  <2> SUFFICES ASSUME NEW d \in CPUs PROVE Context(d)'
    OBVIOUS
  <2>1. CASE d = c
    BY <1>1, <1>2, <1>3, <1>6, <1>b, <2>1 DEF Context, Queued
  <2>2. CASE d # c
    BY <1>1, <1>6, <2>2, SMT DEF Context, Queued
  <2> QED BY <2>1, <2>2
<1> QED BY <1>3, <1>5, <1>7, ContextStep

\* sched_on_tick, called with the frame the handler has: it stores the frame
\* in the current task, and stays or switches to the head of the queue.  Its
\* early returns that drop the popped task are never taken.
LEMMA TickShape ==
  ASSUME IInv, NEW c \in CPUs, isr[c].pc # "none", NEW pc \in {"resched", "return"},
         SchedOnTick(c, isr[c].f, pc)
  PROVE  /\ TypeOK /\ up[c] # "off" /\ ready /\ current[c] \in Threads
         /\ TypeOK'
         /\ frame'[current[c]] = current[c]
         /\ \A x \in Threads : x # current[c] => frame'[x] = frame[x]
         /\ isr'[c].pc = pc /\ isr'[c].f = current'[c]
         /\ \A d \in CPUs : d # c => /\ isr'[d] = isr[d] /\ current'[d] = current[d]
                                     /\ runq'[d] = runq[d]
         /\ \/ current' = current /\ runq' = runq
            \/ /\ runq[c] # <<>>
               /\ current'[c] = Head(runq[c])
               /\ runq'[c] = Append(Tail(runq[c]), current[c])
<1>1. TypeOK /\ Context(c)
  BY DEF IInv
<1>2. up[c] # "off" /\ isr[c].f = current[c]
  BY <1>1 DEF Context
<1>3. ready /\ Places
  BY <1>2 DEF IInv, Cold
<1>4. current[c] \in Threads /\ current[c] # NULL /\ current[c] \notin Queued(c)
      /\ IsInjective(runq[c]) /\ runq[c] \in Seq(Threads)
  BY <1>1, <1>3, SchedAssumption, SMT DEF Places, TypeOK
<1>5. frame' = [frame EXCEPT ![current[c]] = current[c]]
  BY <1>2, <1>4 DEF SchedOnTick, SaveFrame
<1>6. /\ frame' \in [Threads -> Threads \cup {NULL}]
      /\ frame'[current[c]] = current[c]
      /\ \A x \in Threads : x # current[c] => frame'[x] = frame[x]
  BY <1>1, <1>4, <1>5 DEF TypeOK
<1>7. UNCHANGED <<ready, up, timer, vec, running, call, heap, stacks>>
  BY DEF SchedOnTick
<1>8. CASE runq[c] = <<>>
  <2>1. /\ current' = [current EXCEPT ![c] = current[c]]
        /\ isr' = [isr EXCEPT ![c] = [pc |-> pc, f |-> current[c]]]
        /\ runq' = runq
    BY <1>2, <1>4, <1>8 DEF SchedOnTick
  <2>2. current' = current
    BY <2>1, <1>1 DEF TypeOK
  <2>3. /\ isr' \in [CPUs -> [pc : {"none", "tick", "resched", "return"}, f : Threads \cup {NULL}]]
        /\ isr'[c].pc = pc /\ isr'[c].f = current[c]
        /\ \A d \in CPUs : d # c => isr'[d] = isr[d]
    BY <1>1, <1>4, <2>1 DEF TypeOK
  <2>4. TypeOK'
    BY <1>1, <1>6, <1>7, <2>1, <2>2, <2>3 DEF TypeOK
  <2> QED BY <1>1, <1>2, <1>3, <1>4, <1>6, <2>1, <2>2, <2>3, <2>4
<1>9. CASE runq[c] # <<>>
  <2> DEFINE next == Head(runq[c])
             rest == Append(Tail(runq[c]), current[c])
  <2>1. next \in Queued(c) /\ rest \in Seq(Threads)
    BY <1>4, <1>9, RotateQueue DEF Queued
  <2>2. frame[next] = next /\ next # current[c]
    BY <1>1, <1>4, <2>1 DEF Context
  <2>3. next \in Threads
    BY <1>4, <1>9, SMT
  <2>4. SaveFrame(frame, current[c], current[c])[next] = next /\ next # NULL
    BY <1>1, <2>2, <2>3, SchedAssumption DEF SaveFrame, TypeOK
  <2>5. /\ runq' = [runq EXCEPT ![c] = rest]
        /\ current' = [current EXCEPT ![c] = next]
        /\ isr' = [isr EXCEPT ![c] = [pc |-> pc, f |-> next]]
    BY <1>2, <1>4, <1>9, <2>2, <2>4 DEF SchedOnTick
  <2> HIDE DEF next, rest
  <2>6. /\ isr' \in [CPUs -> [pc : {"none", "tick", "resched", "return"}, f : Threads \cup {NULL}]]
        /\ isr'[c].pc = pc /\ isr'[c].f = next
        /\ \A d \in CPUs : d # c => isr'[d] = isr[d]
    BY <1>1, <2>3, <2>5 DEF TypeOK
  <2>7. /\ runq' \in [CPUs -> Seq(Threads)] /\ current' \in [CPUs -> Threads \cup {NULL}]
        /\ runq'[c] = rest /\ current'[c] = next
        /\ \A d \in CPUs : d # c => runq'[d] = runq[d] /\ current'[d] = current[d]
    BY <1>1, <2>1, <2>3, <2>5 DEF TypeOK
  <2>8. TypeOK'
    BY <1>1, <1>6, <1>7, <2>6, <2>7 DEF TypeOK
  <2> QED BY <1>1, <1>2, <1>3, <1>4, <1>6, <1>9, <2>6, <2>7, <2>8 DEF next, rest
<1> QED BY <1>8, <1>9

\* A switch exchanges the current thread and the head of the queue: no thread
\* moves to another CPU.
LEMMA SwitchPlaces ==
  ASSUME TypeOK, Places, NEW c \in CPUs, runq[c] # <<>>,
         current'[c] = Head(runq[c]), runq'[c] = Append(Tail(runq[c]), current[c]),
         \A d \in CPUs : d # c => current'[d] = current[d] /\ runq'[d] = runq[d]
  PROVE  /\ \A t \in Threads, d \in CPUs : Placed(t, d)' <=> Placed(t, d)
         /\ \A d \in CPUs : /\ runq'[d] \in Seq(Threads) /\ IsInjective(runq'[d])
                            /\ current'[d] \in Threads /\ current'[d] \notin Queued(d)'
         /\ Queued(c)' = (Queued(c) \ {Head(runq[c])}) \cup {current[c]}
         /\ Head(runq[c]) \in Queued(c)
<1>1. /\ runq[c] \in Seq(Threads) /\ IsInjective(runq[c])
      /\ current[c] \in Threads /\ current[c] \notin Range(runq[c])
  BY DEF TypeOK, Places, Queued
<1>2. /\ Head(runq[c]) \in Queued(c) /\ runq'[c] \in Seq(Threads) /\ IsInjective(runq'[c])
      /\ Queued(c)' = (Queued(c) \ {Head(runq[c])}) \cup {current[c]}
  <2> DEFINE q == runq[c]
             x == current[c]
  <2>1. /\ q \in Seq(Threads) /\ q # <<>> /\ IsInjective(q)
        /\ x \in Threads /\ x \notin Range(q)
    BY <1>1
  <2>2. runq'[c] = Append(Tail(q), x)
    OBVIOUS
  <2>4. Queued(c) = Range(q)
    BY DEF Queued
  <2>5. Queued(c)' = Range(runq'[c])
    BY DEF Queued
  <2> HIDE DEF q, x
  <2>3. /\ Head(q) \in Range(q) /\ Append(Tail(q), x) \in Seq(Threads)
        /\ Range(Append(Tail(q), x)) = (Range(q) \ {Head(q)}) \cup {x}
        /\ IsInjective(Append(Tail(q), x))
    BY <2>1, RotateQueue, SMT
  <2> QED BY <2>2, <2>3, <2>4, <2>5 DEF q, x
<1>3. current'[c] = Head(runq[c]) /\ Head(runq[c]) # current[c] /\ Head(runq[c]) \in Threads
  BY <1>1, <1>2, SMT DEF TypeOK, Queued
<1>4. \A d \in CPUs : d # c => current'[d] = current[d] /\ Queued(d)' = Queued(d)
  BY DEF TypeOK, Queued
<1>5. ASSUME NEW t \in Threads, NEW d \in CPUs PROVE Placed(t, d)' <=> Placed(t, d)
  <2>1. CASE d = c
    BY <1>2, <1>3, <2>1 DEF Placed
  <2>2. CASE d # c
    BY <1>4, <2>2 DEF Placed
  <2> QED BY <2>1, <2>2
<1>6. ASSUME NEW d \in CPUs
      PROVE  /\ runq'[d] \in Seq(Threads) /\ IsInjective(runq'[d])
             /\ current'[d] \in Threads /\ current'[d] \notin Queued(d)'
  <2>1. CASE d = c
    <3>1. current'[c] \notin Queued(c)' /\ current'[c] \in Threads
      BY <1>2, <1>3
    <3> QED BY <1>2, <2>1, <3>1
  <2>2. CASE d # c
    BY <1>4, <2>2 DEF Places, TypeOK
  <2> QED BY <2>1, <2>2
<1> QED BY <1>2, <1>5, <1>6

LEMMA TickInv ==
  ASSUME IInv, NEW c \in CPUs, isr[c].pc # "none", NEW pc \in {"resched", "return"},
         SchedOnTick(c, isr[c].f, pc)
  PROVE  IInv'
<1>1. /\ TypeOK /\ up[c] # "off" /\ ready /\ current[c] \in Threads
      /\ TypeOK'
      /\ frame'[current[c]] = current[c]
      /\ \A x \in Threads : x # current[c] => frame'[x] = frame[x]
      /\ isr'[c].pc = pc /\ isr'[c].f = current'[c]
      /\ \A d \in CPUs : d # c => /\ isr'[d] = isr[d] /\ current'[d] = current[d]
                                  /\ runq'[d] = runq[d]
      /\ \/ current' = current /\ runq' = runq
         \/ /\ runq[c] # <<>>
            /\ current'[c] = Head(runq[c])
            /\ runq'[c] = Append(Tail(runq[c]), current[c])
  BY TickShape
<1>2. Places /\ (\A d \in CPUs : Context(d))
  BY <1>1 DEF IInv
<1>3. UNCHANGED <<ready, up, timer, vec, running, call, heap, stacks>>
  BY DEF SchedOnTick
<1>4. \A x \in Threads : frame[x] = x => frame'[x] = x
  BY <1>1
<1>5. \A d \in CPUs : \A t \in Queued(d) : t \in Threads /\ frame'[t] = t
  BY <1>1, <1>2, <1>4, SMT DEF TypeOK, Context, Queued, Range
<1>6. ASSUME NEW d \in CPUs, d # c PROVE Context(d)'
  <2>1. Queued(d)' = Queued(d)
    BY <1>1, <1>6 DEF Queued
  <2> QED BY <1>1, <1>2, <1>3, <1>5, <1>6, <2>1, SMT DEF Context
<1>9. running[c] # NULL
  BY <1>2 DEF Context
<1>7. CASE current' = current /\ runq' = runq
  <2>1. Queued(c)' = Queued(c)
    BY <1>7 DEF Queued
  <2>2. Context(c)'
    BY <1>1, <1>3, <1>5, <1>9, <2>1 DEF Context
  <2> QED BY <1>1, <1>3, <1>4, <1>6, <1>7, <2>2, ContextStep
<1>8. CASE /\ runq[c] # <<>>
           /\ current'[c] = Head(runq[c])
           /\ runq'[c] = Append(Tail(runq[c]), current[c])
  <2>1. /\ \A t \in Threads, d \in CPUs : Placed(t, d)' <=> Placed(t, d)
        /\ \A d \in CPUs : /\ runq'[d] \in Seq(Threads) /\ IsInjective(runq'[d])
                           /\ current'[d] \in Threads /\ current'[d] \notin Queued(d)'
        /\ Queued(c)' = (Queued(c) \ {Head(runq[c])}) \cup {current[c]}
    BY <1>1, <1>2, <1>8, SwitchPlaces
  <2>2. Live' = Live /\ WithStack' = WithStack /\ (CallsApart => CallsApart')
    BY <1>3 DEF Live, Unborn, WithStack, Filled, CallsApart
  <2>3. Places'
    BY <1>2, <2>1, <2>2 DEF Places
  <2>4. Context(c)'
    <3>1. \A t \in Queued(c)' : frame'[t] = t
      BY <1>1, <1>5, <2>1
    <3> QED BY <1>1, <1>3, <1>9, <3>1 DEF Context
  <2>5. ASSUME NEW t \in Threads PROVE CallSound(t)'
    <3>1. CallSound(t)
      BY DEF IInv
    <3>2. call[t].pc # "none" => call[t].task \in Threads
      BY <3>1, <1>1 DEF CallSound, TypeOK, Threads
    <3> QED BY <1>3, <1>4, <2>1, <2>2, <3>1, <3>2 DEF CallSound
  <2> QED BY <1>1, <1>3, <1>6, <2>2, <2>3, <2>4, <2>5 DEF IInv
<1> QED BY <1>1, <1>7, <1>8

\* Both tests of isr_handler.
LEMMA HandleInv ==
  ASSUME IInv, NEW c \in CPUs, Handle(c)
  PROVE  IInv'
<1>1. CASE IsrTick(c)
  BY <1>1, TickInv, SkipInv DEF IsrTick
<1>2. CASE IsrResched(c)
  BY <1>2, TickInv, SkipInv DEF IsrResched
<1>3. CASE IsrReturn(c)
  BY <1>3, IsrReturnInv
<1> QED BY <1>1, <1>2, <1>3 DEF Handle

-----------------------------------------------------------------------------
(* sched_spawn.                                                            *)

\* The thread that executes sched_spawn on c is the current thread of c.
LEMMA Spawner ==
  ASSUME IInv, NEW c \in CPUs, NEW pc, Executing(c, pc)
  PROVE  /\ TypeOK /\ ready /\ Places /\ CallsApart
         /\ running[c] \in Threads /\ running[c] = current[c] /\ running[c] \in Live
         /\ Placed(running[c], c)
         /\ call[running[c]].pc = pc /\ CallSound(running[c])
<1>1. TypeOK /\ up[c] # "off" /\ isr[c].pc = "none" /\ Context(c) /\ CallsApart
      /\ running[c] # NULL /\ call[running[c]].pc = pc
  BY DEF IInv, Executing
<1>2. ready /\ Places
  BY <1>1 DEF IInv, Cold
<1>3. running[c] \in Threads /\ running[c] = current[c]
  BY <1>1, <1>2 DEF Context, TypeOK
<1>4. Placed(running[c], c)
  BY <1>3 DEF Placed
<1> QED BY <1>1, <1>2, <1>3, <1>4 DEF IInv, Places

\* When the call of one thread changes, its task joins or leaves Unborn.
LEMMA UnbornStep ==
  ASSUME CallsApart, NEW r \in Threads, \A t \in Threads : t # r => call'[t] = call[t]
  PROVE  /\ call[r].task = NULL /\ call'[r].task # NULL
              => Unborn' = Unborn \cup {call'[r].task}
         /\ call'[r].task = call[r].task => Unborn' = Unborn
         /\ call[r].task # NULL /\ call'[r].task = NULL
              => Unborn' = Unborn \ {call[r].task}
<1>1. \A x : x \in Unborn <=> x # NULL /\ \E t \in Threads : call[t].task = x
  BY DEF Unborn
<1>2. \A x : x \in Unborn' <=> x # NULL /\ \E t \in Threads : call'[t].task = x
  BY DEF Unborn
<1>3. \A t \in Threads : t # r => call'[t].task = call[t].task
  OBVIOUS
<1>4. \A t \in Threads : t # r /\ call[t].task = call[r].task => call[r].task = NULL
  BY DEF CallsApart
<1>5. ASSUME call[r].task = NULL, call'[r].task # NULL
      PROVE  Unborn' = Unborn \cup {call'[r].task}
  BY <1>1, <1>2, <1>3, <1>5, SMT
<1>6. ASSUME call'[r].task = call[r].task PROVE Unborn' = Unborn
  <2>1. \A x : x \in Unborn' <=> x \in Unborn
    BY <1>1, <1>2, <1>3, <1>6
  <2> QED BY <2>1
<1>7. ASSUME call[r].task # NULL, call'[r].task = NULL
      PROVE  Unborn' = Unborn \ {call[r].task}
  BY <1>1, <1>2, <1>3, <1>4, <1>7, SMT
<1> QED BY <1>5, <1>6, <1>7

\* ... and Filled.
LEMMA FilledStep ==
  ASSUME CallsApart, NEW r \in Threads, \A t \in Threads : t # r => call'[t] = call[t],
         call[r].pc \in {"fill", "push"} => call[r].task # NULL
  PROVE  /\ call[r].pc \notin {"fill", "push"} /\ call'[r].pc \notin {"fill", "push"}
              => Filled' = Filled
         /\ call[r].pc \notin {"fill", "push"} /\ call'[r].pc \in {"fill", "push"}
              => Filled' = Filled \cup {call'[r].task}
         /\ call[r].pc \in {"fill", "push"} /\ call'[r].pc \in {"fill", "push"}
              /\ call'[r].task = call[r].task => Filled' = Filled
         /\ call[r].pc \in {"fill", "push"} /\ call'[r].pc \notin {"fill", "push"}
              => Filled' = Filled \ {call[r].task}
<1> DEFINE P(t) == call[t].pc \in {"fill", "push"}
           Q(t) == call'[t].pc \in {"fill", "push"}
<1>1. \A x : x \in Filled <=> \E t \in Threads : P(t) /\ call[t].task = x
  BY DEF Filled
<1>2. \A x : x \in Filled' <=> \E t \in Threads : Q(t) /\ call'[t].task = x
  BY DEF Filled
<1>3. \A t \in Threads : t # r => call'[t].task = call[t].task /\ (Q(t) <=> P(t))
  OBVIOUS
<1>4. \A t \in Threads : t # r /\ call[t].task = call[r].task => call[r].task = NULL
  BY DEF CallsApart
<1>5. P(r) => call[r].task # NULL
  OBVIOUS
<1> HIDE DEF P, Q
<1>6. ASSUME ~P(r), ~Q(r) PROVE Filled' = Filled
  <2>1. \A x : x \in Filled' <=> x \in Filled
    BY <1>1, <1>2, <1>3, <1>6
  <2> QED BY <2>1
<1>7. ASSUME ~P(r), Q(r) PROVE Filled' = Filled \cup {call'[r].task}
  BY <1>1, <1>2, <1>3, <1>7, SMT
<1>8. ASSUME P(r), Q(r), call'[r].task = call[r].task PROVE Filled' = Filled
  <2>1. \A x : x \in Filled' <=> x \in Filled
    BY <1>1, <1>2, <1>3, <1>8, SMT
  <2> QED BY <2>1
<1>9. ASSUME P(r), ~Q(r) PROVE Filled' = Filled \ {call[r].task}
  BY <1>1, <1>2, <1>3, <1>4, <1>5, <1>9, SMT
<1> QED BY <1>6, <1>7, <1>8, <1>9 DEF P, Q

\* The call of a thread whose task, frame and place stay is as sound as it was.
LEMMA SameCall ==
  ASSUME NEW t \in Threads, CallSound(t), call'[t] = call[t], UNCHANGED <<current, runq>>,
         Live' = Live,
         call[t].pc # "none" => call[t].task \in heap',
         call[t].pc = "push" => frame'[call[t].task] = frame[call[t].task]
  PROVE  CallSound(t)'
BY DEF CallSound, Placed, Queued

\* A step of sched_spawn before the push: it moves no thread, and keeps the
\* frames of those the scheduler has.
LEMMA SpawnStep ==
  ASSUME IInv, ready, UNCHANGED <<ready, up, current, runq, running, isr>>,
         TypeOK', Live' = Live,
         \A x \in Threads : x \in Live => frame'[x] = frame[x] /\ vec'[x] = vec[x],
         \A t \in Threads : CallSound(t)', CallsApart',
         IsFiniteSet(heap'), stacks' = Cardinality(WithStack')
  PROVE  IInv'
<1>1. TypeOK /\ Places /\ (\A c \in CPUs : Context(c))
  BY DEF IInv
<1>2. \A c : Queued(c)' = Queued(c)
  BY DEF Queued
<1>3. \A t, c : Placed(t, c)' <=> Placed(t, c)
  BY <1>2 DEF Placed
<1>4. Places'
  BY <1>1, <1>2, <1>3 DEF Places
<1>5. ASSUME NEW c \in CPUs PROVE Context(c)'
  <2>1. \A t \in Queued(c) : t \in Threads /\ t \in Live
    BY <1>1, SMT DEF TypeOK, Queued, Range, Places, Placed
  <2>2. \A t \in Queued(c)' : frame'[t] = t
    BY <1>1, <1>2, <2>1 DEF Context
  <2>3. vec'[current[c]] = vec[current[c]]
    BY <1>1 DEF Places, Placed
  <2> QED BY <1>1, <2>2, <2>3 DEF Context
<1> QED BY <1>4, <1>5 DEF IInv

\* The tasks with a stack are allocated, so there are finitely many.
LEMMA StacksInHeap ==
  ASSUME TypeOK, IsFiniteSet(heap), \A t \in Threads : CallSound(t)
  PROVE  WithStack \subseteq heap /\ IsFiniteSet(WithStack) /\ Unborn \subseteq heap
         /\ NULL \notin heap
<1>1. \A t \in Threads : call[t].pc # "none" => call[t].task \in heap
  BY DEF CallSound
<1>2. \A t \in Threads : call[t].task # NULL => call[t].task \in heap
  BY <1>1 DEF CallSound
<1>3. Filled \subseteq heap
  BY <1>1 DEF Filled
<1>4. Unborn \subseteq heap
  BY <1>2 DEF Unborn
<1>5. WithStack \subseteq heap
  BY <1>3 DEF WithStack
<1> QED BY <1>4, <1>5, FS_Subset, SchedAssumption DEF TypeOK, Threads

LEMMA SpawnKmallocInv ==
  ASSUME IInv, NEW c \in CPUs, SpawnKmalloc(c)
  PROVE  IInv'
<1> DEFINE r == running[c]
<1> USE DEF SpawnKmalloc
<1>1. /\ TypeOK /\ ready /\ Places /\ CallsApart /\ r \in Threads /\ r \in Live
      /\ call[r].pc = "none" /\ CallSound(r)
  BY Spawner
<1>2. PICK x \in Tasks \ heap :
        /\ heap' = heap \cup {x}
        /\ call' = [call EXCEPT ![r] = [pc |-> "vmalloc", task |-> x, cpu |-> NULL]]
  OBVIOUS
<1> HIDE DEF r
<1>3. x # NULL /\ x \in Threads /\ call[r].task = NULL
  BY <1>1, SchedAssumption DEF Threads, CallSound
<1>4. /\ call' \in [Threads -> [pc : {"none", "vmalloc", "fill", "push"},
                                task : Tasks \cup {NULL}, cpu : CPUs \cup {NULL}]]
      /\ call'[r].pc = "vmalloc" /\ call'[r].task = x
      /\ \A t \in Threads : t # r => call'[t] = call[t]
  BY <1>1, <1>2 DEF TypeOK
<1>5. TypeOK'
  BY <1>1, <1>2, <1>4 DEF TypeOK
<1>6. Unborn' = Unborn \cup {x} /\ Filled' = Filled
  BY <1>1, <1>3, <1>4, UnbornStep, FilledStep
<1>7. Live' = Live /\ WithStack' = WithStack
  BY <1>2, <1>6, SMT DEF Live, WithStack
<1>8. \A t \in Threads : CallSound(t) /\ (call[t].task = NULL \/ call[t].task \in heap)
  BY DEF IInv, CallSound
<1>9. ASSUME NEW t \in Threads PROVE CallSound(t)'
  <2>1. CASE t = r
    BY <1>1, <1>2, <1>3, <1>4, <1>7, <2>1 DEF CallSound
  <2>2. CASE t # r
    <3>1. call'[t] = call[t] /\ (call[t].pc # "none" => call[t].task \in heap')
      BY <1>2, <1>4, <1>8, <2>2 DEF CallSound
    <3> QED BY <1>7, <1>8, <3>1, SameCall
  <2> QED BY <2>1, <2>2
<1>10. CallsApart'
  BY <1>1, <1>2, <1>3, <1>4, <1>8, SMT DEF CallsApart
<1>11. IsFiniteSet(heap') /\ stacks' = Cardinality(WithStack')
  BY <1>2, <1>7, FS_AddElement DEF IInv
<1> QED BY <1>1, <1>5, <1>7, <1>9, <1>10, <1>11, SpawnStep

LEMMA SpawnNoStackInv ==
  ASSUME IInv, NEW c \in CPUs, SpawnNoStack(c)
  PROVE  IInv'
<1> DEFINE r == running[c]
           x == call[r].task
<1> USE DEF SpawnNoStack
<1>1. /\ TypeOK /\ ready /\ Places /\ CallsApart /\ r \in Threads /\ r \in Live
      /\ call[r].pc = "vmalloc" /\ CallSound(r)
  BY Spawner
<1>2. heap' = heap \ {x} /\ call' = [call EXCEPT ![r] = NoCall]
  OBVIOUS
<1> HIDE DEF r
<1>3. x # NULL /\ x \in heap
  BY <1>1 DEF CallSound
<1>4. /\ call' \in [Threads -> [pc : {"none", "vmalloc", "fill", "push"},
                                task : Tasks \cup {NULL}, cpu : CPUs \cup {NULL}]]
      /\ call'[r].pc = "none" /\ call'[r].task = NULL
      /\ \A t \in Threads : t # r => call'[t] = call[t]
  BY <1>1, <1>2, SMT DEF TypeOK, NoCall
<1>5. TypeOK'
  BY <1>1, <1>2, <1>4 DEF TypeOK
<1>6. Unborn' = Unborn \ {x} /\ Filled' = Filled /\ x \in Unborn
  <2>1. x \in Unborn
    BY <1>1, <1>3 DEF Unborn
  <2> QED BY <1>1, <1>3, <1>4, <2>1, UnbornStep, FilledStep
<1>7. Live' = Live /\ WithStack' = WithStack
  BY <1>2, <1>6, SMT DEF Live, WithStack
<1>8. \A t \in Threads : CallSound(t) /\ (t # r => call[t].task # x)
  BY <1>1, <1>3 DEF IInv, CallsApart
<1>9. ASSUME NEW t \in Threads PROVE CallSound(t)'
  <2>1. CASE t = r
    BY <1>4, <2>1 DEF CallSound
  <2>2. CASE t # r
    <3>1. call'[t] = call[t] /\ (call[t].pc # "none" => call[t].task \in heap')
      BY <1>2, <1>4, <1>8, <2>2 DEF CallSound
    <3> QED BY <1>7, <1>8, <3>1, SameCall
  <2> QED BY <2>1, <2>2
<1>10. CallsApart'
  BY <1>1, <1>4, SMT DEF CallsApart
<1>11. IsFiniteSet(heap') /\ stacks' = Cardinality(WithStack')
  BY <1>2, <1>7, FS_Subset DEF IInv
<1> QED BY <1>1, <1>5, <1>7, <1>9, <1>10, <1>11, SpawnStep

LEMMA SpawnStackInv ==
  ASSUME IInv, NEW c \in CPUs, SpawnStack(c)
  PROVE  IInv'
<1> DEFINE r == running[c]
           x == call[r].task
<1> USE DEF SpawnStack
<1>1. /\ TypeOK /\ ready /\ Places /\ CallsApart /\ r \in Threads /\ r \in Live
      /\ call[r].pc = "vmalloc" /\ CallSound(r)
  BY Spawner
<1>2. /\ call' = [call EXCEPT ![r] = [call[r] EXCEPT !.pc = "fill"]]
      /\ stacks' = stacks + 1
      /\ UNCHANGED <<ready, up, timer, current, runq, frame, vec, running, isr, heap>>
  OBVIOUS
<1> HIDE DEF r, SpawnStack
<1>3. x # NULL /\ x \in heap
  BY <1>1 DEF CallSound
<1>4. /\ call' \in [Threads -> [pc : {"none", "vmalloc", "fill", "push"},
                                task : Tasks \cup {NULL}, cpu : CPUs \cup {NULL}]]
      /\ call'[r].pc = "fill" /\ call'[r].task = x
      /\ \A t \in Threads : t # r => call'[t] = call[t]
  <2> DEFINE rec == [pc : {"none", "vmalloc", "fill", "push"},
                     task : Tasks \cup {NULL}, cpu : CPUs \cup {NULL}]
             new == [call[r] EXCEPT !.pc = "fill"]
  <2>1. call[r] \in rec /\ call \in [Threads -> rec]
    BY <1>1 DEF TypeOK
  <2>2. new \in rec /\ new.pc = "fill" /\ new.task = x
    BY <2>1
  <2> HIDE DEF new, rec
  <2>3. call' \in [Threads -> rec] /\ call'[r] = new
    BY <1>1, <1>2, <2>1, <2>2 DEF new
  <2> QED BY <1>1, <1>2, <2>1, <2>2, <2>3 DEF rec
<1>5. TypeOK'
  BY <1>1, <1>2, <1>4, SMT DEF TypeOK
<1>6. Unborn' = Unborn /\ Filled' = Filled \cup {x}
  BY <1>1, <1>4, UnbornStep, FilledStep
<1>7. Live' = Live /\ WithStack' = WithStack \cup {x}
  BY <1>2, <1>6 DEF Live, WithStack
<1>8. x \notin WithStack
  <2>1. x \in Unborn
    BY <1>1, <1>3 DEF Unborn
  <2>2. x \notin Filled
    BY <1>1, <1>3 DEF Filled, CallsApart
  <2> QED BY <2>1, <2>2 DEF WithStack
<1>9. ASSUME NEW t \in Threads PROVE CallSound(t)'
  <2>1. CallSound(t)
    BY DEF IInv
  <2>2. CASE t = r
    BY <1>1, <1>2, <1>3, <1>4, <1>7, <2>2 DEF CallSound
  <2>3. CASE t # r
    <3>1. call'[t] = call[t] /\ (call[t].pc # "none" => call[t].task \in heap')
      BY <1>2, <1>4, <2>1, <2>3 DEF CallSound
    <3> QED BY <1>2, <1>7, <2>1, <3>1, SameCall
  <2> QED BY <2>2, <2>3
<1>10. CallsApart'
  <2>1. \A t \in Threads : call'[t].task = call[t].task
    BY <1>4
  <2> QED BY <1>1, <2>1 DEF CallsApart
<1>11. IsFiniteSet(heap') /\ stacks' = Cardinality(WithStack')
  <2>1. IsFiniteSet(WithStack)
    BY <1>1, StacksInHeap DEF IInv
  <2>2. Cardinality(WithStack \cup {x}) = Cardinality(WithStack) + 1
    <3> HIDE DEF x
    <3> QED BY <2>1, <1>8, FS_AddElement
  <2> QED BY <1>2, <1>7, <2>2 DEF IInv
<1> QED BY <1>1, <1>2, <1>5, <1>7, <1>9, <1>10, <1>11, SpawnStep

LEMMA SpawnFillInv ==
  ASSUME IInv, NEW c \in CPUs, SpawnFill(c)
  PROVE  IInv'
<1> DEFINE r == running[c]
           x == call[r].task
<1> USE DEF SpawnFill
<1>1. /\ TypeOK /\ ready /\ Places /\ CallsApart /\ r \in Threads /\ r \in Live
      /\ call[r].pc = "fill" /\ CallSound(r) /\ Placed(r, c)
  BY Spawner
<1>2. /\ call' = [call EXCEPT ![r] = [pc |-> "push", task |-> x, cpu |-> c]]
      /\ frame' = [frame EXCEPT ![x] = x]
      /\ vec' = [vec EXCEPT ![x] = Fresh]
      /\ UNCHANGED <<ready, up, timer, current, runq, running, isr, heap, stacks>>
  BY DEF CpuSelf
<1> HIDE DEF r, SpawnFill
<1>3. x # NULL /\ x \in heap /\ x \in Tasks /\ x \in Threads
  BY <1>1 DEF CallSound, TypeOK, Threads
<1>4. /\ call' \in [Threads -> [pc : {"none", "vmalloc", "fill", "push"},
                                task : Tasks \cup {NULL}, cpu : CPUs \cup {NULL}]]
      /\ call'[r].pc = "push" /\ call'[r].task = x /\ call'[r].cpu = c
      /\ \A t \in Threads : t # r => call'[t] = call[t]
  BY <1>1, <1>2, <1>3 DEF TypeOK
<1>5. TypeOK'
  <2>1. frame' \in [Threads -> Threads \cup {NULL}] /\ vec' \in [Threads -> {TICK, RESCHED, Fresh}]
    BY <1>1, <1>2, <1>3 DEF TypeOK
  <2> QED BY <1>1, <1>2, <1>4, <2>1 DEF TypeOK
<1>6. Unborn' = Unborn /\ Filled' = Filled
  BY <1>1, <1>3, <1>4, UnbornStep, FilledStep
<1>7. Live' = Live /\ WithStack' = WithStack
  BY <1>2, <1>6 DEF Live, WithStack
<1>8. x \notin Live
  <2>1. x \in Unborn
    BY <1>1, <1>3 DEF Unborn
  <2> QED BY <1>3, <2>1, SchedAssumption DEF Live
<1>9. /\ frame'[x] = x
      /\ \A y \in Threads : y # x => frame'[y] = frame[y] /\ vec'[y] = vec[y]
  BY <1>1, <1>2, <1>3 DEF TypeOK
<1>10. ASSUME NEW t \in Threads PROVE CallSound(t)'
  <2>1. CallSound(t) /\ \A d : Placed(t, d)' <=> Placed(t, d)
    BY <1>2 DEF IInv, Placed, Queued
  <2>2. CASE t = r
    BY <1>1, <1>2, <1>3, <1>4, <1>7, <1>9, <2>1, <2>2 DEF CallSound
  <2>3. CASE t # r
    <3>1. /\ call'[t] = call[t]
          /\ call[t].pc # "none" => /\ call[t].task \in heap' /\ call[t].task \in Threads
                                    /\ call[t].task # x
      BY <1>1, <1>2, <1>3, <1>4, <2>1, <2>3 DEF CallSound, CallsApart, TypeOK, Threads
    <3>2. call[t].pc = "push" => frame'[call[t].task] = frame[call[t].task]
      BY <1>9, <3>1
    <3> QED BY <1>2, <1>7, <2>1, <3>1, <3>2, SameCall
  <2> QED BY <2>2, <2>3
<1>11. CallsApart'
  <2>1. \A t \in Threads : call'[t].task = call[t].task
    BY <1>4
  <2> QED BY <1>1, <2>1 DEF CallsApart
<1>12. IsFiniteSet(heap') /\ stacks' = Cardinality(WithStack')
  BY <1>2, <1>7 DEF IInv
<1> QED BY <1>1, <1>2, <1>5, <1>7, <1>8, <1>9, <1>10, <1>11, <1>12, SpawnStep

\* The push adds the new task to the queue of the CPU the caller runs on,
\* although cpu_self() was read earlier.
LEMMA SpawnPushInv ==
  ASSUME IInv, NEW c \in CPUs, SpawnPush(c)
  PROVE  IInv'
<1> DEFINE r == running[c]
           x == call[r].task
<1> USE DEF SpawnPush
<1>1. /\ TypeOK /\ ready /\ Places /\ CallsApart /\ r \in Threads /\ r \in Live
      /\ call[r].pc = "push" /\ CallSound(r) /\ Placed(r, c)
  BY Spawner
<1>2. call[r].cpu = c
  BY <1>1 DEF CallSound, Places
<1>3. /\ call' = [call EXCEPT ![r] = NoCall]
      /\ runq' = [runq EXCEPT ![c] = Append(@, x)]
      /\ UNCHANGED <<ready, up, timer, current, frame, vec, running, isr, heap, stacks>>
  BY <1>2
<1> HIDE DEF r, SpawnPush
<1>4. x # NULL /\ x \in heap /\ x \in Tasks /\ x \in Threads /\ frame[x] = x
  BY <1>1 DEF CallSound, TypeOK, Threads
<1>5. /\ call' \in [Threads -> [pc : {"none", "vmalloc", "fill", "push"},
                                task : Tasks \cup {NULL}, cpu : CPUs \cup {NULL}]]
      /\ call'[r].pc = "none" /\ call'[r].task = NULL
      /\ \A t \in Threads : t # r => call'[t] = call[t]
  BY <1>1, <1>3 DEF TypeOK, NoCall
<1>6. Unborn' = Unborn \ {x} /\ Filled' = Filled \ {x} /\ x \in Unborn /\ x \in Filled
  <2>1. x \in Unborn /\ x \in Filled
    BY <1>1, <1>4 DEF Unborn, Filled
  <2> QED BY <1>1, <1>4, <1>5, <2>1, UnbornStep, FilledStep
<1>7. /\ WithStack' = WithStack
      /\ \A t \in Threads : t \in Live' <=> t \in Live \/ t = x
      /\ x \notin Live
  <2>1. x \notin Live
    BY <1>4, <1>6, SchedAssumption DEF Live
  <2> QED BY <1>3, <1>4, <1>6, <2>1 DEF Live, WithStack
<1>8. \A d \in CPUs : current[d] # x /\ x \notin Queued(d)
  BY <1>1, <1>4, <1>7 DEF Places, Placed
<1>9. /\ Append(runq[c], x) \in Seq(Threads) /\ IsInjective(Append(runq[c], x))
      /\ Range(Append(runq[c], x)) = Range(runq[c]) \cup {x}
  <2>1. /\ runq[c] \in Seq(Threads) /\ IsInjective(runq[c])
        /\ x \in Threads /\ x \notin Range(runq[c])
    BY <1>1, <1>4, <1>8 DEF TypeOK, Places, Queued
  <2> HIDE DEF x
  <2> QED BY <2>1, PushQueue, SMT
<1>10. /\ runq' \in [CPUs -> Seq(Threads)] /\ runq'[c] = Append(runq[c], x)
       /\ \A d \in CPUs : d # c => runq'[d] = runq[d]
  BY <1>1, <1>3, <1>9 DEF TypeOK
<1>11. TypeOK'
  BY <1>1, <1>3, <1>5, <1>10 DEF TypeOK
<1>12. Queued(c)' = Queued(c) \cup {x} /\ \A d \in CPUs : d # c => Queued(d)' = Queued(d)
  BY <1>9, <1>10 DEF Queued
<1>13. \A t \in Threads, d \in CPUs : Placed(t, d)' <=> Placed(t, d) \/ (t = x /\ d = c)
  BY <1>3, <1>12 DEF Placed
<1>14. Places'
  <2>1. \A t \in Threads : (t \in Live)' <=> \E d \in CPUs : Placed(t, d)'
    BY <1>1, <1>7, <1>13 DEF Places
  <2>2. \A d, e \in CPUs, t \in Threads : Placed(t, d)' /\ Placed(t, e)' => d = e
    <3>1. \A d \in CPUs : ~Placed(x, d)
      BY <1>8 DEF Placed
    <3> QED BY <1>1, <1>13, <3>1, SMT DEF Places
  <2>3. ASSUME NEW d \in CPUs
        PROVE  current'[d] \in Threads /\ current'[d] \notin Queued(d)' /\ IsInjective(runq'[d])
    <3>1. CASE d = c
      BY <1>1, <1>3, <1>8, <1>9, <1>10, <1>12, <3>1 DEF Places
    <3>2. CASE d # c
      BY <1>1, <1>3, <1>10, <1>12, <3>2, SMT DEF Places
    <3> QED BY <3>1, <3>2
  <2> QED BY <2>1, <2>2, <2>3 DEF Places
<1>15. ASSUME NEW d \in CPUs PROVE Context(d)'
  <2>1. Context(d)
    BY DEF IInv
  <2>2. \A t \in Queued(d)' : frame'[t] = t
    BY <1>3, <1>4, <1>12, <2>1 DEF Context
  <2> QED BY <1>3, <2>1, <2>2 DEF Context
<1>16. ASSUME NEW t \in Threads PROVE CallSound(t)'
  <2>1. CallSound(t)
    BY DEF IInv
  <2>2. CASE t = r
    BY <1>5, <2>2 DEF CallSound
  <2>3. CASE t # r
    <3>1. call'[t] = call[t] /\ (t \in Live => t \in Live')
      BY <1>5, <1>7, <2>3
    <3>2. \A d \in CPUs : Placed(t, d) => Placed(t, d)'
      BY <1>13
    <3>3. ASSUME call[t].pc = "push"
          PROVE  call'[t].cpu \in CPUs /\ (Placed(t, call[t].cpu))'
      <4>1. call[t].cpu \in CPUs /\ Placed(t, call[t].cpu)
        BY <2>1, <3>3 DEF CallSound
      <4> QED BY <1>3, <1>12, <3>1, <4>1 DEF Placed
    <3>4. heap' = heap /\ frame' = frame
      BY <1>3
    <3>5. call'[t].pc = "none" <=> call'[t].task = NULL
      BY <2>1, <3>1 DEF CallSound
    <3>6. call'[t].pc # "none" => call'[t].task \in heap' /\ t \in Live'
      BY <2>1, <3>1, <3>4 DEF CallSound
    <3>7. ASSUME call'[t].pc = "push"
          PROVE  /\ call'[t].cpu \in CPUs /\ Placed(t, call[t].cpu)'
                 /\ frame'[call'[t].task] = call'[t].task
      BY <2>1, <3>1, <3>3, <3>4, <3>7 DEF CallSound
    <3> QED BY <3>1, <3>5, <3>6, <3>7 DEF CallSound
  <2> QED BY <2>2, <2>3
<1>17. CallsApart'
  BY <1>1, <1>5, SMT DEF CallsApart
<1> QED BY <1>1, <1>3, <1>7, <1>11, <1>14, <1>15, <1>16, <1>17 DEF IInv

-----------------------------------------------------------------------------
LEMMA StutterInv == IInv /\ UNCHANGED vars => IInv'
<1> SUFFICES ASSUME IInv, UNCHANGED vars PROVE IInv'
  OBVIOUS
<1> USE DEF vars
<1>1. CASE ready
  <2>1. TypeOK'
    BY DEF IInv, TypeOK
  <2>2. \A c \in CPUs : Context(c)'
    BY DEF IInv, Context, Queued
  <2> QED BY <1>1, <2>1, <2>2, ContextStep
<1>2. CASE ~ready
  <2>1. TypeOK' /\ Cold' /\ IsFiniteSet(heap') /\ ~ready'
    BY <1>2 DEF IInv, TypeOK, Cold
  <2>2. \A c \in CPUs : Context(c)'
    BY DEF IInv, Context, Queued
  <2>3. CallsApart' /\ WithStack' = WithStack /\ stacks' = Cardinality(WithStack')
    BY SameThreads DEF IInv
  <2>4. \A t \in Threads : CallSound(t)'
    BY <2>1, SMT DEF Cold, CallSound, NoCall
  <2> QED BY <2>1, <2>2, <2>3, <2>4 DEF IInv
<1> QED BY <1>1, <1>2

LEMMA NextInv == IInv /\ [Next]_vars => IInv'
<1> SUFFICES ASSUME IInv, [Next]_vars PROVE IInv'
  OBVIOUS
<1>1. CASE SchedInit
  BY <1>1, SchedInitInv
<1>2. ASSUME NEW c \in CPUs, SchedApInit(c) \/ Sti(c) \/ Handle(c) PROVE IInv'
  BY <1>2, SchedApInitInv, StiInv, HandleInv
<1>3. ASSUME NEW c \in CPUs, Spawn(c) PROVE IInv'
  BY <1>3, SpawnKmallocInv, SpawnNoStackInv, SpawnStackInv, SpawnFillInv, SpawnPushInv DEF Spawn
<1>4. ASSUME NEW c \in CPUs, NEW v \in {TICK, RESCHED}, Interrupt(c, v) PROVE IInv'
  BY <1>4, InterruptInv
<1>5. CASE UNCHANGED vars
  BY <1>5, StutterInv
<1> QED BY <1>1, <1>2, <1>3, <1>4, <1>5 DEF Next

\* The queues, the stacks and the spawn calls fit together in every state.
THEOREM Invariance == Spec => []IInv
<1> QED BY InitInv, NextInv, PTL DEF Spec

\* The state is well typed, and every thread the scheduler has been given is
\* the current thread of one CPU or once on one run queue.
THEOREM EveryThreadOnce == Spec => []OnePlace
<1>1. IInv => OnePlace
  <2> SUFFICES ASSUME IInv PROVE OnePlace
    OBVIOUS
  <2>1. TypeOK /\ (ready => Places)
    BY DEF IInv
  <2>2. ASSUME ready, NEW c \in CPUs, NEW d \in CPUs, c # d
        PROVE  ({current[c]} \cup Queued(c)) \cap ({current[d]} \cup Queued(d)) = {}
    <3>1. \A t \in ({current[c]} \cup Queued(c)) : t \in Threads /\ Placed(t, c)
      BY <2>1, <2>2, SMT DEF Places, Placed, TypeOK, Queued, Range
    <3>2. \A t \in ({current[d]} \cup Queued(d)) : Placed(t, d)
      BY DEF Placed
    <3> QED BY <2>1, <2>2, <3>1, <3>2 DEF Places
  <2> QED BY <2>1, <2>2 DEF OnePlace, Places, Placed
<1> QED BY <1>1, Invariance, PTL

\* A CPU that schedules executes on the stack of its current thread, in and
\* out of the interrupt handler, unless the first switch to a new thread made
\* it lose its stack; a waiting thread will be resumed from its own frame.
THEOREM OwnStack == Spec => []StackIsCurrents
<1>1. IInv => StackIsCurrents
  <2> SUFFICES ASSUME IInv, NEW c \in CPUs, up[c] # "off"
               PROVE  /\ isr[c].pc = "none" /\ running[c] # NULL => running[c] = current[c]
                      /\ isr[c].pc # "none" => isr[c].f = current[c]
                      /\ running[c] = NULL => vec[current[c]] = Fresh
                      /\ \A t \in Queued(c) : frame[t] = t
    BY DEF StackIsCurrents
  <2>1. ready /\ Context(c)
    BY DEF IInv, Cold
  <2> QED BY <2>1 DEF Context
<1> QED BY <1>1, Invariance, PTL

\* sched_spawn pushes on the queue of the CPU it runs on, although it may have
\* been preempted since it read cpu_self().
THEOREM PushedAtHome == Spec => []SpawnsAtHome
<1>1. IInv => SpawnsAtHome
  BY DEF IInv, CallSound, SpawnsAtHome, Placed
<1> QED BY <1>1, Invariance, PTL

\* The error paths of sched_spawn leak no structure and no stack.
THEOREM NoLeak == Spec => []NothingLeaked
<1>1. IInv => NothingLeaked
  <2> SUFFICES ASSUME IInv PROVE NothingLeaked
    OBVIOUS
  <2>1. Unborn \subseteq heap
    BY StacksInHeap DEF IInv
  <2> QED BY <2>1 DEF IInv, NothingLeaked, CallsApart, WithStack, Filled
<1> QED BY <1>1, Invariance, PTL

-----------------------------------------------------------------------------
(* Threads never migrate.                                                  *)

\* No step takes a thread off the CPU that has it.
StaysHome == \A t \in Threads, c \in CPUs : ready /\ Placed(t, c) => Placed(t, c)'

\* A thread sched_spawn has put on a CPU, and the bootstrap thread of a CPU,
\* stay on that CPU for ever: what sched_spawn relies on when it uses a CPU it
\* has read before it was preempted.
THEOREM NoMigration == Spec => [][StaysHome]_vars
<1>1. IInv /\ [Next]_vars => StaysHome \/ UNCHANGED vars
  <2> SUFFICES ASSUME IInv, Next, NEW t \in Threads, NEW d \in CPUs, ready, Placed(t, d)
               PROVE  Placed(t, d)'
    BY DEF StaysHome
  <2>1. TypeOK /\ Places
    BY DEF IInv
  <2>2. ASSUME UNCHANGED <<current, runq>> PROVE Placed(t, d)'
    BY <2>2 DEF Placed, Queued
  <2>3. CASE SchedInit
    BY <2>3 DEF SchedInit
  <2>4. ASSUME NEW c \in CPUs, SchedApInit(c) PROVE Placed(t, d)'
    <3>1. current[c] # NULL
      BY <2>1, SchedAssumption DEF Places
    <3>2. current' = current /\ runq' = runq
      BY <2>1, <2>4, <3>1 DEF SchedApInit, TypeOK
    <3> QED BY <2>2, <3>2
  <2>5. ASSUME NEW c \in CPUs, isr[c].pc # "none", NEW pc \in {"resched", "return"},
               SchedOnTick(c, isr[c].f, pc)
        PROVE  Placed(t, d)'
    <3>1. /\ \A e \in CPUs : e # c => current'[e] = current[e] /\ runq'[e] = runq[e]
          /\ \/ current' = current /\ runq' = runq
             \/ /\ runq[c] # <<>>
                /\ current'[c] = Head(runq[c])
                /\ runq'[c] = Append(Tail(runq[c]), current[c])
      BY <2>5, TickShape, SMT
    <3>2. CASE current' = current /\ runq' = runq
      BY <2>2, <3>2
    <3>3. CASE /\ runq[c] # <<>>
               /\ current'[c] = Head(runq[c])
               /\ runq'[c] = Append(Tail(runq[c]), current[c])
      BY <2>1, <3>1, <3>3, SwitchPlaces
    <3> QED BY <3>1, <3>2, <3>3
  <2>6. ASSUME NEW c \in CPUs, NEW pc, Skip(c, pc) PROVE Placed(t, d)'
    BY <2>2, <2>6 DEF Skip
  <2>7. ASSUME NEW c \in CPUs, Handle(c) PROVE Placed(t, d)'
    <3>1. CASE IsrTick(c)
      BY <2>5, <2>6, <3>1 DEF IsrTick
    <3>2. CASE IsrResched(c)
      BY <2>5, <2>6, <3>2 DEF IsrResched
    <3>3. CASE IsrReturn(c)
      BY <2>2, <3>3 DEF IsrReturn
    <3> QED BY <2>7, <3>1, <3>2, <3>3 DEF Handle
  <2>8. ASSUME NEW c \in CPUs, SpawnPush(c) PROVE Placed(t, d)'
    <3> DEFINE k == call[running[c]].cpu
               x == call[running[c]].task
    <3>1. k \in CPUs /\ current' = current /\ runq' = [runq EXCEPT ![k] = Append(@, x)]
      BY <2>8, Spawner DEF SpawnPush, CallSound
    <3>2. Append(runq[k], x) \in Seq(Threads \cup {x}) /\ runq[k] \in Seq(Threads \cup {x})
      BY <2>1, <3>1, SMT DEF TypeOK
    <3> HIDE DEF k, x
    <3>3. Range(runq[k]) \subseteq Range(Append(runq[k], x))
      BY <3>2, SMT DEF Range
    <3>4. Queued(d) \subseteq Queued(d)'
      BY <2>1, <3>1, <3>3 DEF Queued, TypeOK
    <3> QED BY <3>1, <3>4 DEF Placed
  <2>9. ASSUME NEW c \in CPUs, Sti(c) \/ Spawn(c) PROVE Placed(t, d)'
    <3>1. CASE Sti(c)
      BY <2>2, <3>1 DEF Sti
    <3>2. CASE SpawnKmalloc(c)
      BY <2>2, <3>2 DEF SpawnKmalloc
    <3>3. CASE SpawnNoStack(c)
      BY <2>2, <3>3 DEF SpawnNoStack
    <3>4. CASE SpawnStack(c)
      BY <2>2, <3>4 DEF SpawnStack
    <3>5. CASE SpawnFill(c)
      BY <2>2, <3>5 DEF SpawnFill
    <3> QED BY <2>8, <2>9, <3>1, <3>2, <3>3, <3>4, <3>5 DEF Spawn
  <2>10. ASSUME NEW c \in CPUs, NEW v \in {TICK, RESCHED}, Interrupt(c, v) PROVE Placed(t, d)'
    BY <2>2, <2>10 DEF Interrupt
  <2> QED BY <2>3, <2>4, <2>7, <2>9, <2>10 DEF Next
<1> QED BY <1>1, Invariance, PTL DEF Spec
============================================================================
