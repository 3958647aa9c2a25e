--------------------------- MODULE SpinlockProofs ---------------------------
(***************************************************************************)
(* Proofs about the spin locks, for any number of CPUs and any subset of   *)
(* the kernel's locks.                                                     *)
(***************************************************************************)
EXTENDS Spinlock, TLAPS

\* A leaf is for Zenon unless it names another prover.
USE Zenon

\* The order in which the kernel nests its locks is a strict partial order
\* that contains the direct nestings.
LEMMA Order ==
  /\ \A a, b, c : <<a, b>> \in LockOrder /\ <<b, c>> \in LockOrder => <<a, c>> \in LockOrder
  /\ \A a, b : <<a, b>> \in LockOrder => <<b, a>> \notin LockOrder
  /\ \A a, b : <<a, b>> \in Calls => <<a, b>> \in LockOrder
BY DEF LockOrder, Calls

\* A thread and the handler of a CPU are different contexts.
LEMMA ContextFacts ==
  /\ \A x \in Contexts : x[1] \in CPUs /\ x[2] \in {"thread", "isr"}
  /\ \A x \in Contexts : x = Thread(x[1]) \/ x = Isr(x[1])
  /\ \A x \in Contexts : x[2] = "thread" <=> x = Thread(x[1])
  /\ \A x \in Contexts : x[2] = "isr" <=> x = Isr(x[1])
  /\ \A c \in CPUs : Thread(c) \in Contexts /\ Isr(c) \in Contexts
  /\ \A c, d : Thread(c) # Isr(d) /\ Thread(c)[1] = c /\ Isr(c)[1] = c
  /\ \A c : Thread(c)[2] = "thread" /\ Isr(c)[2] = "isr"
BY SMT DEF Contexts, Thread, Isr

-----------------------------------------------------------------------------
(* The inductive invariant.                                                *)

Calling == {"cli", "bts", "test"}

\* A call in progress names a lock the nesting allows, and "flags" is set for
\* every lock that is held or being taken.
CtxInv(x) ==
  /\ pc[x] \in Calling =>
       want[x] \in Locks /\ CanCall(x, want[x]) /\ flags[x][want[x]] # "dead"
  /\ pc[x] = "popfq" =>
       want[x] \in Locks \ inside[x] /\ flags[x][want[x]] \in {"on", "off"}
  /\ \A l \in inside[x] : flags[x][l] # "dead"

\* l is the first lock x took of those it holds.
Outermost(x, l) == l \in inside[x] /\ \A m \in inside[x] \ {l} : <<l, m>> \in LockOrder

\* What "flags" of an outermost lock holds: the flag as the CPU's boot left it,
\* or nothing, if the lock was taken by spin_lock before the flag was enabled.
SavedEnabled(c, l) ==
  \/ flags[Thread(c)][l] = enabled[c]
  \/ flags[Thread(c)][l] = "plain" /\ enabled[c] = "off"

\* "on" is saved only by the outermost call, and no handler runs from cli to popfq.
ThreadInv(c) ==
  /\ inside[Thread(c)] # {} \/ pc[Thread(c)] \in {"bts", "test", "popfq"} =>
       iflag[c] = "off" /\ pc[Isr(c)] = "idle"
  /\ pc[Thread(c)] \in Calling \cup {"popfq"} /\ flags[Thread(c)][want[Thread(c)]] = "on"
       => inside[Thread(c)] = {}
  /\ \A l \in inside[Thread(c)] : flags[Thread(c)][l] = "on" => Outermost(Thread(c), l)
  /\ pc[Thread(c)] \in {"run", "cli"} /\ inside[Thread(c)] = {} /\ pc[Isr(c)] = "idle"
       => iflag[c] = enabled[c]
  /\ pc[Thread(c)] \in Calling /\ inside[Thread(c)] = {}
       => SavedEnabled(c, want[Thread(c)])
  /\ \A l \in inside[Thread(c)] : Outermost(Thread(c), l) => SavedEnabled(c, l)
  /\ pc[Thread(c)] = "popfq" /\ inside[Thread(c)] = {}
       => flags[Thread(c)][want[Thread(c)]] = enabled[c]

\* A running handler has the flag off, and saves only that.
HandlerInv(c) ==
  /\ pc[Isr(c)] # "idle" => iflag[c] = "off" /\ enabled[c] = "on"
  /\ \A l \in Locks : flags[Isr(c)][l] # "on"
  /\ iflag[c] = "on" => enabled[c] = "on"

IInv ==
  /\ TypeOK
  /\ MutualExclusion
  /\ \A x \in Contexts : CtxInv(x)
  /\ \A c \in CPUs : ThreadInv(c) /\ HandlerInv(c)

\* The kernel starts with no lock held and interrupts off.
LEMMA InitIInv == Init => IInv
<1> SUFFICES ASSUME Init PROVE IInv
  OBVIOUS
<1> USE ContextFacts DEF Init
<1>1. TypeOK
  BY DEF TypeOK
<1>2. MutualExclusion
  BY DEF MutualExclusion
<1>3. \A x \in Contexts : CtxInv(x)
  BY DEF CtxInv, Calling
<1>4. \A c \in CPUs : ThreadInv(c) /\ HandlerInv(c)
  BY DEF ThreadInv, HandlerInv, Calling
<1> QED BY <1>1, <1>2, <1>3, <1>4 DEF IInv

\* A step leaves alone what is known of a context it does not touch.
LEMMA OtherContext ==
  ASSUME NEW y \in Contexts, CtxInv(y),
         pc'[y] = pc[y], want'[y] = want[y], flags'[y] = flags[y], inside'[y] = inside[y]
  PROVE  CtxInv(y)'
BY DEF CtxInv, CanCall, Innermost, Calling

\* The same for a CPU.
LEMMA OtherCpu ==
  ASSUME NEW c \in CPUs, ThreadInv(c), HandlerInv(c),
         iflag'[c] = iflag[c], enabled'[c] = enabled[c],
         \A x \in {Thread(c), Isr(c)} :
           /\ pc'[x] = pc[x] /\ want'[x] = want[x]
           /\ flags'[x] = flags[x] /\ inside'[x] = inside[x]
  PROVE  ThreadInv(c)' /\ HandlerInv(c)'
<1>1. /\ pc'[Thread(c)] = pc[Thread(c)] /\ want'[Thread(c)] = want[Thread(c)]
      /\ flags'[Thread(c)] = flags[Thread(c)] /\ inside'[Thread(c)] = inside[Thread(c)]
      /\ pc'[Isr(c)] = pc[Isr(c)] /\ flags'[Isr(c)] = flags[Isr(c)]
  OBVIOUS
<1>2. ThreadInv(c)'
  BY <1>1 DEF ThreadInv, Outermost, SavedEnabled, Calling
<1>3. HandlerInv(c)'
  BY <1>1 DEF HandlerInv
<1> QED BY <1>2, <1>3

\* A step of context x leaves the contexts of other CPUs alone.
LEMMA StepFrame ==
  ASSUME IInv, NEW x \in Contexts,
         \A y \in Contexts \ {x} :
           /\ pc'[y] = pc[y] /\ want'[y] = want[y]
           /\ flags'[y] = flags[y] /\ inside'[y] = inside[y],
         \A c \in CPUs \ {x[1]} : iflag'[c] = iflag[c] /\ enabled'[c] = enabled[c]
  PROVE  /\ \A y \in Contexts \ {x} : CtxInv(y)'
         /\ \A c \in CPUs \ {x[1]} : ThreadInv(c)' /\ HandlerInv(c)'
<1>1. ASSUME NEW y \in Contexts \ {x} PROVE CtxInv(y)'
  BY OtherContext DEF IInv
<1>2. ASSUME NEW c \in CPUs \ {x[1]} PROVE ThreadInv(c)' /\ HandlerInv(c)'
  <2>1. Thread(c) \in Contexts \ {x} /\ Isr(c) \in Contexts \ {x}
    BY ContextFacts, SMT
  <2> QED BY <2>1, OtherCpu DEF IInv
<1> QED BY <1>1, <1>2

\* What remains to be shown of a step of x: its own context and its own CPU.
LEMMA StepIInv ==
  ASSUME IInv, NEW x \in Contexts,
         \A y \in Contexts \ {x} :
           /\ pc'[y] = pc[y] /\ want'[y] = want[y]
           /\ flags'[y] = flags[y] /\ inside'[y] = inside[y],
         \A c \in CPUs \ {x[1]} : iflag'[c] = iflag[c] /\ enabled'[c] = enabled[c],
         TypeOK', MutualExclusion', CtxInv(x)',
         ThreadInv(x[1])', HandlerInv(x[1])'
  PROVE  IInv'
<1>1. /\ \A y \in Contexts \ {x} : CtxInv(y)'
      /\ \A c \in CPUs \ {x[1]} : ThreadInv(c)' /\ HandlerInv(c)'
  BY StepFrame
<1> QED BY <1>1 DEF IInv

\* Entering spin_lock_irqsave: the outermost call saves the CPU's flag, a
\* nested one saves "off".
LEMMA PushfqStep ==
  ASSUME IInv, NEW x \in Contexts, NEW l \in Locks, Pushfq(x, l)
  PROVE  IInv'
<1> DEFINE c == x[1]
<1>1. /\ Active(x) /\ pc[x] = "run" /\ CanCall(x, l)
      /\ flags' = [flags EXCEPT ![x] = [@ EXCEPT ![l] = iflag[c]]]
      /\ want' = [want EXCEPT ![x] = l]
      /\ pc' = [pc EXCEPT ![x] = "cli"]
      /\ UNCHANGED <<locked, iflag, inside, enabled>>
  BY DEF Pushfq, At, Goto
<1>2. /\ TypeOK /\ MutualExclusion /\ CtxInv(x) /\ ThreadInv(c) /\ HandlerInv(c)
      /\ c \in CPUs
  BY ContextFacts DEF IInv
<1>3. /\ pc'[x] = "cli" /\ want'[x] = l /\ flags'[x][l] = iflag[c]
      /\ \A m \in Locks \ {l} : flags'[x][m] = flags[x][m]
      /\ \A y \in Contexts \ {x} : pc'[y] = pc[y] /\ want'[y] = want[y] /\ flags'[y] = flags[y]
      /\ inside[x] \subseteq Locks /\ l \notin inside[x]
      /\ iflag[c] \in {"on", "off"}
  BY <1>1, <1>2 DEF TypeOK, CanCall
<1>4. TypeOK'
  BY <1>1, <1>2 DEF TypeOK
<1>5. MutualExclusion'
  BY <1>1, <1>2 DEF MutualExclusion
<1>6. CtxInv(x)'
  <2>1. CanCall(x, l)'
    BY <1>1 DEF CanCall, Innermost
  <2> QED BY <1>1, <1>2, <1>3, <2>1 DEF CtxInv
<1>7. ThreadInv(c)' /\ HandlerInv(c)'
  <2>1. CASE x = Thread(c)
    <3>1. Isr(c) \in Contexts \ {x} /\ pc[Isr(c)] = "idle"
      BY <1>1, <1>2, <2>1, ContextFacts DEF Active
    <3>2. HandlerInv(c)'
      BY <1>1, <1>2, <1>3, <3>1 DEF HandlerInv
    <3>3. ThreadInv(c)'
      BY <1>1, <1>2, <1>3, <2>1, <3>1, SMT DEF ThreadInv, Outermost, SavedEnabled, Calling
    <3> QED BY <3>2, <3>3
  <2>2. CASE x = Isr(c)
    <3>1. Thread(c) \in Contexts \ {x}
      BY <1>2, <2>2, ContextFacts
    <3>2. HandlerInv(c)'
      BY <1>1, <1>2, <1>3, <2>2, SMT DEF HandlerInv
    <3>3. ThreadInv(c)'
      BY <1>1, <1>2, <1>3, <2>2, <3>1 DEF ThreadInv, Outermost, SavedEnabled, Calling
    <3> QED BY <3>2, <3>3
  <2> QED BY <2>1, <2>2, ContextFacts
<1> QED BY <1>1, <1>3, <1>4, <1>5, <1>6, <1>7, StepIInv

\* Entering spin_lock: a handler, or a CPU that has not enabled interrupts.
LEMMA SpinLockStep ==
  ASSUME IInv, NEW x \in Contexts, NEW l \in Locks, SpinLock(x, l)
  PROVE  IInv'
<1> DEFINE c == x[1]
<1>1. /\ Active(x) /\ pc[x] = "run" /\ CanCall(x, l)
      /\ flags' = [flags EXCEPT ![x] = [@ EXCEPT ![l] = "plain"]]
      /\ want' = [want EXCEPT ![x] = l]
      /\ pc' = [pc EXCEPT ![x] = "bts"]
      /\ UNCHANGED <<locked, iflag, inside, enabled>>
  BY DEF SpinLock, At, Goto
<1>2. /\ TypeOK /\ MutualExclusion /\ CtxInv(x) /\ ThreadInv(c) /\ HandlerInv(c)
      /\ c \in CPUs
  BY ContextFacts DEF IInv
<1>3. /\ pc'[x] = "bts" /\ want'[x] = l /\ flags'[x][l] = "plain"
      /\ \A m \in Locks \ {l} : flags'[x][m] = flags[x][m]
      /\ \A y \in Contexts \ {x} : pc'[y] = pc[y] /\ want'[y] = want[y] /\ flags'[y] = flags[y]
      /\ inside[x] \subseteq Locks /\ l \notin inside[x]
  BY <1>1, <1>2 DEF TypeOK, CanCall
<1>4. TypeOK'
  BY <1>1, <1>2 DEF TypeOK
<1>5. MutualExclusion'
  BY <1>1, <1>2 DEF MutualExclusion
<1>6. CtxInv(x)'
  <2>1. CanCall(x, l)'
    BY <1>1 DEF CanCall, Innermost
  <2> QED BY <1>1, <1>2, <1>3, <2>1 DEF CtxInv
<1>7. ThreadInv(c)' /\ HandlerInv(c)'
  <2>1. CASE x = Thread(c)
    <3>1. Isr(c) \in Contexts \ {x} /\ pc[Isr(c)] = "idle"
      BY <1>1, <1>2, <2>1, ContextFacts DEF Active
    <3>2. enabled[c] = "off"
      BY <2>1, ContextFacts, SMT DEF SpinLock, SpinLockCaller
    <3>3. iflag[c] = "off"
      BY <1>1, <1>2, <2>1, <3>1, <3>2 DEF ThreadInv
    <3>4. HandlerInv(c)'
      BY <1>1, <1>2, <1>3, <3>1 DEF HandlerInv
    <3>5. ThreadInv(c)'
      BY <1>1, <1>2, <1>3, <2>1, <3>1, <3>2, <3>3, SMT
         DEF ThreadInv, Outermost, SavedEnabled, Calling
    <3> QED BY <3>4, <3>5
  <2>2. CASE x = Isr(c)
    <3>1. Thread(c) \in Contexts \ {x}
      BY <1>2, <2>2, ContextFacts
    <3>2. HandlerInv(c)'
      BY <1>1, <1>2, <1>3, <2>2, SMT DEF HandlerInv
    <3>3. ThreadInv(c)'
      BY <1>1, <1>2, <1>3, <2>2, <3>1 DEF ThreadInv, Outermost, SavedEnabled, Calling
    <3> QED BY <3>2, <3>3
  <2> QED BY <2>1, <2>2, ContextFacts
<1> QED BY <1>1, <1>3, <1>4, <1>5, <1>6, <1>7, StepIInv

\* cli: from here to popfq the thread cannot be interrupted.
LEMMA CliStep ==
  ASSUME IInv, NEW x \in Contexts, Cli(x)
  PROVE  IInv'
<1> DEFINE c == x[1]
<1>1. /\ Active(x) /\ pc[x] = "cli"
      /\ iflag' = [iflag EXCEPT ![c] = "off"]
      /\ pc' = [pc EXCEPT ![x] = "bts"]
      /\ UNCHANGED <<locked, want, flags, inside, enabled>>
  BY DEF Cli, At, Goto
<1>2. /\ TypeOK /\ MutualExclusion /\ CtxInv(x) /\ ThreadInv(c) /\ HandlerInv(c)
      /\ c \in CPUs
  BY ContextFacts DEF IInv
<1>3. /\ pc'[x] = "bts" /\ iflag'[c] = "off"
      /\ \A y \in Contexts \ {x} : pc'[y] = pc[y]
      /\ \A d \in CPUs \ {c} : iflag'[d] = iflag[d]
  BY <1>1, <1>2 DEF TypeOK
<1>4. TypeOK'
  BY <1>1, <1>2 DEF TypeOK
<1>5. MutualExclusion'
  BY <1>1, <1>2 DEF MutualExclusion
<1>6. CtxInv(x)'
  <2>1. CanCall(x, want[x])'
    BY <1>1, <1>2 DEF CtxInv, CanCall, Innermost, Calling
  <2> QED BY <1>1, <1>2, <1>3, <2>1 DEF CtxInv, Calling
<1>7. ThreadInv(c)' /\ HandlerInv(c)'
  <2>1. CASE x = Thread(c)
    <3>1. Isr(c) \in Contexts \ {x} /\ pc[Isr(c)] = "idle"
      BY <1>1, <1>2, <2>1, ContextFacts DEF Active
    <3>2. HandlerInv(c)'
      BY <1>1, <1>2, <1>3, <3>1 DEF HandlerInv
    <3>3. ThreadInv(c)'
      BY <1>1, <1>2, <1>3, <2>1, <3>1 DEF ThreadInv, Outermost, SavedEnabled, Calling
    <3> QED BY <3>2, <3>3
  <2>2. CASE x = Isr(c)
    <3>1. Thread(c) \in Contexts \ {x}
      BY <1>2, <2>2, ContextFacts
    <3>2. HandlerInv(c)'
      BY <1>1, <1>2, <1>3, <2>2 DEF HandlerInv
    <3>3. ThreadInv(c)'
      BY <1>1, <1>2, <1>3, <2>2, <3>1 DEF ThreadInv, HandlerInv, Outermost, SavedEnabled, Calling
    <3> QED BY <3>2, <3>3
  <2> QED BY <2>1, <2>2, ContextFacts
<1> QED BY <1>1, <1>3, <1>4, <1>5, <1>6, <1>7, StepIInv

\* The spinning steps change only the program counter, between bts and test.
LEMMA SpinStep ==
  ASSUME IInv, NEW x \in Contexts, BtsBusy(x) \/ Test(x)
  PROVE  IInv'
<1> DEFINE c == x[1]
<1>1. PICK i \in {"bts", "test"} :
        /\ Active(x) /\ pc[x] \in {"bts", "test"}
        /\ pc' = [pc EXCEPT ![x] = i]
        /\ UNCHANGED <<locked, iflag, want, flags, inside, enabled>>
  BY DEF BtsBusy, Test, At, Goto
<1>2. /\ TypeOK /\ MutualExclusion /\ CtxInv(x) /\ ThreadInv(c) /\ HandlerInv(c)
      /\ c \in CPUs
  BY ContextFacts DEF IInv
<1>3. /\ pc'[x] = i
      /\ \A y \in Contexts \ {x} : pc'[y] = pc[y]
  BY <1>1, <1>2 DEF TypeOK
<1>4. TypeOK'
  BY <1>1, <1>2 DEF TypeOK
<1>5. MutualExclusion'
  BY <1>1, <1>2 DEF MutualExclusion
<1>6. CtxInv(x)'
  <2>1. CanCall(x, want[x])'
    BY <1>1, <1>2 DEF CtxInv, CanCall, Innermost, Calling
  <2> QED BY <1>1, <1>2, <1>3, <2>1 DEF CtxInv, Calling
<1>7. ThreadInv(c)' /\ HandlerInv(c)'
  <2>1. CASE x = Thread(c)
    <3>1. Isr(c) \in Contexts \ {x} /\ pc[Isr(c)] = "idle"
      BY <1>1, <1>2, <2>1, ContextFacts DEF Active
    <3>2. HandlerInv(c)'
      BY <1>1, <1>2, <1>3, <3>1 DEF HandlerInv
    <3>3. ThreadInv(c)'
      BY <1>1, <1>2, <1>3, <2>1, <3>1 DEF ThreadInv, Outermost, SavedEnabled, Calling
    <3> QED BY <3>2, <3>3
  <2>2. CASE x = Isr(c)
    <3>1. Thread(c) \in Contexts \ {x}
      BY <1>2, <2>2, ContextFacts
    <3>2. HandlerInv(c)'
      BY <1>1, <1>2, <1>3, <2>2 DEF HandlerInv
    <3>3. ThreadInv(c)'
      BY <1>1, <1>2, <1>3, <2>2, <3>1 DEF ThreadInv, Outermost, SavedEnabled, Calling
    <3> QED BY <3>2, <3>3
  <2> QED BY <2>1, <2>2, ContextFacts
<1> QED BY <1>1, <1>3, <1>4, <1>5, <1>6, <1>7, StepIInv

\* If the nesting allows l to be taken inside other locks, all of them are
\* outside l in the lock order.
LEMMA NestedCall ==
  ASSUME NEW x, NEW l, CanCall(x, l), NEW m \in inside[x]
  PROVE  <<m, l>> \in LockOrder
<1>1. PICK k \in inside[x] : Innermost(x, k) /\ <<k, l>> \in Calls
  BY DEF CanCall
<1>2. CASE m = k
  BY <1>1, <1>2, Order
<1>3. CASE m # k
  <2>1. <<m, k>> \in LockOrder
    BY <1>1, <1>3 DEF Innermost
  <2>2. <<k, l>> \in LockOrder
    BY <1>1, Order
  <2> QED BY <2>1, <2>2, Order
<1> QED BY <1>2, <1>3

\* The successful lock bts: the word was clear, so nobody was inside.
LEMMA AcquireStep ==
  ASSUME IInv, NEW x \in Contexts, BtsAcquires(x)
  PROVE  IInv'
<1> DEFINE c == x[1]
<1>0. PICK l : l = want[x]
  OBVIOUS
<1>1. /\ Active(x) /\ pc[x] = "bts" /\ ~locked[l]
      /\ locked' = [locked EXCEPT ![l] = TRUE]
      /\ inside' = [inside EXCEPT ![x] = @ \cup {l}]
      /\ want' = [want EXCEPT ![x] = "none"]
      /\ pc' = [pc EXCEPT ![x] = "run"]
      /\ UNCHANGED <<iflag, flags, enabled>>
  BY <1>0 DEF BtsAcquires, CarryClear, At, Goto
<1>2. /\ TypeOK /\ MutualExclusion /\ CtxInv(x) /\ ThreadInv(c) /\ HandlerInv(c)
      /\ c \in CPUs
  BY ContextFacts DEF IInv
<1>3. l \in Locks /\ CanCall(x, l) /\ flags[x][l] # "dead" /\ l \notin inside[x]
  BY <1>0, <1>1, <1>2 DEF CtxInv, Calling, CanCall
<1>4. /\ pc'[x] = "run" /\ inside'[x] = inside[x] \cup {l}
      /\ \A y \in Contexts \ {x} :
           pc'[y] = pc[y] /\ want'[y] = want[y] /\ inside'[y] = inside[y]
      /\ inside[x] \subseteq Locks
      /\ locked'[l] = TRUE /\ \A m \in Locks \ {l} : locked'[m] = locked[m]
  BY <1>1, <1>2, <1>3 DEF TypeOK
<1>5. TypeOK'
  BY <1>1, <1>2, <1>3 DEF TypeOK
<1>6. MutualExclusion'
  <2>1. \A y \in Contexts : l \notin inside[y]
    BY <1>1, <1>2, <1>3 DEF MutualExclusion
  <2>2. \A y, z \in Contexts : y # z => inside'[y] \cap inside'[z] = {}
    <3> SUFFICES ASSUME NEW y \in Contexts, NEW z \in Contexts, y # z
                 PROVE  inside'[y] \cap inside'[z] = {}
      OBVIOUS
    <3>1. inside[y] \cap inside[z] = {}
      BY <1>2 DEF MutualExclusion
    <3>2. CASE y = x
      BY <1>4, <2>1, <3>1, <3>2
    <3>3. CASE z = x
      BY <1>4, <2>1, <3>1, <3>3
    <3>4. CASE y # x /\ z # x
      BY <1>4, <3>1, <3>4
    <3> QED BY <3>2, <3>3, <3>4
  <2>3. \A m \in Locks : locked'[m] <=> \E y \in Contexts : m \in inside'[y]
    <3> SUFFICES ASSUME NEW m \in Locks
                 PROVE  locked'[m] <=> \E y \in Contexts : m \in inside'[y]
      OBVIOUS
    <3>1. CASE m = l
      BY <1>4, <3>1
    <3>2. CASE m # l
      <4>1. \A y \in Contexts : m \in inside'[y] <=> m \in inside[y]
        BY <1>4, <3>2
      <4> QED BY <1>2, <1>4, <3>2, <4>1, SMT DEF MutualExclusion
    <3> QED BY <3>1, <3>2
  <2> QED BY <2>2, <2>3 DEF MutualExclusion
<1>7. CtxInv(x)'
  BY <1>1, <1>2, <1>3, <1>4 DEF CtxInv, Calling
<1>8. ThreadInv(c)' /\ HandlerInv(c)'
  <2>1. CASE x = Thread(c)
    <3>1. Isr(c) \in Contexts \ {x} /\ pc[Isr(c)] = "idle"
      BY <1>1, <1>2, <2>1, ContextFacts DEF Active
    <3>2. HandlerInv(c)'
      BY <1>1, <1>2, <1>4, <3>1 DEF HandlerInv
    <3>3. \A m \in inside[x] : <<m, l>> \in LockOrder /\ <<l, m>> \notin LockOrder
      BY <1>3, NestedCall, Order
    <3>4. flags[x][l] = "on" => inside[x] = {}
      BY <1>0, <1>1, <1>2, <2>1 DEF ThreadInv, Calling
    <3>5. inside[x] = {} => SavedEnabled(c, l)
      BY <1>0, <1>1, <1>2, <2>1 DEF ThreadInv, Calling
    <3>6. Outermost(x, l)' => inside[x] = {}
      BY <1>3, <1>4, <3>3 DEF Outermost
    <3>7. \A m \in inside[x] : Outermost(x, m)' <=> Outermost(x, m)
      BY <1>3, <1>4, <3>3 DEF Outermost
    <3>8. inside[x] = {} => Outermost(x, l)'
      BY <1>4 DEF Outermost
    <3>9. \A m \in inside'[x] : flags'[x][m] = "on" => Outermost(x, m)'
      BY <1>1, <1>2, <1>4, <2>1, <3>4, <3>7, <3>8, SMT DEF ThreadInv
    <3>10. \A m \in inside'[x] : Outermost(x, m)' => SavedEnabled(c, m)'
      <4>1. \A m : SavedEnabled(c, m)' <=> SavedEnabled(c, m)
        BY <1>1 DEF SavedEnabled
      <4>2. \A m \in inside[x] : Outermost(x, m) => SavedEnabled(c, m)
        BY <1>2, <2>1 DEF ThreadInv
      <4> QED BY <1>4, <3>5, <3>6, <3>7, <4>1, <4>2
    <3>11. iflag'[c] = "off" /\ pc'[Isr(c)] = "idle" /\ pc'[Thread(c)] = "run"
      BY <1>1, <1>2, <1>4, <2>1, <3>1 DEF ThreadInv
    <3>12. inside'[Thread(c)] # {}
      BY <1>4, <2>1
    <3> QED BY <2>1, <3>2, <3>9, <3>10, <3>11, <3>12 DEF ThreadInv, Calling
  <2>2. CASE x = Isr(c)
    <3>1. Thread(c) \in Contexts \ {x}
      BY <1>2, <2>2, ContextFacts
    <3>2. HandlerInv(c)'
      BY <1>1, <1>2, <1>4, <2>2 DEF HandlerInv
    <3>3. ThreadInv(c)'
      BY <1>1, <1>2, <1>4, <2>2, <3>1 DEF ThreadInv, Outermost, SavedEnabled, Calling
    <3> QED BY <3>2, <3>3
  <2> QED BY <2>1, <2>2, ContextFacts
<1> QED BY <1>1, <1>4, <1>5, <1>6, <1>7, <1>8, StepIInv

\* Releasing a lock x is inside: the word is cleared and nobody else was inside.
LEMMA ReleaseMutex ==
  ASSUME TypeOK, MutualExclusion, NEW x \in Contexts, NEW l \in inside[x],
         locked' = [locked EXCEPT ![l] = FALSE],
         inside' = [inside EXCEPT ![x] = @ \ {l}]
  PROVE  /\ MutualExclusion'
         /\ locked' \in [Locks -> BOOLEAN] /\ inside' \in [Contexts -> SUBSET Locks]
         /\ inside'[x] = inside[x] \ {l}
         /\ \A y \in Contexts \ {x} : inside'[y] = inside[y]
<1>1. l \in Locks /\ locked' \in [Locks -> BOOLEAN] /\ inside' \in [Contexts -> SUBSET Locks]
  BY DEF TypeOK
<1>2. /\ inside'[x] = inside[x] \ {l} /\ \A y \in Contexts \ {x} : inside'[y] = inside[y]
      /\ locked'[l] = FALSE /\ \A m \in Locks \ {l} : locked'[m] = locked[m]
  BY <1>1 DEF TypeOK
<1>3. \A y, z \in Contexts : y # z => inside'[y] \cap inside'[z] = {}
  BY <1>2, SMT DEF MutualExclusion
<1>4. \A m \in Locks : locked'[m] <=> \E y \in Contexts : m \in inside'[y]
  <2> SUFFICES ASSUME NEW m \in Locks
               PROVE  locked'[m] <=> \E y \in Contexts : m \in inside'[y]
    OBVIOUS
  <2>1. CASE m = l
    <3>1. \A y \in Contexts \ {x} : l \notin inside[y]
      BY DEF MutualExclusion
    <3> QED BY <1>2, <2>1, <3>1
  <2>2. CASE m # l
    <3>1. \A y \in Contexts : m \in inside'[y] <=> m \in inside[y]
      BY <1>2, <2>2
    <3> QED BY <1>2, <2>2, <3>1, SMT DEF MutualExclusion
  <2> QED BY <2>1, <2>2
<1> QED BY <1>1, <1>2, <1>3, <1>4 DEF MutualExclusion

\* After the innermost lock is gone, the outermost ones are as before, and an
\* "on" was saved only if none is left.
LEMMA ReleaseOrder ==
  ASSUME NEW x, NEW l, Innermost(x, l), inside'[x] = inside[x] \ {l}
  PROVE  /\ \A m \in inside'[x] : Outermost(x, m)' <=> Outermost(x, m)
         /\ inside'[x] = {} => Outermost(x, l)
         /\ Outermost(x, l) => inside'[x] = {}
<1>1. \A m \in inside[x] \ {l} : <<m, l>> \in LockOrder /\ <<l, m>> \notin LockOrder
  BY Order DEF Innermost
<1> QED BY <1>1 DEF Outermost, Innermost

\* spin_unlock: the flag is not touched.
LEMMA SpinUnlockStep ==
  ASSUME IInv, NEW x \in Contexts, NEW l \in Locks, SpinUnlock(x, l)
  PROVE  IInv'
<1> DEFINE c == x[1]
<1>1. /\ Active(x) /\ pc[x] = "run" /\ Innermost(x, l) /\ l \in inside[x]
      /\ flags[x][l] = "plain"
      /\ locked' = [locked EXCEPT ![l] = FALSE]
      /\ inside' = [inside EXCEPT ![x] = @ \ {l}]
      /\ flags' = [flags EXCEPT ![x] = [@ EXCEPT ![l] = "dead"]]
      /\ UNCHANGED <<iflag, pc, want, enabled>>
  BY DEF SpinUnlock, At, Innermost
<1>2. /\ TypeOK /\ MutualExclusion /\ CtxInv(x) /\ ThreadInv(c) /\ HandlerInv(c)
      /\ c \in CPUs
  BY ContextFacts DEF IInv
<1>3. /\ MutualExclusion'
      /\ locked' \in [Locks -> BOOLEAN] /\ inside' \in [Contexts -> SUBSET Locks]
      /\ inside'[x] = inside[x] \ {l}
      /\ \A y \in Contexts \ {x} : inside'[y] = inside[y]
  BY <1>1, <1>2, ReleaseMutex
<1>4. /\ \A m \in Locks \ {l} : flags'[x][m] = flags[x][m]
      /\ \A y \in Contexts \ {x} : flags'[y] = flags[y]
      /\ flags'[x][l] = "dead"
      /\ inside[x] \subseteq Locks
  BY <1>1, <1>2 DEF TypeOK
<1>5. TypeOK'
  BY <1>1, <1>2, <1>3 DEF TypeOK
<1>6. CtxInv(x)'
  BY <1>1, <1>2, <1>3, <1>4, SMT DEF CtxInv, Calling
<1>7. ThreadInv(c)' /\ HandlerInv(c)'
  <2>1. CASE x = Thread(c)
    <3>1. Isr(c) \in Contexts \ {x} /\ pc[Isr(c)] = "idle"
      BY <1>1, <1>2, <2>1, ContextFacts DEF Active
    <3>2. HandlerInv(c)'
      BY <1>1, <1>2, <1>4, <3>1 DEF HandlerInv
    <3>3. iflag[c] = "off"
      BY <1>1, <1>2, <2>1 DEF ThreadInv
    <3>4. inside'[x] = {} => enabled[c] = "off"
      BY <1>1, <1>2, <1>3, <2>1, ReleaseOrder, SMT DEF ThreadInv, SavedEnabled, TypeOK
    <3>5. \A m \in inside'[x] : Outermost(x, m)' <=> Outermost(x, m)
      BY <1>1, <1>3, ReleaseOrder
    <3>6. \A m \in inside'[x] : m \in inside[x] /\ m \in Locks \ {l}
      BY <1>3, <1>4
    <3>7. \A m \in inside'[x] : SavedEnabled(c, m)' <=> SavedEnabled(c, m)
      BY <1>1, <1>4, <2>1, <3>6, SMT DEF SavedEnabled
    <3>8. ThreadInv(c)'
      BY <1>1, <1>2, <1>4, <2>1, <3>1, <3>3, <3>4, <3>5, <3>6, <3>7, SMT DEF ThreadInv, Calling
    <3> QED BY <3>2, <3>8
  <2>2. CASE x = Isr(c)
    <3>1. Thread(c) \in Contexts \ {x}
      BY <1>2, <2>2, ContextFacts
    <3>2. HandlerInv(c)'
      BY <1>1, <1>2, <1>4, <2>2, SMT DEF HandlerInv
    <3>3. ThreadInv(c)'
      BY <1>1, <1>2, <1>3, <1>4, <2>2, <3>1 DEF ThreadInv, Outermost, SavedEnabled, Calling
    <3> QED BY <3>2, <3>3
  <2> QED BY <2>1, <2>2, ContextFacts
<1> QED BY <1>1, <1>3, <1>4, <1>5, <1>6, <1>7, StepIInv

\* spin_unlock_irqrestore's store: the flag is still off until popfq.
LEMMA ReleaseStep ==
  ASSUME IInv, NEW x \in Contexts, NEW l \in Locks, Release(x, l)
  PROVE  IInv'
<1> DEFINE c == x[1]
<1>1. /\ Active(x) /\ pc[x] = "run" /\ Innermost(x, l) /\ l \in inside[x]
      /\ flags[x][l] # "plain"
      /\ locked' = [locked EXCEPT ![l] = FALSE]
      /\ inside' = [inside EXCEPT ![x] = @ \ {l}]
      /\ want' = [want EXCEPT ![x] = l]
      /\ pc' = [pc EXCEPT ![x] = "popfq"]
      /\ UNCHANGED <<iflag, flags, enabled>>
  BY DEF Release, At, Goto, Innermost
<1>2. /\ TypeOK /\ MutualExclusion /\ CtxInv(x) /\ ThreadInv(c) /\ HandlerInv(c)
      /\ c \in CPUs
  BY ContextFacts DEF IInv
<1>3. /\ MutualExclusion'
      /\ locked' \in [Locks -> BOOLEAN] /\ inside' \in [Contexts -> SUBSET Locks]
      /\ inside'[x] = inside[x] \ {l}
      /\ \A y \in Contexts \ {x} : inside'[y] = inside[y]
  BY <1>1, <1>2, ReleaseMutex
<1>4. /\ pc'[x] = "popfq" /\ want'[x] = l
      /\ \A y \in Contexts \ {x} : pc'[y] = pc[y] /\ want'[y] = want[y]
      /\ flags[x][l] \in {"on", "off"}
  BY <1>1, <1>2, SMT DEF TypeOK, CtxInv
<1>5. TypeOK'
  BY <1>1, <1>2, <1>3 DEF TypeOK
<1>6. CtxInv(x)'
  BY <1>1, <1>2, <1>3, <1>4 DEF CtxInv, Calling
<1>7. ThreadInv(c)' /\ HandlerInv(c)'
  <2>1. CASE x = Thread(c)
    <3>1. Isr(c) \in Contexts \ {x} /\ pc[Isr(c)] = "idle"
      BY <1>1, <1>2, <2>1, ContextFacts DEF Active
    <3>2. HandlerInv(c)'
      BY <1>1, <1>2, <1>4, <3>1 DEF HandlerInv
    <3>3. iflag[c] = "off"
      BY <1>1, <1>2, <2>1 DEF ThreadInv
    <3>4. inside'[x] = {} => flags[x][l] = enabled[c]
      BY <1>1, <1>2, <1>3, <2>1, ReleaseOrder, SMT DEF ThreadInv, SavedEnabled
    <3>5. flags[x][l] = "on" => inside'[x] = {}
      BY <1>1, <1>2, <1>3, <2>1, ReleaseOrder, SMT DEF ThreadInv
    <3>6. \A m \in inside'[x] : m \in inside[x] /\ (Outermost(x, m)' <=> Outermost(x, m))
      BY <1>1, <1>3, ReleaseOrder
    <3>7. \A m : SavedEnabled(c, m)' <=> SavedEnabled(c, m)
      BY <1>1 DEF SavedEnabled
    <3>8. ThreadInv(c)'
      BY <1>1, <1>2, <1>4, <2>1, <3>1, <3>3, <3>4, <3>5, <3>6, <3>7, SMT DEF ThreadInv, Calling
    <3> QED BY <3>2, <3>8
  <2>2. CASE x = Isr(c)
    <3>1. Thread(c) \in Contexts \ {x}
      BY <1>2, <2>2, ContextFacts
    <3>2. HandlerInv(c)'
      BY <1>1, <1>2, <1>4, <2>2 DEF HandlerInv
    <3>3. ThreadInv(c)'
      BY <1>1, <1>2, <1>3, <1>4, <2>2, <3>1 DEF ThreadInv, Outermost, SavedEnabled, Calling
    <3> QED BY <3>2, <3>3
  <2> QED BY <2>1, <2>2, ContextFacts
<1> QED BY <1>1, <1>3, <1>4, <1>5, <1>6, <1>7, StepIInv

\* popfq: interrupts come back on only when no lock is left.
LEMMA PopfqStep ==
  ASSUME IInv, NEW x \in Contexts, Popfq(x)
  PROVE  IInv'
<1> DEFINE c == x[1]
<1>0. PICK l : l = want[x]
  OBVIOUS
<1>1. /\ Active(x) /\ pc[x] = "popfq"
      /\ iflag' = [iflag EXCEPT ![c] = flags[x][l]]
      /\ flags' = [flags EXCEPT ![x] = [@ EXCEPT ![l] = "dead"]]
      /\ want' = [want EXCEPT ![x] = "none"]
      /\ pc' = [pc EXCEPT ![x] = "run"]
      /\ UNCHANGED <<locked, inside, enabled>>
  BY <1>0 DEF Popfq, RestoredFlag, At, Goto
<1>2. /\ TypeOK /\ MutualExclusion /\ CtxInv(x) /\ ThreadInv(c) /\ HandlerInv(c)
      /\ c \in CPUs
  BY ContextFacts DEF IInv
<1>3. l \in Locks \ inside[x] /\ flags[x][l] \in {"on", "off"}
  BY <1>0, <1>1, <1>2 DEF CtxInv
<1>4. /\ pc'[x] = "run" /\ iflag'[c] = flags[x][l]
      /\ \A y \in Contexts \ {x} : pc'[y] = pc[y] /\ want'[y] = want[y] /\ flags'[y] = flags[y]
      /\ \A m \in Locks \ {l} : flags'[x][m] = flags[x][m]
      /\ \A d \in CPUs \ {c} : iflag'[d] = iflag[d]
      /\ flags'[x][l] = "dead"
      /\ inside[x] \subseteq Locks
  BY <1>1, <1>2, <1>3 DEF TypeOK
<1>5. TypeOK'
  BY <1>1, <1>2, <1>3 DEF TypeOK
<1>6. MutualExclusion'
  BY <1>1, <1>2 DEF MutualExclusion
<1>7. CtxInv(x)'
  BY <1>1, <1>2, <1>3, <1>4, SMT DEF CtxInv, Calling
<1>8. ThreadInv(c)' /\ HandlerInv(c)'
  <2>1. CASE x = Thread(c)
    <3>1. Isr(c) \in Contexts \ {x} /\ pc[Isr(c)] = "idle"
      BY <1>1, <1>2, <2>1, ContextFacts DEF Active
    <3>2. inside[x] # {} => iflag'[c] = "off"
      BY <1>0, <1>1, <1>2, <1>3, <1>4, <2>1 DEF ThreadInv, Calling
    <3>3. inside[x] = {} => iflag'[c] = enabled[c]
      BY <1>0, <1>1, <1>2, <1>4, <2>1 DEF ThreadInv
    <3>4. HandlerInv(c)'
      BY <1>1, <1>2, <1>4, <3>1, <3>2, <3>3 DEF HandlerInv
    <3>5. \A m \in inside[x] : SavedEnabled(c, m)' <=> SavedEnabled(c, m)
      BY <1>1, <1>3, <1>4, <2>1, SMT DEF SavedEnabled
    <3>6. \A m : Outermost(x, m)' <=> Outermost(x, m)
      BY <1>1 DEF Outermost
    <3>7. ThreadInv(c)'
      BY <1>1, <1>2, <1>3, <1>4, <2>1, <3>1, <3>2, <3>3, <3>5, <3>6, SMT DEF ThreadInv, Calling
    <3> QED BY <3>4, <3>7
  <2>2. CASE x = Isr(c)
    <3>1. Thread(c) \in Contexts \ {x}
      BY <1>2, <2>2, ContextFacts
    <3>2. iflag'[c] = "off" /\ iflag[c] = "off"
      BY <1>1, <1>2, <1>3, <1>4, <2>2 DEF HandlerInv
    <3>3. HandlerInv(c)'
      BY <1>1, <1>2, <1>3, <1>4, <2>2, <3>2, SMT DEF HandlerInv
    <3>4. ThreadInv(c)'
      BY <1>1, <1>2, <1>4, <2>2, <3>1, <3>2 DEF ThreadInv, Outermost, SavedEnabled, Calling
    <3> QED BY <3>3, <3>4
  <2> QED BY <2>1, <2>2, ContextFacts
<1> QED BY <1>1, <1>4, <1>5, <1>6, <1>7, <1>8, StepIInv

\* A handler starts: the flag was on, so the thread holds no lock.
LEMMA InterruptStep ==
  ASSUME IInv, NEW c \in CPUs, Interrupt(c)
  PROVE  IInv'
<1>1. /\ iflag[c] = "on" /\ pc[Isr(c)] = "idle"
      /\ iflag' = [iflag EXCEPT ![c] = "off"]
      /\ pc' = [pc EXCEPT ![Isr(c)] = "run"]
      /\ UNCHANGED <<locked, want, flags, inside, enabled>>
  BY DEF Interrupt, Goto
<1>2. /\ TypeOK /\ MutualExclusion /\ ThreadInv(c) /\ HandlerInv(c)
      /\ Thread(c) \in Contexts /\ Isr(c) \in Contexts /\ Thread(c) # Isr(c)
      /\ CtxInv(Thread(c)) /\ CtxInv(Isr(c))
      /\ Thread(c)[1] = c /\ Isr(c)[1] = c
  BY ContextFacts DEF IInv
<1>3. /\ pc'[Isr(c)] = "run" /\ iflag'[c] = "off"
      /\ \A y \in Contexts \ {Isr(c)} : pc'[y] = pc[y]
      /\ \A d \in CPUs \ {c} : iflag'[d] = iflag[d]
  BY <1>1, <1>2 DEF TypeOK
<1>4. TypeOK' /\ MutualExclusion'
  BY <1>1, <1>2 DEF TypeOK, MutualExclusion
<1>5. CtxInv(Isr(c))'
  BY <1>1, <1>2, <1>3 DEF CtxInv, Calling
<1>6. ThreadInv(c)'
  BY <1>1, <1>2, <1>3 DEF ThreadInv, Outermost, SavedEnabled, Calling
<1>7. HandlerInv(c)'
  BY <1>1, <1>2, <1>3 DEF HandlerInv
<1> QED BY <1>1, <1>2, <1>3, <1>4, <1>5, <1>6, <1>7, StepIInv

\* iretq: the thread it returns to was interrupted with the flag on.
LEMMA IretqStep ==
  ASSUME IInv, NEW c \in CPUs, Iretq(c)
  PROVE  IInv'
<1>1. /\ pc[Isr(c)] = "run" /\ inside[Isr(c)] = {}
      /\ iflag' = [iflag EXCEPT ![c] = "on"]
      /\ pc' = [pc EXCEPT ![Isr(c)] = "idle"]
      /\ UNCHANGED <<locked, want, flags, inside, enabled>>
  BY DEF Iretq, Goto
<1>2. /\ TypeOK /\ MutualExclusion /\ ThreadInv(c) /\ HandlerInv(c)
      /\ Thread(c) \in Contexts /\ Isr(c) \in Contexts /\ Thread(c) # Isr(c)
      /\ CtxInv(Thread(c)) /\ CtxInv(Isr(c))
      /\ Thread(c)[1] = c /\ Isr(c)[1] = c
  BY ContextFacts DEF IInv
<1>3. /\ pc'[Isr(c)] = "idle" /\ iflag'[c] = "on"
      /\ \A y \in Contexts \ {Isr(c)} : pc'[y] = pc[y]
      /\ \A d \in CPUs \ {c} : iflag'[d] = iflag[d]
      /\ enabled[c] = "on"
  BY <1>1, <1>2 DEF TypeOK, HandlerInv
<1>4. TypeOK' /\ MutualExclusion'
  BY <1>1, <1>2 DEF TypeOK, MutualExclusion
<1>5. CtxInv(Isr(c))'
  BY <1>1, <1>2, <1>3 DEF CtxInv, Calling
<1>6. ThreadInv(c)'
  BY <1>1, <1>2, <1>3 DEF ThreadInv, Outermost, SavedEnabled, Calling
<1>7. HandlerInv(c)'
  BY <1>1, <1>2, <1>3 DEF HandlerInv
<1> QED BY <1>1, <1>2, <1>3, <1>4, <1>5, <1>6, <1>7, StepIInv

\* The boot-time sti is executed outside every critical section.
LEMMA StiStep ==
  ASSUME IInv, NEW c \in CPUs, Sti(c)
  PROVE  IInv'
<1>1. /\ pc[Thread(c)] = "run" /\ inside[Thread(c)] = {} /\ enabled[c] = "off"
      /\ iflag' = [iflag EXCEPT ![c] = "on"]
      /\ enabled' = [enabled EXCEPT ![c] = "on"]
      /\ UNCHANGED <<locked, pc, want, flags, inside>>
  BY DEF Sti, At
<1>2. /\ TypeOK /\ MutualExclusion /\ ThreadInv(c) /\ HandlerInv(c)
      /\ Thread(c) \in Contexts /\ Isr(c) \in Contexts /\ Thread(c) # Isr(c)
      /\ CtxInv(Thread(c)) /\ CtxInv(Isr(c))
      /\ Thread(c)[1] = c /\ Isr(c)[1] = c
  BY ContextFacts DEF IInv
<1>3. /\ enabled'[c] = "on" /\ iflag'[c] = "on" /\ pc[Isr(c)] = "idle"
      /\ \A d \in CPUs \ {c} : iflag'[d] = iflag[d] /\ enabled'[d] = enabled[d]
  BY <1>1, <1>2 DEF TypeOK, HandlerInv
<1>4. TypeOK' /\ MutualExclusion'
  BY <1>1, <1>2 DEF TypeOK, MutualExclusion
<1>5. CtxInv(Thread(c))'
  BY <1>1, <1>2 DEF CtxInv, Calling
<1>6. ThreadInv(c)'
  BY <1>1, <1>2, <1>3 DEF ThreadInv, Outermost, SavedEnabled, Calling
<1>7. HandlerInv(c)'
  BY <1>1, <1>2, <1>3 DEF HandlerInv
<1> QED BY <1>1, <1>2, <1>3, <1>4, <1>5, <1>6, <1>7, StepIInv

\* Every step keeps the invariant.
LEMMA NextIInv == IInv /\ [Next]_vars => IInv'
<1> SUFFICES ASSUME IInv, [Next]_vars PROVE IInv'
  OBVIOUS
<1>1. ASSUME NEW x \in Contexts, Call(x) PROVE IInv'
  BY <1>1, PushfqStep, SpinLockStep DEF Call
<1>2. ASSUME NEW x \in Contexts, Step(x) PROVE IInv'
  BY <1>2, CliStep, AcquireStep, SpinStep, PopfqStep, SpinUnlockStep, ReleaseStep DEF Step
<1>3. ASSUME NEW c \in CPUs, Interrupt(c) \/ Iretq(c) \/ Sti(c) PROVE IInv'
  BY <1>3, InterruptStep, IretqStep, StiStep
<1>4. CASE UNCHANGED vars
  <2>1. TypeOK' /\ MutualExclusion'
    BY <1>4 DEF IInv, TypeOK, MutualExclusion, vars
  <2>2. \A x \in Contexts : CtxInv(x)'
    BY <1>4, OtherContext DEF IInv, vars
  <2>3. \A c \in CPUs : ThreadInv(c)' /\ HandlerInv(c)'
    BY <1>4, OtherCpu DEF IInv, vars
  <2> QED BY <2>1, <2>2, <2>3 DEF IInv
<1> QED BY <1>1, <1>2, <1>3, <1>4 DEF Next

-----------------------------------------------------------------------------
(* The theorems.                                                           *)

\* The inductive invariant holds throughout.
THEOREM Invariance == Spec => []IInv
BY InitIInv, NextIInv, PTL DEF Spec

\* The variables keep their types.
THEOREM TypeCorrect == Spec => []TypeOK
<1>1. IInv => TypeOK
  BY DEF IInv
<1> QED BY Invariance, <1>1, PTL

\* spin_lock and spin_lock_irqsave give mutual exclusion between all contexts
\* of all CPUs, and the lock word says whether the lock is held.
THEOREM LocksExclude == Spec => []MutualExclusion
<1>1. IInv => MutualExclusion
  BY DEF IInv
<1> QED BY Invariance, <1>1, PTL

\* No handler starts on a CPU whose thread is in a critical section, however
\* deeply the irqsave sections nest.
THEOREM HeldMeansMasked == Spec => []NoIrqWhileHeld
<1>1. IInv => NoIrqWhileHeld
  BY DEF IInv, ThreadInv, NoIrqWhileHeld
<1> QED BY Invariance, <1>1, PTL

\* Leaving the outermost irqsave section restores the interrupt flag the CPU
\* was running with.
THEOREM InterruptsRestored == Spec => []IrqStateRestored
<1>1. IInv => IrqStateRestored
  BY ContextFacts, SMT DEF IInv, ThreadInv, IrqStateRestored, At, Active
<1> QED BY Invariance, <1>1, PTL
=============================================================================
