----------------------------- MODULE NvmeProofs -----------------------------
(***************************************************************************)
(* Proofs about the NVMe driver, drivers/block/nvme.c, for rings of any    *)
(* depth, any number of threads and any machine it starts on: the rings    *)
(* are sound, and the driver implements a block device.                    *)
(***************************************************************************)
EXTENDS Nvme, FiniteSetTheorems, WellFoundedInduction, TLAPS

\* A leaf is for Zenon unless it names another prover.
USE Zenon

-----------------------------------------------------------------------------
(* Arithmetic and sets.                                                    *)

\* A set of natural numbers that is not empty has a smallest element.
LEMMA SmallestOf ==
  ASSUME NEW T, T \subseteq Nat, T # {}
  PROVE  \E x \in T : \A y \in T : x <= y
<1>1. IsWellFoundedOn(OpToRel(<,Nat), Nat)
  BY NatLessThanWellFounded
<1>2. \E x \in T : \A y \in T : ~(<<y, x>> \in OpToRel(<,Nat))
  BY <1>1, WFMin
<1>3. \A x, y \in Nat : y < x => <<y, x>> \in OpToRel(<,Nat)
  BY DEF OpToRel
<1>4. \E x \in T : \A y \in T : ~(y < x)
  BY <1>2, <1>3
<1> QED BY <1>4, SMT

\* pmm_alloc_page gives a page the page manager has.
LEMMA LowestIs ==
  ASSUME NEW S, S \subseteq Nat, S # {}
  PROVE  Lowest(S) \in S
BY SmallestOf DEF Lowest

\* The entry of a ring after entry i, and the phase a reader or writer that
\* goes on to it has then.
Step(i, d) == IF i + 1 = d THEN 0 ELSE i + 1
StepPhase(i, phase, d) == IF i + 1 = d THEN Flip(phase) ELSE phase

\* A number is at most one round ahead of the ring.
LEMMA ModIs ==
  ASSUME NEW d \in Nat, d > 0, NEW x \in 0 .. 2 * d - 1
  PROVE  x % d = IF x < d THEN x ELSE x - d
<1>1. CASE x < d
  <2>1. x = 0 * d + x
    BY SMT
  <2> QED BY <1>1, SMT
<1>2. CASE ~(x < d)
  <2>1. x - d \in 0 .. d - 1 /\ x = (x - d) + d
    BY <1>2, SMT
  <2> QED BY <1>2, <2>1, SMT
<1> QED BY <1>1, <1>2

\* Going round a ring, without the modulus.
LEMMA RoundIs ==
  ASSUME NEW d \in Nat, d > 0, NEW i \in 0 .. d - 1
  PROVE  /\ After(i, d) = Step(i, d) /\ Step(i, d) \in 0 .. d - 1
         /\ \A j \in 0 .. d - 1 : /\ Span(i, j, d) = IF i <= j THEN j - i ELSE j - i + d
                                  /\ Span(i, j, d) \in 0 .. d - 1
         /\ \A n \in 0 .. d : /\ (i + n) % d = IF i + n < d THEN i + n ELSE i + n - d
                              /\ (i + n) % d \in 0 .. d - 1
<1>1. \A x \in 0 .. 2 * d - 1 : x % d = IF x < d THEN x ELSE x - d
  BY ModIs
<1>2. After(i, d) = Step(i, d) /\ Step(i, d) \in 0 .. d - 1
  <2>1. i + 1 \in 0 .. 2 * d - 1
    BY SMT
  <2>2. (i + 1) % d = IF i + 1 < d THEN i + 1 ELSE i + 1 - d
    BY <1>1, <2>1, SMT
  <2> QED BY <2>2, SMT DEF After, Step
<1>3. ASSUME NEW j \in 0 .. d - 1
      PROVE  /\ Span(i, j, d) = IF i <= j THEN j - i ELSE j - i + d
             /\ Span(i, j, d) \in 0 .. d - 1
  <2>1. j - i + d \in 0 .. 2 * d - 1
    BY SMT
  <2>2. (j - i + d) % d = IF j - i + d < d THEN j - i + d ELSE j - i + d - d
    BY <1>1, <2>1, SMT
  <2> QED BY <2>2, SMT DEF Span
<1>4. ASSUME NEW n \in 0 .. d
      PROVE  /\ (i + n) % d = IF i + n < d THEN i + n ELSE i + n - d
             /\ (i + n) % d \in 0 .. d - 1
  <2>1. i + n \in 0 .. 2 * d - 1
    BY SMT
  <2>2. (i + n) % d = IF i + n < d THEN i + n ELSE i + n - d
    BY <1>1, <2>1, SMT
  <2> QED BY <2>2, SMT
<1> QED BY <1>2, <1>3, <1>4

\* Sets that correspond one to one are of the same size.
LEMMA SameSize ==
  ASSUME NEW S, NEW T, IsFiniteSet(S), NEW f \in [S -> T],
         \A x, y \in S : f[x] = f[y] => x = y,
         \A y \in T : \E x \in S : f[x] = y
  PROVE  IsFiniteSet(T) /\ Cardinality(T) = Cardinality(S)
<1>1. f \in Bijection(S, T)
  BY DEF Bijection, Injection, Surjection, IsInjective
<1>2. ExistsBijection(S, T)
  BY <1>1 DEF ExistsBijection
<1> QED BY <1>2, FS_Bijection

-----------------------------------------------------------------------------
(* The inductive invariant.                                                *)

Phases == {0, 1}
Kinds == {"read", "write"}

\* g_nvme, and the registers and the state of the controller.
GType ==
  [ready : BOOLEAN, admin_q_depth : Nat, io_q_depth : Nat, asq_tail : Nat, acq_head : Nat,
   acq_phase : Phases, next_admin_cid : Nat, msix_enabled : BOOLEAN, iosq_tail : Nat,
   iosq_head : Nat, iocq_head : Nat, iocq_phase : Phases, next_io_cid : Nat, mdts : Nat]

\* A submission entry: what the controller is asked to do, and for whom.
Commands ==
  [cid : Nat, kind : Kinds, sector : Sectors, page : Nat \cup {NULL}, two : BOOLEAN, buf : Threads]

CtlType ==
  [mqes : 0 .. U16 - 1, mdts : Nat, msix : BOOLEAN, asq_head : Nat, asq_tail : Nat,
   acq_tail : Nat, acq_phase : Phases, sq_head : Nat, sq_tail : Nat, cq_tail : Nat,
   cq_head : Nat, cq_phase : Phases, depth : Nat, busy : SUBSET Commands]

\* Completion entries: zeroed or taken, of the admin ring, of the I/O ring.
Blank == [phase : Phases]
AdminEntries == Blank \cup [cid : Int, ok : BOOLEAN, phase : Phases]
IoEntries == Blank \cup [cid : Nat, sq_head : Nat, ok : BOOLEAN, phase : Phases]

CommandStates == [in_use : BOOLEAN, done : BOOLEAN, ok : BOOLEAN]

\* The locals of nvme_read and nvme_write.
ThreadStates ==
  {Idle} \cup [pc : {"submit"}, kind : Kinds, sector : Sectors, page : Nat \cup {NULL}, two : BOOLEAN]
         \cup [pc : {"wait"}, cid : Nat, kind : Kinds, sector : Sectors, page : Nat \cup {NULL},
               two : BOOLEAN]
         \cup [pc : {"release"}, cid : Nat, page : Nat \cup {NULL}, ok : BOOLEAN]

Early == {"probe", "disable"}
Middle == {"enable", "identify_ctrl", "identify_ns", "io_queues"}
Queues == {"create_cq", "create_sq"}
IoUp == Queues \cup {"ready"}

Typed ==
  /\ ini \in Early \cup Middle \cup IoUp \cup {"failed"}
  /\ g \in GType
  /\ ctl \in CtlType
  /\ thr \in [Threads -> ThreadStates]
  /\ disk \in [Sectors -> Values]
  /\ buf \in [Threads -> Values]
  /\ outcome \in [Threads -> {"none", "ok", "error"}]

\* The depth of a ring, once it has one.
DepthOk(d) == d = 0 \/ (d \in 2 .. ctl.mqes + 1 /\ d <= SQ_PAGE)

\* How far nvme_init has got, and what the controller knows of it.
Started ==
  /\ g.ready <=> ini = "ready"
  /\ DepthOk(g.admin_q_depth) /\ DepthOk(g.io_q_depth)
  /\ ini \notin {"probe", "failed"} => g.admin_q_depth # 0
  /\ ini \in IoUp => g.io_q_depth # 0
  /\ ctl.depth \in {0, g.io_q_depth}
  /\ ini \in Early \cup Middle => ctl.depth = 0
  /\ ini \in {"create_sq", "ready"} => ctl.depth = g.io_q_depth

\* Entries before the writer of a completion ring have its phase, the others
\* still have the phase of the round before.
Pattern(ring, tail, phase, d) ==
  \A i \in 0 .. d - 1 : ring[i].phase = IF i < tail THEN phase ELSE Flip(phase)

\* There is no admin command, or one on its way, or one that is answered.
AdminIdle ==
  /\ ctl.asq_head = ctl.asq_tail
  /\ ctl.acq_tail = g.acq_head /\ ctl.acq_phase = g.acq_phase
  /\ id_buf = NULL

AdminPending ==
  /\ ini \in AdminSteps
  /\ ctl.asq_tail = Step(ctl.asq_head, g.admin_q_depth)
  /\ ctl.acq_tail = g.acq_head /\ ctl.acq_phase = g.acq_phase
  /\ asq[ctl.asq_head] = g.next_admin_cid - 1

AdminAnswered ==
  /\ ini \in AdminSteps
  /\ ctl.asq_head = ctl.asq_tail
  /\ ctl.acq_tail = Step(g.acq_head, g.admin_q_depth)
  /\ ctl.acq_phase = StepPhase(g.acq_head, g.acq_phase, g.admin_q_depth)
  /\ acq[g.acq_head].cid = g.next_admin_cid - 1
  /\ ini = "create_cq" => ctl.depth = g.io_q_depth

Admin ==
  /\ ini \in Early => /\ ctl.asq_head = 0 /\ ctl.asq_tail = 0
                      /\ ctl.acq_tail = 0 /\ ctl.acq_phase = 1
                      /\ id_buf = NULL
  /\ ini \in {"ready", "failed"} => ctl.asq_head = ctl.asq_tail /\ id_buf = NULL
  /\ ini \in {"enable", "io_queues"} => AdminIdle
  /\ ini \in Middle \cup Queues =>
       /\ asq \in [0 .. g.admin_q_depth - 1 -> Int \cup {NULL}]
       /\ acq \in [0 .. g.admin_q_depth - 1 -> AdminEntries]
       /\ {ctl.asq_head, ctl.asq_tail, ctl.acq_tail, g.acq_head} \subseteq 0 .. g.admin_q_depth - 1
       /\ g.asq_tail = ctl.asq_tail
       /\ Pattern(acq, ctl.acq_tail, ctl.acq_phase, g.admin_q_depth)
       /\ AdminIdle \/ AdminPending \/ AdminAnswered

\* The calls that have a PRP list, and the pages nvme_init keeps.
Lists == {t \in Threads : thr[t].pc # "idle" /\ thr[t].page # NULL}
Kept == IF ini \in Early THEN 0 ELSE IF ini \in Middle THEN 2 ELSE 4

\* Every page is free, of the identify command, a PRP list, or kept.
Pages ==
  /\ free \subseteq DOMAIN plist /\ DOMAIN plist \subseteq Nat /\ NULL \notin DOMAIN plist
  /\ IsFiniteSet(DOMAIN plist)
  /\ plist \in [DOMAIN plist -> Threads \cup {NULL}]
  /\ id_buf # NULL => id_buf \in DOMAIN plist \ free
  /\ \A t \in Lists : thr[t].page \in DOMAIN plist \ free /\ plist[thr[t].page] = t
  /\ IsFiniteSet(Lists)
  /\ ini # "failed" => Cardinality(free) + Cardinality({id_buf} \ {NULL}) + Cardinality(Lists) + Kept
                         = Cardinality(DOMAIN plist)

\* Before the driver is ready, and if it never is, there is no I/O.
Quiet ==
  ini # "ready" =>
    /\ \A t \in Threads : thr[t] = Idle
    /\ ctl.busy = {} /\ ctl.sq_head = 0 /\ ctl.sq_tail = 0
    /\ ctl.cq_tail = 0 /\ ctl.cq_head = 0 /\ ctl.cq_phase = 1
    /\ g.next_io_cid = 0

\* The I/O rings: where the driver and the controller are in them.
Rings ==
  ini \in IoUp =>
    /\ {g.iosq_tail, g.iosq_head, g.iocq_head, g.next_io_cid, ctl.sq_head, ctl.cq_tail}
         \subseteq 0 .. g.io_q_depth - 1
    /\ ctl.sq_tail = g.iosq_tail /\ ctl.cq_head = g.iocq_head
    /\ Span(g.iosq_head, ctl.sq_head, g.io_q_depth) <= Span(g.iosq_head, g.iosq_tail, g.io_q_depth)
    /\ iosq \in [0 .. g.io_q_depth - 1 -> Commands \cup {NULL}]
    /\ iocq \in [0 .. g.io_q_depth - 1 -> IoEntries]
    /\ cmd \in [0 .. g.io_q_depth - 1 -> CommandStates]
    /\ Pattern(iocq, ctl.cq_tail, ctl.cq_phase, g.io_q_depth)
    /\ g.iocq_phase = IF g.iocq_head <= ctl.cq_tail THEN ctl.cq_phase ELSE Flip(ctl.cq_phase)

\* The entries announced to the controller, and the ones it has posted.
Announced(k) ==
  /\ k \in 0 .. g.io_q_depth - 1
  /\ Span(ctl.sq_head, k, g.io_q_depth) < Span(ctl.sq_head, ctl.sq_tail, g.io_q_depth)

Posted(k) ==
  /\ k \in 0 .. g.io_q_depth - 1
  /\ Span(g.iocq_head, k, g.io_q_depth) < Span(g.iocq_head, ctl.cq_tail, g.io_q_depth)

\* A thread whose command is on its way, and the command that is.
Open(t) == thr[t].pc = "wait" /\ outcome[t] = "none"
OnItsWay(c) ==
  /\ c \in Commands /\ Open(c.buf)
  /\ thr[c.buf].cid = c.cid /\ thr[c.buf].kind = c.kind
  /\ thr[c.buf].sector = c.sector /\ thr[c.buf].page = c.page /\ thr[c.buf].two = c.two

\* Each thread that waits has one command on its way, until it is performed.
Flight ==
  ini \in IoUp =>
    /\ \A k : Announced(k) => OnItsWay(iosq[k])
    /\ \A c \in ctl.busy : OnItsWay(c)
    /\ \A j, k : Announced(j) /\ Announced(k) /\ iosq[j].buf = iosq[k].buf => j = k
    /\ \A c, e \in ctl.busy : c.buf = e.buf => c = e
    /\ \A k, c : Announced(k) /\ c \in ctl.busy => iosq[k].buf # c.buf
    /\ \A t \in Threads :
         Open(t) => (\E k : Announced(k) /\ iosq[k].buf = t) \/ (\E c \in ctl.busy : c.buf = t)
    /\ IsFiniteSet(ctl.busy)

\* A thread owns its command identifier from submit to release, and what is
\* recorded there is the outcome of its own command.
Waits(t) == thr[t].pc \in {"wait", "release"}
Told(t) == outcome[t] # "none" /\ (cmd[thr[t].cid].ok <=> outcome[t] = "ok")
Owners ==
  /\ \A t \in Threads : thr[t].pc \in {"idle", "submit"} => outcome[t] = "none"
  /\ ini \in IoUp =>
       /\ \A t \in Threads : Waits(t) => thr[t].cid \in 0 .. g.io_q_depth - 1 /\ cmd[thr[t].cid].in_use
       /\ \A t, u \in Threads : Waits(t) /\ Waits(u) /\ thr[t].cid = thr[u].cid => t = u
       /\ \A t \in Threads : thr[t].pc = "wait" /\ cmd[thr[t].cid].done => Told(t)

\* A completion that has been posted answers the command of a thread that
\* waits for it.
AnswerFor(e, t) ==
  /\ thr[t].pc = "wait" /\ outcome[t] # "none" /\ ~cmd[thr[t].cid].done
  /\ e.cid = thr[t].cid /\ (e.ok <=> outcome[t] = "ok")
Answers ==
  ini \in IoUp =>
    /\ \A k : Posted(k) =>
         /\ iocq[k] \in [cid : Nat, sq_head : 0 .. g.io_q_depth - 1, ok : BOOLEAN, phase : Phases]
         /\ Span(g.iosq_head, iocq[k].sq_head, g.io_q_depth)
              <= Span(g.iosq_head, ctl.sq_head, g.io_q_depth)
         /\ \E t \in Threads : AnswerFor(iocq[k], t)
    /\ \A j, k : Posted(j) /\ Posted(k) /\ iocq[j].cid = iocq[k].cid => j = k

IInv ==
  Typed /\ Started /\ Admin /\ Pages /\ Quiet /\ Rings /\ Flight /\ Owners /\ Answers

-----------------------------------------------------------------------------
(* The initial states.                                                     *)

LEMMA InitIInv == Init => IInv
<1> SUFFICES ASSUME Init PROVE IInv
  OBVIOUS
<1>1. PICK m \in Setups :
        /\ free = m.pages
        /\ ctl = [mqes |-> m.mqes, mdts |-> m.mdts, msix |-> m.msix, asq_head |-> 0,
                  asq_tail |-> 0, acq_tail |-> 0, acq_phase |-> 1, sq_head |-> 0, sq_tail |-> 0,
                  cq_tail |-> 0, cq_head |-> 0, cq_phase |-> 1, depth |-> 0, busy |-> {}]
  BY DEF Init
<1>2. /\ m.mqes \in 0 .. U16 - 1 /\ m.mdts \in Nat /\ m.msix \in BOOLEAN
      /\ m.pages \subseteq Nat /\ IsFiniteSet(m.pages) /\ NULL \notin m.pages
  BY NvmeAssumption
<1>3. /\ ini = "probe" /\ id_buf = NULL
      /\ plist = [p \in free |-> NULL]
      /\ thr = [t \in Threads |-> Idle]
      /\ outcome = [t \in Threads |-> "none"]
      /\ disk \in [Sectors -> Values] /\ buf \in [Threads -> Values]
  BY DEF Init
<1>4. g = [ready |-> FALSE, admin_q_depth |-> 0, io_q_depth |-> 0, asq_tail |-> 0,
           acq_head |-> 0, acq_phase |-> 0, next_admin_cid |-> 0, msix_enabled |-> FALSE,
           iosq_tail |-> 0, iosq_head |-> 0, iocq_head |-> 0, iocq_phase |-> 0,
           next_io_cid |-> 0, mdts |-> 0]
  BY DEF Init
<1>5. Idle.pc = "idle"
  BY DEF Idle
<1>6. Typed
  <2>1. g \in GType
    BY <1>4 DEF GType, Phases
  <2>2. ctl \in CtlType
    BY <1>1, <1>2 DEF CtlType, Phases
  <2>3. Idle \in ThreadStates
    BY DEF ThreadStates
  <2>4. thr \in [Threads -> ThreadStates] /\ outcome \in [Threads -> {"none", "ok", "error"}]
    BY <1>3, <2>3
  <2> QED BY <1>3, <2>1, <2>2, <2>4 DEF Typed, Early
<1>7. Started
  BY <1>1, <1>3, <1>4 DEF Started, DepthOk, IoUp, Queues, Early, Middle
<1>8. Admin
  BY <1>1, <1>3 DEF Admin, Early, Middle, Queues
<1>9. Pages
  <2>1. Lists = {} /\ DOMAIN plist = free /\ Kept = 0 /\ {id_buf} \ {NULL} = {}
    BY <1>3, <1>5 DEF Lists, Kept, Early
  <2>2. Cardinality(free) \in Nat /\ IsFiniteSet({}) /\ Cardinality({}) = 0
    BY <1>1, <1>2, FS_CardinalityType, FS_EmptySet
  <2>3. /\ free \subseteq DOMAIN plist /\ DOMAIN plist \subseteq Nat /\ NULL \notin DOMAIN plist
        /\ IsFiniteSet(DOMAIN plist)
    BY <1>1, <1>2, <2>1
  <2>4. plist \in [DOMAIN plist -> Threads \cup {NULL}]
    BY <1>3, <2>1
  <2>5. IsFiniteSet(Lists) /\ \A t \in Lists : FALSE
    BY <2>1, <2>2
  <2>6. Cardinality(free) + Cardinality({id_buf} \ {NULL}) + Cardinality(Lists) + Kept
          = Cardinality(DOMAIN plist)
    BY <2>1, <2>2, SMT
  <2> QED BY <1>3, <2>3, <2>4, <2>5, <2>6 DEF Pages
<1>10. Quiet
  BY <1>1, <1>3, <1>4 DEF Quiet
<1>11. Rings /\ Flight /\ Answers
  BY <1>3 DEF Rings, Flight, Answers, IoUp, Queues
<1>12. Owners
  BY <1>3 DEF Owners, IoUp, Queues
<1> QED BY <1>6, <1>7, <1>8, <1>9, <1>10, <1>11, <1>12 DEF IInv

-----------------------------------------------------------------------------
(* What steps leave alone.                                                 *)

\* What the I/O part of the invariant speaks of.
IoView ==
  <<iosq, iocq, cmd, thr, outcome, g.io_q_depth, g.iosq_tail, g.iosq_head, g.iocq_head,
    g.iocq_phase, g.next_io_cid, ctl.sq_head, ctl.sq_tail, ctl.cq_tail, ctl.cq_head,
    ctl.cq_phase, ctl.busy>>

\* A step of nvme_init or of the admin ring.
LEMMA SameIo ==
  ASSUME Quiet, Rings, Flight, Owners, Answers, UNCHANGED IoView,
         ini' \in IoUp => ini \in IoUp, ini = "ready" => ini' = "ready"
  PROVE  Quiet' /\ Rings' /\ Flight' /\ Owners' /\ Answers'
<1> USE DEF IoView
<1>1. \A k : (Announced(k)' <=> Announced(k)) /\ (Posted(k)' <=> Posted(k))
  BY DEF Announced, Posted
<1>2. \A c : OnItsWay(c)' <=> OnItsWay(c)
  BY DEF OnItsWay, Open
<1>3. \A e, t : AnswerFor(e, t)' <=> AnswerFor(e, t)
  BY DEF AnswerFor
<1>4. Quiet'
  BY DEF Quiet
<1>5. Rings'
  BY DEF Rings, Pattern
<1>6. Flight'
  BY <1>1, <1>2, SMT DEF Flight, Open
<1>7. Owners'
  BY DEF Owners, Waits, Told
<1>8. Answers'
  BY <1>1, <1>3 DEF Answers
<1> QED BY <1>4, <1>5, <1>6, <1>7, <1>8

\* A step of a thread or of the I/O rings.
LEMMA SameAdmin ==
  ASSUME Started, Admin, ini \in {"ready", "failed"},
         UNCHANGED <<ini, id_buf, g.ready, g.admin_q_depth, g.io_q_depth, ctl.mqes, ctl.depth,
                     ctl.asq_head, ctl.asq_tail>>
  PROVE  Started' /\ Admin'
<1>1. Started'
  BY DEF Started, DepthOk
<1>2. Admin'
  BY DEF Admin, Early, Middle, Queues
<1> QED BY <1>1, <1>2

\* A step that allocates and frees no page.
LEMMA SamePages ==
  ASSUME Pages, UNCHANGED <<ini, free, plist, id_buf>>,
         \A t \in Threads : /\ thr'[t].pc = "idle" <=> thr[t].pc = "idle"
                            /\ thr[t].pc # "idle" => thr'[t].page = thr[t].page
  PROVE  Pages'
<1>1. Lists' = Lists /\ Kept' = Kept
  BY DEF Lists, Kept
<1>2. \A t \in Lists : thr'[t].page = thr[t].page
  BY DEF Lists
<1> QED BY <1>1, <1>2 DEF Pages

-----------------------------------------------------------------------------
(* The steps of nvme_init.                                                 *)

\* nvme_calc_depth: no depth, or one the controller has and that fits a page.
LEMMA CalcDepth ==
  ASSUME Typed, NEW desired \in Nat, NEW per_page \in Nat, per_page <= SQ_PAGE
  PROVE  LET d == nvme_calc_depth(desired, per_page)
         IN  d \in Nat /\ DepthOk(d)
<1>1. ctl.mqes \in 0 .. U16 - 1 /\ U16 \in Nat /\ U16 > 0 /\ SQ_PAGE \in Nat
  BY NvmeAssumption, SMT DEF Typed, CtlType
<1>2. MaxHw \in Nat /\ MaxHw <= ctl.mqes + 1
  <2>1. ctl.mqes + 1 \in 0 .. 2 * U16 - 1
    BY <1>1, SMT
  <2>2. (ctl.mqes + 1) % U16 = IF ctl.mqes + 1 < U16 THEN ctl.mqes + 1 ELSE ctl.mqes + 1 - U16
    BY <1>1, <2>1, ModIs, SMT
  <2> QED BY <1>1, <2>2, SMT DEF MaxHw
<1> QED BY <1>1, <1>2, SMT DEF nvme_calc_depth, Least, DepthOk

\* nvme_init gives up.
LEMMA FailsKeeps ==
  ASSUME IInv, ini # "ready", ini' = "failed",
         UNCHANGED <<ctl, thr, outcome, plist, disk, buf, g.next_io_cid>>,
         g' \in GType, ~g'.ready, DepthOk(g'.admin_q_depth), DepthOk(g'.io_q_depth),
         ctl.depth \in {0, g'.io_q_depth}, ctl.asq_head = ctl.asq_tail,
         id_buf' = NULL, free' \subseteq DOMAIN plist
  PROVE  IInv'
<1>1. Typed'
  BY DEF IInv, Typed
<1>2. Started'
  BY DEF Started, DepthOk, IoUp, Queues, Early, Middle
<1>3. Admin'
  BY DEF Admin, Early, Middle, Queues
<1>4. \A t \in Threads : thr[t] = Idle /\ thr[t].pc = "idle"
  BY SMT DEF IInv, Quiet, Idle
<1>5. Pages'
  <2>1. Lists' = Lists /\ Lists = {}
    BY <1>4 DEF Lists
  <2> QED BY <2>1 DEF Pages, IInv
<1>6. Quiet'
  BY DEF IInv, Quiet
<1>7. Rings' /\ Flight' /\ Answers'
  BY DEF Rings, Flight, Answers, IoUp, Queues
<1>8. Owners'
  BY DEF IInv, Owners, IoUp, Queues
<1> QED BY <1>1, <1>2, <1>3, <1>5, <1>6, <1>7, <1>8 DEF IInv

LEMMA ProbeKeeps ==
  ASSUME IInv, NvmeProbe
  PROVE  IInv'
<1> DEFINE depth == nvme_calc_depth(ADMIN_QUEUE_DEPTH, SQ_PAGE)
<1>1. ini = "probe" /\ UNCHANGED <<tvars, free, asq, acq, id_buf, iocq, ctl>>
  BY DEF NvmeProbe
<1>2. depth \in Nat /\ DepthOk(depth)
  BY CalcDepth, NvmeAssumption, SMT DEF IInv
<1>3. g \in GType /\ ~g.ready
  BY <1>1 DEF IInv, Typed, Started
<1> HIDE DEF depth
<1>4. CASE ini' = "failed" /\ g' = g
  <2>1. ctl.asq_head = ctl.asq_tail /\ id_buf = NULL /\ free \subseteq DOMAIN plist
    BY <1>1 DEF IInv, Admin, Early, Pages
  <2> QED BY <1>1, <1>3, <1>4, <2>1, FailsKeeps DEF tvars, IInv, Started
<1>5. CASE ini' = "disable" /\ g' = [g EXCEPT !.admin_q_depth = depth] /\ depth # 0
  <2>1. /\ g' \in GType /\ g'.admin_q_depth = depth
        /\ UNCHANGED <<g.ready, g.io_q_depth, g.iosq_tail, g.iosq_head, g.iocq_head, g.iocq_phase,
                       g.next_io_cid>>
    BY <1>2, <1>3, <1>5 DEF GType
  <2>2. Typed'
    BY <1>1, <1>5, <2>1 DEF IInv, Typed, tvars, Early
  <2>3. Started'
    BY <1>1, <1>2, <1>5, <2>1 DEF IInv, Started, DepthOk, IoUp, Queues, Early, Middle
  <2>4. Admin'
    BY <1>1, <1>5 DEF IInv, Admin, Early, Middle, Queues
  <2>5. Pages'
    <3>1. Lists' = Lists /\ Kept' = Kept
      BY <1>1, <1>5 DEF Lists, Kept, tvars, Early
    <3> QED BY <1>1, <1>5, <3>1 DEF IInv, Pages, tvars
  <2>6. Quiet' /\ Rings' /\ Flight' /\ Owners' /\ Answers'
    BY <1>1, <1>5, <2>1, SameIo DEF IInv, IoView, tvars, IoUp, Queues
  <2> QED BY <2>2, <2>3, <2>4, <2>5, <2>6 DEF IInv
<1> QED BY <1>4, <1>5 DEF NvmeProbe, InitFails, depth

LEMMA EnableKeeps ==
  ASSUME IInv, NvmeEnable
  PROVE  IInv'
<1>1. ini = "enable" /\ UNCHANGED <<tvars, free, g, asq, acq, id_buf, iocq, ctl>>
  BY DEF NvmeEnable
<1>2. ctl.asq_head = ctl.asq_tail /\ id_buf = NULL /\ free \subseteq DOMAIN plist
  BY <1>1 DEF IInv, Admin, AdminIdle, Pages
<1>3. CASE ini' = "failed"
  BY <1>1, <1>2, <1>3, FailsKeeps DEF tvars, IInv, Typed, Started
<1>4. CASE ini' = "identify_ctrl"
  <2>1. Typed'
    BY <1>1, <1>4 DEF IInv, Typed, tvars, Middle
  <2>2. Started'
    BY <1>1, <1>4 DEF IInv, Started, DepthOk, IoUp, Queues, Early, Middle
  <2>3. Admin'
    <3>1. AdminIdle'
      BY <1>1 DEF IInv, Admin, AdminIdle
    <3> QED BY <1>1, <1>4, <3>1 DEF IInv, Admin, Early, Middle, Queues, Pattern
  <2>4. Pages'
    <3>1. Lists' = Lists /\ Kept' = Kept
      BY <1>1, <1>4 DEF Lists, Kept, tvars, Early, Middle
    <3> QED BY <1>1, <1>4, <3>1 DEF IInv, Pages, tvars
  <2>5. Quiet' /\ Rings' /\ Flight' /\ Owners' /\ Answers'
    BY <1>1, <1>4, SameIo DEF IInv, IoView, tvars, IoUp, Queues
  <2> QED BY <2>1, <2>2, <2>3, <2>4, <2>5 DEF IInv
<1> QED BY <1>3, <1>4 DEF NvmeEnable

\* Two pages of a set that has two.
LEMMA TwoPages ==
  ASSUME NEW S, S \subseteq Nat, IsFiniteSet(S), Cardinality(S) >= 2
  PROVE  LET p == Lowest(S)
             q == Lowest(S \ {p})
         IN  /\ p \in S /\ q \in S
             /\ Cardinality(S \ {p, q}) = Cardinality(S) - 2
<1> DEFINE p == Lowest(S)
           R == S \ {p}
           q == Lowest(R)
<1>1. S # {} /\ Cardinality(S) \in Nat
  BY FS_EmptySet, FS_CardinalityType, SMT
<1>2. p \in S
  BY <1>1, LowestIs
<1> HIDE DEF p
<1>3. IsFiniteSet(R) /\ Cardinality(R) = Cardinality(S) - 1
  BY <1>2, FS_RemoveElement
<1>4. R # {} /\ R \subseteq Nat
  <2>1. R = {} => Cardinality(R) = 0
    BY FS_EmptySet
  <2>2. Cardinality(R) # 0
    BY <1>1, <1>3, SMT
  <2> QED BY <2>1, <2>2
<1>5. q \in R
  BY <1>4, LowestIs
<1> HIDE DEF q
<1>6. Cardinality(R \ {q}) = Cardinality(R) - 1
  BY <1>3, <1>5, FS_RemoveElement
<1>7. R \ {q} = S \ {p, q}
  OBVIOUS
<1> QED BY <1>1, <1>2, <1>3, <1>5, <1>6, <1>7, SMT DEF p, q

\* nvme_init allocates the pages of a pair of rings, which it keeps.
LEMMA TwoKept ==
  ASSUME Pages, id_buf = NULL, id_buf' = NULL, Cardinality(free) >= 2,
         free' = free \ {Lowest(free), Lowest(free \ {Lowest(free)})},
         UNCHANGED <<thr, plist>>, ini # "failed", Kept \in Nat, Kept' = Kept + 2
  PROVE  Pages'
<1>1. free \subseteq Nat /\ free \subseteq DOMAIN plist /\ IsFiniteSet(DOMAIN plist) /\ IsFiniteSet(free)
  <2>1. free \subseteq Nat /\ free \subseteq DOMAIN plist /\ IsFiniteSet(DOMAIN plist)
    BY DEF Pages
  <2> QED BY <2>1, FS_Subset
<1>2. Lists' = Lists
  BY DEF Lists
<1>3. Cardinality(free') = Cardinality(free) - 2 /\ Cardinality(free) \in Nat
  BY <1>1, TwoPages, FS_CardinalityType
<1>4. free' \subseteq free
  OBVIOUS
<1>5. IsFiniteSet(Lists) /\ Cardinality(Lists) \in Nat
  BY FS_CardinalityType DEF Pages
<1>6. Cardinality({id_buf} \ {NULL}) = 0 /\ {id_buf'} \ {NULL} = {id_buf} \ {NULL}
  <2>1. {id_buf} \ {NULL} = {} /\ {id_buf'} \ {NULL} = {}
    OBVIOUS
  <2> QED BY <2>1, FS_EmptySet
<1>7. Cardinality(free) + Cardinality({id_buf} \ {NULL}) + Cardinality(Lists) + Kept
        = Cardinality(DOMAIN plist)
  BY DEF Pages
<1>8. Cardinality(free') + Cardinality({id_buf'} \ {NULL}) + Cardinality(Lists') + Kept'
        = Cardinality(DOMAIN plist)
  BY <1>2, <1>3, <1>5, <1>6, <1>7, SMT
<1>9. \A t \in Lists : thr[t].page \in DOMAIN plist \ free'
  BY <1>4 DEF Pages
<1> QED BY <1>2, <1>4, <1>8, <1>9 DEF Pages

\* Steps 6 to 10 of nvme_init.
LEMMA ResetKeeps ==
  ASSUME IInv, NvmeReset
  PROVE  IInv'
<1> DEFINE p == Lowest(free)
           q == Lowest(free \ {p})
<1>1. ini = "disable" /\ UNCHANGED <<tvars, id_buf, iocq, ctl>>
  BY DEF NvmeReset
<1>2. g \in GType /\ ~g.ready /\ g.admin_q_depth \in Nat /\ g.admin_q_depth >= 2
  <2>1. g \in GType /\ ctl.mqes \in Nat
    BY SMT DEF IInv, Typed, CtlType
  <2>2. g.admin_q_depth \in Nat
    BY <2>1 DEF GType
  <2> QED BY <1>1, <2>1, <2>2, SMT DEF IInv, Started, DepthOk
<1>3. free \subseteq Nat /\ free \subseteq DOMAIN plist /\ IsFiniteSet(DOMAIN plist) /\ IsFiniteSet(free)
  <2>1. free \subseteq Nat /\ free \subseteq DOMAIN plist /\ IsFiniteSet(DOMAIN plist)
    BY DEF IInv, Pages
  <2> QED BY <2>1, FS_Subset
<1>4. CASE ini' = "failed" /\ g' = g /\ free' \in {{}, free}
  <2>1. ctl.asq_head = ctl.asq_tail /\ id_buf = NULL
    BY <1>1 DEF IInv, Admin, Early
  <2> QED BY <1>1, <1>2, <1>3, <1>4, <2>1, FailsKeeps DEF tvars, IInv, Started
<1>5. CASE /\ Cardinality(free) >= 2
           /\ ini' = "enable"
           /\ free' = free \ {p, q}
           /\ g' = [g EXCEPT !.asq_tail = 0, !.acq_head = 0, !.acq_phase = 1]
           /\ asq' = [i \in 0 .. g.admin_q_depth - 1 |-> NULL]
           /\ acq' = [i \in 0 .. g.admin_q_depth - 1 |-> [phase |-> 0]]
  <2>1. /\ g' \in GType /\ g'.asq_tail = 0 /\ g'.acq_head = 0 /\ g'.acq_phase = 1
        /\ UNCHANGED <<g.ready, g.admin_q_depth, g.io_q_depth, g.iosq_tail, g.iosq_head,
                       g.iocq_head, g.iocq_phase, g.next_io_cid>>
    BY <1>2, <1>5 DEF GType, Phases
  <2>2. Typed'
    BY <1>1, <1>5, <2>1 DEF IInv, Typed, tvars, Middle
  <2>3. Started'
    BY <1>1, <1>5, <2>1 DEF IInv, Started, DepthOk, IoUp, Queues, Early, Middle
  <2>4. Admin'
    <3>1. /\ ctl'.asq_head = 0 /\ ctl'.asq_tail = 0 /\ ctl'.acq_tail = 0 /\ ctl'.acq_phase = 1
          /\ id_buf' = NULL
      BY <1>1 DEF IInv, Admin, Early
    <3>2. AdminIdle'
      BY <2>1, <3>1 DEF AdminIdle
    <3>3. /\ asq' \in [0 .. g'.admin_q_depth - 1 -> Int \cup {NULL}]
          /\ acq' \in [0 .. g'.admin_q_depth - 1 -> AdminEntries]
          /\ \A i \in 0 .. g'.admin_q_depth - 1 : acq'[i].phase = 0
      BY <1>5, <2>1 DEF AdminEntries, Blank, Phases
    <3>4. Pattern(acq', ctl'.acq_tail, ctl'.acq_phase, g'.admin_q_depth)
      BY <3>1, <3>3, SMT DEF Pattern, Flip
    <3>5. {ctl'.asq_head, ctl'.asq_tail, ctl'.acq_tail, g'.acq_head} \subseteq 0 .. g'.admin_q_depth - 1
      BY <1>2, <2>1, <3>1, SMT
    <3> QED BY <1>5, <2>1, <3>1, <3>2, <3>3, <3>4, <3>5 DEF Admin, Early, Middle, Queues, Pattern
  <2>5. Pages'
    <3>1. Kept = 0 /\ Kept' = 2 /\ id_buf' = NULL /\ id_buf = NULL
      BY <1>1, <1>5 DEF Kept, Early, Middle, IInv, Admin
    <3> QED BY <1>1, <1>5, <3>1, TwoKept, SMT DEF IInv, tvars
  <2>6. Quiet' /\ Rings' /\ Flight' /\ Owners' /\ Answers'
    BY <1>1, <1>5, <2>1, SameIo DEF IInv, IoView, tvars, IoUp, Queues
  <2> QED BY <2>2, <2>3, <2>4, <2>5, <2>6 DEF IInv
<1> QED BY <1>4, <1>5 DEF NvmeReset, InitFails

\* The admin ring while nvme_init uses it.
LEMMA AdminFacts ==
  ASSUME IInv, ini \in AdminSteps
  PROVE  /\ ini \in Middle \cup Queues /\ ini \notin Early \cup {"enable", "io_queues", "ready", "failed"}
         /\ g \in GType /\ ctl \in CtlType /\ ~g.ready
         /\ g.admin_q_depth \in Nat /\ g.admin_q_depth >= 2
         /\ asq \in [0 .. g.admin_q_depth - 1 -> Int \cup {NULL}]
         /\ acq \in [0 .. g.admin_q_depth - 1 -> AdminEntries]
         /\ ctl.asq_head \in 0 .. g.admin_q_depth - 1 /\ ctl.asq_tail \in 0 .. g.admin_q_depth - 1
         /\ ctl.acq_tail \in 0 .. g.admin_q_depth - 1 /\ g.acq_head \in 0 .. g.admin_q_depth - 1
         /\ g.asq_tail = ctl.asq_tail
         /\ g.acq_phase \in Phases /\ ctl.acq_phase \in Phases
         /\ g.next_admin_cid \in Nat
         /\ Pattern(acq, ctl.acq_tail, ctl.acq_phase, g.admin_q_depth)
         /\ AdminIdle \/ AdminPending \/ AdminAnswered
<1>1. ini \in Middle \cup Queues /\ ini \notin Early \cup {"enable", "io_queues", "ready", "failed"}
  BY DEF AdminSteps, Middle, Queues, Early
<1>2. g \in GType /\ ctl \in CtlType
  BY DEF IInv, Typed
<1>3. g.admin_q_depth \in Nat /\ g.acq_phase \in Phases /\ g.next_admin_cid \in Nat
  BY <1>2 DEF GType
<1>4. ctl.mqes \in Nat /\ ctl.acq_phase \in Phases
  BY <1>2, SMT DEF CtlType
<1>5. g.admin_q_depth >= 2 /\ ~g.ready
  BY <1>1, <1>3, <1>4, SMT DEF IInv, Started, DepthOk, Early
<1>6. /\ asq \in [0 .. g.admin_q_depth - 1 -> Int \cup {NULL}]
      /\ acq \in [0 .. g.admin_q_depth - 1 -> AdminEntries]
      /\ {ctl.asq_head, ctl.asq_tail, ctl.acq_tail, g.acq_head} \subseteq 0 .. g.admin_q_depth - 1
      /\ g.asq_tail = ctl.asq_tail
      /\ Pattern(acq, ctl.acq_tail, ctl.acq_phase, g.admin_q_depth)
      /\ AdminIdle \/ AdminPending \/ AdminAnswered
  BY <1>1 DEF IInv, Admin
<1> QED BY <1>1, <1>2, <1>3, <1>4, <1>5, <1>6

\* When the entry at its head is new, the driver's command is answered; when
\* it is not and nothing is announced, there is no command.
LEMMA AdminMode ==
  ASSUME IInv, ini \in AdminSteps, ctl.asq_tail = ctl.asq_head
  PROVE  /\ acq[g.acq_head].phase = g.acq_phase => AdminAnswered
         /\ acq[g.acq_head].phase # g.acq_phase => AdminIdle
<1> DEFINE d == g.admin_q_depth
           h == g.acq_head
<1>1. /\ d \in Nat /\ d >= 2 /\ h \in 0 .. d - 1
      /\ ctl.asq_head \in 0 .. d - 1 /\ ctl.acq_tail \in 0 .. d - 1
      /\ g.acq_phase \in {0, 1} /\ ctl.acq_phase \in {0, 1}
      /\ AdminIdle \/ AdminPending \/ AdminAnswered
  BY AdminFacts DEF Phases
<1>2. acq[h].phase = IF h < ctl.acq_tail THEN ctl.acq_phase ELSE Flip(ctl.acq_phase)
  <2>1. Pattern(acq, ctl.acq_tail, ctl.acq_phase, d)
    BY AdminFacts
  <2> QED BY <1>1, <2>1 DEF Pattern
<1>3. ~AdminPending
  BY <1>1, SMT DEF AdminPending, Step
<1>4. CASE AdminIdle
  BY <1>1, <1>2, <1>4, SMT DEF AdminIdle, Flip
<1>5. CASE AdminAnswered
  BY <1>1, <1>2, <1>5, SMT DEF AdminAnswered, Step, StepPhase, Flip
<1> QED BY <1>1, <1>3, <1>4, <1>5

\* nvme_admin_cmd up to its wait.
LEMMA AdminSubmitKeeps ==
  ASSUME IInv, AdminSubmit
  PROVE  IInv'
<1> DEFINE p == Lowest(free)
           d == g.admin_q_depth
<1>1. /\ ini \in AdminSteps /\ ctl.asq_tail = ctl.asq_head /\ acq[g.acq_head].phase # g.acq_phase
      /\ UNCHANGED <<tvars, acq, iocq>>
  BY DEF AdminSubmit
<1>2. AdminIdle
  BY <1>1, AdminMode
<1>3. free \subseteq Nat /\ free \subseteq DOMAIN plist /\ IsFiniteSet(DOMAIN plist) /\ IsFiniteSet(free)
  <2>1. free \subseteq Nat /\ free \subseteq DOMAIN plist /\ IsFiniteSet(DOMAIN plist)
    BY DEF IInv, Pages
  <2> QED BY <2>1, FS_Subset
<1>4. /\ ini \in Middle \cup Queues /\ ini \notin Early \cup {"enable", "io_queues", "ready", "failed"}
      /\ g \in GType /\ ctl \in CtlType /\ ~g.ready /\ d \in Nat /\ d >= 2
      /\ ctl.asq_tail \in 0 .. d - 1 /\ g.asq_tail = ctl.asq_tail /\ g.next_admin_cid \in Nat
      /\ asq \in [0 .. d - 1 -> Int \cup {NULL}]
  BY <1>1, AdminFacts
<1>5. CASE Identifies /\ free = {}
  <2>1. ini' = "failed" /\ UNCHANGED <<g, free, id_buf, ctl>>
    BY <1>5 DEF AdminSubmit, InitFails
  <2> QED BY <1>1, <1>2, <1>3, <1>4, <2>1, FailsKeeps DEF tvars, IInv, Started, AdminIdle
<1>6. CASE ~(Identifies /\ free = {})
  <2>1. /\ id_buf' = IF Identifies THEN p ELSE NULL
        /\ free' = IF Identifies THEN free \ {p} ELSE free
        /\ asq' = [asq EXCEPT ![g.asq_tail] = g.next_admin_cid]
        /\ g' = [g EXCEPT !.next_admin_cid = @ + 1, !.asq_tail = After(@, d)]
        /\ ctl' = [ctl EXCEPT !.asq_tail = After(g.asq_tail, d)]
        /\ ini' = ini
    BY <1>6 DEF AdminSubmit
  <2>2. After(g.asq_tail, d) = Step(g.asq_tail, d) /\ Step(g.asq_tail, d) \in 0 .. d - 1
    <3>1. d \in Nat /\ d > 0 /\ g.asq_tail \in 0 .. d - 1
      BY <1>4, SMT
    <3> QED BY <3>1, RoundIs
  <2>3. /\ g' \in GType /\ g'.next_admin_cid = g.next_admin_cid + 1 /\ g'.asq_tail = Step(g.asq_tail, d)
        /\ UNCHANGED <<g.ready, g.admin_q_depth, g.io_q_depth, g.acq_head, g.acq_phase, g.iosq_tail,
                       g.iosq_head, g.iocq_head, g.iocq_phase, g.next_io_cid>>
    <3>1. /\ Step(g.asq_tail, d) \in Nat /\ g.next_admin_cid + 1 \in Nat
          /\ g' = [g EXCEPT !.next_admin_cid = g.next_admin_cid + 1, !.asq_tail = Step(g.asq_tail, d)]
      BY <1>4, <2>1, <2>2, SMT
    <3> QED BY <1>4, <3>1 DEF GType
  <2>4. /\ ctl' \in CtlType /\ ctl'.asq_tail = Step(g.asq_tail, d)
        /\ UNCHANGED <<ctl.mqes, ctl.asq_head, ctl.acq_tail, ctl.acq_phase, ctl.sq_head, ctl.sq_tail,
                       ctl.cq_tail, ctl.cq_head, ctl.cq_phase, ctl.depth, ctl.busy>>
    <3>1. Step(g.asq_tail, d) \in Nat /\ ctl' = [ctl EXCEPT !.asq_tail = Step(g.asq_tail, d)]
      BY <1>4, <2>1, <2>2, SMT
    <3> QED BY <1>4, <3>1 DEF CtlType
  <2>5. Typed'
    BY <1>1, <2>1, <2>3, <2>4 DEF IInv, Typed, tvars
  <2>6. Started'
    BY <2>1, <2>3, <2>4 DEF IInv, Started, DepthOk
  <2>7. Admin'
    <3>1. asq' \in [0 .. d - 1 -> Int \cup {NULL}] /\ asq'[g.asq_tail] = g.next_admin_cid
      BY <1>4, <2>1, SMT
    <3>2. AdminPending'
      BY <1>1, <1>2, <1>4, <2>1, <2>3, <2>4, <3>1, SMT DEF AdminPending, AdminIdle
    <3>3. {ctl'.asq_head, ctl'.asq_tail, ctl'.acq_tail, g'.acq_head} \subseteq 0 .. d - 1
      BY <1>1, <2>2, <2>3, <2>4, AdminFacts
    <3>4. Pattern(acq, ctl.acq_tail, ctl.acq_phase, d) /\ acq \in [0 .. d - 1 -> AdminEntries]
      BY <1>1, AdminFacts
    <3> QED BY <1>1, <1>4, <2>1, <2>3, <2>4, <3>1, <3>2, <3>3, <3>4, SMT DEF Admin, Pattern
  <2>8. Pages'
    <3>1. Lists' = Lists /\ Kept' = Kept /\ id_buf = NULL
      BY <1>1, <1>2, <2>1 DEF Lists, Kept, tvars, AdminIdle
    <3>2. CASE ~Identifies
      BY <1>1, <2>1, <3>1, <3>2 DEF IInv, Pages, tvars
    <3>3. CASE Identifies
      <4>1. p \in free /\ p # NULL
        BY <1>3, <1>6, <3>3, LowestIs DEF IInv, Pages
      <4>2. id_buf' = p /\ free' = free \ {p}
        BY <2>1, <3>3
      <4> HIDE DEF p
      <4>3. Cardinality(free') = Cardinality(free) - 1 /\ Cardinality(free) \in Nat
        BY <1>3, <4>1, <4>2, FS_RemoveElement, FS_CardinalityType
      <4>4. Cardinality({id_buf} \ {NULL}) = 0 /\ Cardinality({id_buf'} \ {NULL}) = 1
        <5>1. {id_buf} \ {NULL} = {} /\ {id_buf'} \ {NULL} = {p}
          BY <3>1, <4>1, <4>2
        <5> QED BY <5>1, FS_EmptySet, FS_Singleton
      <4>5. IsFiniteSet(Lists) /\ Cardinality(Lists) \in Nat /\ Kept \in Nat
        BY FS_CardinalityType DEF IInv, Pages, Kept
      <4>6. Cardinality(free) + Cardinality({id_buf} \ {NULL}) + Cardinality(Lists) + Kept
              = Cardinality(DOMAIN plist)
        BY <1>4 DEF IInv, Pages
      <4>7. Cardinality(free') + Cardinality({id_buf'} \ {NULL}) + Cardinality(Lists') + Kept'
              = Cardinality(DOMAIN plist)
        BY <3>1, <4>3, <4>4, <4>5, <4>6, SMT
      <4>8. \A t \in Lists : thr[t].page \in DOMAIN plist \ free'
        BY <4>2 DEF IInv, Pages
      <4>9. id_buf' \in DOMAIN plist \ free' /\ free' \subseteq DOMAIN plist
        BY <1>3, <4>1, <4>2
      <4> QED BY <1>1, <3>1, <4>7, <4>8, <4>9 DEF IInv, Pages, tvars
    <3> QED BY <3>2, <3>3
  <2>9. Quiet' /\ Rings' /\ Flight' /\ Owners' /\ Answers'
    BY <1>1, <2>1, <2>3, <2>4, SameIo DEF IInv, IoView, tvars
  <2> QED BY <2>5, <2>6, <2>7, <2>8, <2>9 DEF IInv
<1> QED BY <1>5, <1>6

\* The rest of nvme_admin_cmd and of its caller.
LEMMA AdminReapKeeps ==
  ASSUME IInv, AdminReap
  PROVE  IInv'
<1> DEFINE d == g.admin_q_depth
           h == Step(g.acq_head, d)
           f == StepPhase(g.acq_head, g.acq_phase, d)
<1>1. /\ ini \in AdminSteps /\ ctl.asq_tail = ctl.asq_head /\ acq[g.acq_head].phase = g.acq_phase
      /\ free' = free \cup ({id_buf} \ {NULL}) /\ id_buf' = NULL
      /\ UNCHANGED <<tvars, asq, acq, iocq, ctl>>
  BY DEF AdminReap
<1>2. PICK good \in BOOLEAN, mdts \in {ctl.mdts, g.mdts} :
        /\ ini' = IF good THEN AfterAdmin ELSE "failed"
        /\ g' = [g EXCEPT !.acq_head = h, !.acq_phase = f, !.mdts = mdts,
                          !.ready = good /\ ini = "create_sq"]
  <2> DEFINE cqe == acq[g.acq_head]
             ok == cqe.ok /\ cqe.cid = g.next_admin_cid - 1
  <2>1. PICK usable \in BOOLEAN :
             /\ ini' = IF ok /\ usable THEN AfterAdmin ELSE "failed"
             /\ g' = [g EXCEPT !.acq_head = IF g.acq_head + 1 = d THEN 0 ELSE g.acq_head + 1,
                               !.acq_phase = IF g.acq_head + 1 = d THEN Flip(g.acq_phase) ELSE g.acq_phase,
                               !.mdts = MdtsAfter(ok),
                               !.ready = ok /\ usable /\ ini = "create_sq"]
    BY DEF AdminReap
  <2>2. MdtsAfter(ok) \in {ctl.mdts, g.mdts}
    BY DEF MdtsAfter
  <2>3. (ok /\ usable) \in BOOLEAN
    OBVIOUS
  <2> HIDE DEF ok
  <2> QED BY <2>1, <2>2, <2>3 DEF Step, StepPhase
<1>3. AdminAnswered
  BY <1>1, AdminMode
<1>4. /\ ini \in Middle \cup Queues /\ ini \notin Early \cup {"enable", "io_queues", "ready", "failed"}
      /\ g \in GType /\ ctl \in CtlType /\ ~g.ready /\ d \in Nat /\ d >= 2
      /\ g.acq_head \in 0 .. d - 1 /\ g.acq_phase \in Phases
  BY <1>1, AdminFacts
<1>5. h \in 0 .. d - 1 /\ f \in Phases
  BY <1>4, SMT DEF Step, StepPhase, Flip, Phases
<1> HIDE DEF h, f
<1>6. /\ g' \in GType /\ g'.acq_head = h /\ g'.acq_phase = f
      /\ g'.ready <=> (good /\ ini = "create_sq")
      /\ UNCHANGED <<g.admin_q_depth, g.io_q_depth, g.asq_tail, g.next_admin_cid, g.iosq_tail,
                     g.iosq_head, g.iocq_head, g.iocq_phase, g.next_io_cid>>
  <2>1. h \in Nat /\ mdts \in Nat
    BY <1>2, <1>4, <1>5, SMT DEF GType, CtlType
  <2> QED BY <1>2, <1>4, <1>5, <2>1 DEF GType
<1>7. free \subseteq DOMAIN plist /\ free' \subseteq DOMAIN plist
  BY <1>1 DEF IInv, Pages
<1>8. CASE ~good
  <2>1. ini' = "failed" /\ ~g'.ready
    BY <1>2, <1>6, <1>8
  <2>2. DepthOk(g'.admin_q_depth) /\ DepthOk(g'.io_q_depth) /\ ctl.depth \in {0, g'.io_q_depth}
    BY <1>6 DEF IInv, Started
  <2> QED BY <1>1, <1>4, <1>6, <1>7, <2>1, <2>2, FailsKeeps DEF tvars
<1>9. CASE good
  <2>1. /\ ini = "identify_ctrl" => ini' = "identify_ns"
        /\ ini = "identify_ns" => ini' = "io_queues"
        /\ ini = "create_cq" => ini' = "create_sq"
        /\ ini = "create_sq" => ini' = "ready"
    BY <1>2, <1>9 DEF AfterAdmin
  <2>2. \/ ini = "identify_ctrl" /\ ini' = "identify_ns"
        \/ ini = "identify_ns" /\ ini' = "io_queues"
        \/ ini = "create_cq" /\ ini' = "create_sq"
        \/ ini = "create_sq" /\ ini' = "ready"
    BY <1>1, <2>1 DEF AdminSteps
  <2>3. Typed'
    BY <1>1, <1>6, <2>2 DEF IInv, Typed, tvars, Middle, IoUp, Queues
  <2>4. Started'
    <3>1. g'.ready <=> ini' = "ready"
      BY <1>6, <1>9, <2>2
    <3> QED BY <1>1, <1>3, <1>4, <1>6, <2>2, <3>1
            DEF IInv, Started, DepthOk, IoUp, Queues, Early, Middle, AdminAnswered
  <2>5. Admin'
    <3>1. AdminIdle'
      BY <1>1, <1>3, <1>6 DEF AdminIdle, AdminAnswered, h, f
    <3>2. /\ asq \in [0 .. d - 1 -> Int \cup {NULL}] /\ acq \in [0 .. d - 1 -> AdminEntries]
          /\ {ctl.asq_head, ctl.asq_tail, ctl.acq_tail} \subseteq 0 .. d - 1
          /\ g.asq_tail = ctl.asq_tail
          /\ Pattern(acq, ctl.acq_tail, ctl.acq_phase, d)
      BY <1>1, AdminFacts
    <3>3. ini' \notin Early
      BY <2>2 DEF Early
    <3> QED BY <1>1, <1>5, <1>6, <3>1, <3>2, <3>3 DEF Admin, Pattern, AdminIdle
  <2>6. Pages'
    <3>1. Lists' = Lists /\ Kept' = Kept
      BY <1>1, <2>2 DEF Lists, Kept, tvars, Early, Middle
    <3>2. CASE id_buf = NULL
      BY <1>1, <1>4, <3>1, <3>2 DEF IInv, Pages, tvars
    <3>3. CASE id_buf # NULL
      <4>1. id_buf \notin free /\ free' = free \cup {id_buf} /\ id_buf \in DOMAIN plist
        BY <1>1, <3>3 DEF IInv, Pages
      <4>2. IsFiniteSet(free) /\ Cardinality(free) \in Nat
        <5>1. IsFiniteSet(DOMAIN plist)
          BY DEF IInv, Pages
        <5> QED BY <1>7, <5>1, FS_Subset, FS_CardinalityType
      <4>3. Cardinality(free') = Cardinality(free) + 1
        BY <4>1, <4>2, FS_AddElement
      <4>4. Cardinality({id_buf} \ {NULL}) = 1 /\ Cardinality({id_buf'} \ {NULL}) = 0
        <5>1. {id_buf} \ {NULL} = {id_buf} /\ {id_buf'} \ {NULL} = {}
          BY <1>1, <3>3
        <5> QED BY <5>1, FS_EmptySet, FS_Singleton
      <4>5. IsFiniteSet(Lists) /\ Cardinality(Lists) \in Nat /\ Kept \in Nat
        BY FS_CardinalityType DEF IInv, Pages, Kept
      <4>6. Cardinality(free) + Cardinality({id_buf} \ {NULL}) + Cardinality(Lists) + Kept
              = Cardinality(DOMAIN plist)
        BY <1>4 DEF IInv, Pages
      <4>7. Cardinality(free') + Cardinality({id_buf'} \ {NULL}) + Cardinality(Lists') + Kept'
              = Cardinality(DOMAIN plist)
        BY <3>1, <4>2, <4>3, <4>4, <4>5, <4>6, SMT
      <4>8. \A t \in Lists : thr[t].page \in DOMAIN plist \ free'
        <5>1. Lists = {}
          BY <1>4, SMT DEF IInv, Quiet, Lists, Idle
        <5> QED BY <5>1
      <4> QED BY <1>1, <1>7, <3>1, <4>7, <4>8 DEF IInv, Pages, tvars
    <3> QED BY <3>2, <3>3
  <2>7. Quiet' /\ Rings' /\ Flight' /\ Owners' /\ Answers'
    BY <1>1, <1>6, <2>2, SameIo DEF IInv, IoView, tvars, IoUp, Queues
  <2> QED BY <2>3, <2>4, <2>5, <2>6, <2>7 DEF IInv
<1> QED BY <1>8, <1>9

\* The controller answers the admin command.
LEMMA CtlAdminKeeps ==
  ASSUME IInv, CtlAdmin
  PROVE  IInv'
<1> DEFINE d == g.admin_q_depth
           i == ctl.acq_tail
           cid == g.next_admin_cid - 1
<1>1. ctl.asq_head # ctl.asq_tail /\ UNCHANGED <<tvars, ini, free, g, asq, id_buf, iocq>>
  BY DEF CtlAdmin
<1>2. ini \in AdminSteps /\ AdminPending
  <2>1. ini \notin Early \cup {"enable", "io_queues", "ready", "failed"}
    BY <1>1 DEF IInv, Admin, AdminIdle
  <2>2. ini \in AdminSteps
    BY <2>1 DEF IInv, Typed, AdminSteps, Early, Middle, IoUp, Queues
  <2> QED BY <1>1, <2>2, AdminFacts DEF AdminIdle, AdminAnswered
<1>3. /\ ini \in Middle \cup Queues /\ ini \notin Early \cup {"enable", "io_queues", "ready", "failed"}
      /\ g \in GType /\ ctl \in CtlType /\ ~g.ready /\ d \in Nat /\ d >= 2
      /\ ctl.asq_head \in 0 .. d - 1 /\ i \in 0 .. d - 1 /\ ctl.acq_phase \in Phases
      /\ g.next_admin_cid \in Nat
      /\ acq \in [0 .. d - 1 -> AdminEntries] /\ Pattern(acq, i, ctl.acq_phase, d)
  BY <1>2, AdminFacts
<1>4. PICK ok \in BOOLEAN :
        acq' = [acq EXCEPT ![i] = [cid |-> asq[ctl.asq_head], ok |-> ok, phase |-> ctl.acq_phase]]
  BY DEF CtlAdmin
<1>5. acq' = [acq EXCEPT ![i] = [cid |-> cid, ok |-> ok, phase |-> ctl.acq_phase]]
  BY <1>2, <1>4 DEF AdminPending
<1>6. After(ctl.asq_head, d) = Step(ctl.asq_head, d) /\ Step(ctl.asq_head, d) \in 0 .. d - 1
  <2>1. d > 0
    BY <1>3, SMT
  <2> QED BY <1>3, <2>1, RoundIs
<1>7. /\ Step(i, d) \in 0 .. d - 1 /\ StepPhase(i, ctl.acq_phase, d) \in Phases
  BY <1>3, SMT DEF Step, StepPhase, Phases, Flip
<1>8. ctl' = [ctl EXCEPT !.asq_head = Step(ctl.asq_head, d), !.acq_tail = Step(i, d),
                         !.acq_phase = StepPhase(i, ctl.acq_phase, d),
                         !.depth = IF ini = "create_cq" THEN g.io_q_depth ELSE ctl.depth]
  BY <1>6 DEF CtlAdmin, Step, StepPhase
<1>9. /\ ctl' \in CtlType /\ ctl'.asq_head = Step(ctl.asq_head, d) /\ ctl'.acq_tail = Step(i, d)
      /\ ctl'.acq_phase = StepPhase(i, ctl.acq_phase, d)
      /\ ctl'.depth = IF ini = "create_cq" THEN g.io_q_depth ELSE ctl.depth
      /\ UNCHANGED <<ctl.mqes, ctl.asq_tail, ctl.sq_head, ctl.sq_tail, ctl.cq_tail, ctl.cq_head,
                     ctl.cq_phase, ctl.busy>>
  <2>1. /\ Step(ctl.asq_head, d) \in Nat /\ Step(i, d) \in Nat
        /\ (IF ini = "create_cq" THEN g.io_q_depth ELSE ctl.depth) \in Nat
    BY <1>3, <1>6, <1>7, SMT DEF GType, CtlType
  <2> QED BY <1>3, <1>7, <1>8, <2>1 DEF CtlType
<1>10. Typed'
  BY <1>1, <1>9 DEF IInv, Typed, tvars
<1>11. Started'
  BY <1>1, <1>2, <1>9 DEF IInv, Started, DepthOk, AdminSteps, IoUp, Queues, Early, Middle
<1>12. Admin'
  <2>1. [cid |-> cid, ok |-> ok, phase |-> ctl.acq_phase] \in AdminEntries
    BY <1>3, SMT DEF AdminEntries
  <2>2. acq' \in [0 .. d - 1 -> AdminEntries]
    BY <1>3, <1>5, <2>1
  <2>3. Pattern(acq', Step(i, d), StepPhase(i, ctl.acq_phase, d), d)
    <3> SUFFICES ASSUME NEW k \in 0 .. d - 1
                 PROVE  acq'[k].phase = IF k < Step(i, d) THEN StepPhase(i, ctl.acq_phase, d)
                                        ELSE Flip(StepPhase(i, ctl.acq_phase, d))
      BY DEF Pattern
    <3>1. acq[k].phase = IF k < i THEN ctl.acq_phase ELSE Flip(ctl.acq_phase)
      BY <1>3 DEF Pattern
    <3>2. acq'[k].phase = IF k = i THEN ctl.acq_phase ELSE acq[k].phase
      BY <1>3, <1>5
    <3> QED BY <1>3, <3>1, <3>2, SMT DEF Step, StepPhase, Flip, Phases
  <2>4. AdminAnswered'
    <3>1. acq'[g.acq_head].cid = cid
      BY <1>2, <1>3, <1>5 DEF AdminPending
    <3> QED BY <1>1, <1>2, <1>9, <3>1 DEF AdminPending, AdminAnswered
  <2>5. /\ asq \in [0 .. d - 1 -> Int \cup {NULL}]
        /\ {ctl.asq_tail, g.acq_head} \subseteq 0 .. d - 1 /\ g.asq_tail = ctl.asq_tail
    BY <1>2, AdminFacts
  <2> QED BY <1>1, <1>3, <1>6, <1>7, <1>9, <2>2, <2>3, <2>4, <2>5, SMT DEF Admin, Pattern
<1>13. Pages'
  <2>1. Lists' = Lists /\ Kept' = Kept
    BY <1>1 DEF Lists, Kept, tvars
  <2> QED BY <1>1, <2>1 DEF IInv, Pages, tvars
<1>14. Quiet' /\ Rings' /\ Flight' /\ Owners' /\ Answers'
  BY <1>1, <1>9, SameIo DEF IInv, IoView, tvars
<1> QED BY <1>10, <1>11, <1>12, <1>13, <1>14 DEF IInv

\* From MSI-X to the empty I/O rings.
LEMMA IoQueuesKeeps ==
  ASSUME IInv, NvmeIoQueues
  PROVE  IInv'
<1> DEFINE d == nvme_calc_depth(IO_QUEUE_DEPTH, Least(SQ_PAGE, CQ_PAGE))
           p == Lowest(free)
           q == Lowest(free \ {p})
<1>1. ini = "io_queues" /\ UNCHANGED <<asq, acq, id_buf, ctl, plist, thr, disk, buf, outcome>>
  BY DEF NvmeIoQueues
<1>2. d \in Nat /\ DepthOk(d)
  <2>1. Least(SQ_PAGE, CQ_PAGE) \in Nat /\ Least(SQ_PAGE, CQ_PAGE) <= SQ_PAGE /\ IO_QUEUE_DEPTH \in Nat
    BY NvmeAssumption, SMT DEF Least
  <2> QED BY <2>1, CalcDepth DEF IInv
<1>3. /\ g \in GType /\ ~g.ready /\ SetupMsix \in BOOLEAN
      /\ ctl.depth = 0 /\ DepthOk(g.admin_q_depth) /\ g.admin_q_depth # 0
      /\ AdminIdle /\ id_buf = NULL /\ free \subseteq DOMAIN plist
      /\ ctl.mqes \in Nat
  BY <1>1, SMT DEF IInv, Typed, CtlType, Started, Middle, Admin, AdminIdle, Pages, SetupMsix
<1> HIDE DEF d
<1>4. CASE /\ ini' = "failed"
           /\ g' = [g EXCEPT !.msix_enabled = SetupMsix, !.io_q_depth = d]
           /\ free' \in {{}, free}
  <2>1. /\ g' \in GType /\ ~g'.ready /\ g'.io_q_depth = d
        /\ UNCHANGED <<g.admin_q_depth, g.next_io_cid>>
    BY <1>2, <1>3, <1>4 DEF GType
  <2> QED BY <1>1, <1>2, <1>3, <1>4, <2>1, FailsKeeps DEF AdminIdle
<1>5. CASE /\ d # 0 /\ Cardinality(free) >= 2
           /\ ini' = "create_cq"
           /\ free' = free \ {p, q}
           /\ g' = [g EXCEPT !.msix_enabled = SetupMsix, !.io_q_depth = d,
                             !.iosq_tail = 0, !.iosq_head = 0,
                             !.iocq_head = 0, !.iocq_phase = 1]
           /\ iosq' = [i \in 0 .. d - 1 |-> NULL]
           /\ iocq' = [i \in 0 .. d - 1 |-> [phase |-> 0]]
           /\ cmd' = [i \in 0 .. d - 1 |-> NoCommand]
  <2>1. /\ g' \in GType /\ g'.io_q_depth = d /\ g'.iosq_tail = 0 /\ g'.iosq_head = 0
        /\ g'.iocq_head = 0 /\ g'.iocq_phase = 1
        /\ UNCHANGED <<g.ready, g.admin_q_depth, g.asq_tail, g.acq_head, g.acq_phase,
                       g.next_admin_cid, g.next_io_cid>>
    BY <1>2, <1>3, <1>5, ZenonT(30) DEF GType, Phases
  <2>2. Typed'
    BY <1>1, <1>5, <2>1 DEF IInv, Typed, IoUp, Queues
  <2>3. Started'
    BY <1>1, <1>2, <1>3, <1>5, <2>1 DEF Started, DepthOk, IoUp, Queues, Early, Middle
  <2>4. Admin'
    <3>1. AdminIdle'
      BY <1>1, <1>3, <2>1 DEF AdminIdle
    <3> QED BY <1>1, <1>5, <2>1, <3>1, SMT DEF IInv, Admin, Pattern, Early, Middle, Queues
  <2>5. Pages'
    <3>1. Kept = 2 /\ Kept' = 4
      BY <1>1, <1>5 DEF Kept, Early, Middle
    <3> QED BY <1>1, <1>3, <1>5, <3>1, TwoKept, SMT DEF IInv
  <2>6. /\ \A t \in Threads : thr'[t] = Idle /\ thr'[t].pc = "idle"
        /\ ctl'.busy = {} /\ ctl'.sq_head = 0 /\ ctl'.sq_tail = 0
        /\ ctl'.cq_tail = 0 /\ ctl'.cq_head = 0 /\ ctl'.cq_phase = 1 /\ g'.next_io_cid = 0
    BY <1>1, <2>1, SMT DEF IInv, Quiet, Idle
  <2>7. Quiet'
    BY <2>6 DEF Quiet
  <2>8. d \in Nat /\ d > 0 /\ 0 \in 0 .. d - 1
    BY <1>2, <1>5, SMT
  <2>9. Span(0, 0, d) = 0 /\ \A j \in 0 .. d - 1 : Span(0, j, d) \in Nat
    <3>1. \A j \in 0 .. d - 1 : /\ Span(0, j, d) = IF 0 <= j THEN j - 0 ELSE j - 0 + d
                                /\ Span(0, j, d) \in 0 .. d - 1
      BY <2>8, RoundIs
    <3> QED BY <2>8, <3>1, SMT
  <2>10. ASSUME NEW k PROVE ~Announced(k)' /\ ~Posted(k)'
    <3>1. k \in 0 .. d - 1 => ~(Span(0, k, d) < Span(0, 0, d))
      BY <2>9, SMT
    <3> QED BY <2>1, <2>6, <3>1 DEF Announced, Posted
  <2>11. Rings'
    <3>1. /\ iosq' \in [0 .. d - 1 -> Commands \cup {NULL}]
          /\ iocq' \in [0 .. d - 1 -> IoEntries]
          /\ cmd' \in [0 .. d - 1 -> CommandStates]
          /\ \A i \in 0 .. d - 1 : iocq'[i].phase = 0
      BY <1>5 DEF IoEntries, Blank, Phases, CommandStates, NoCommand
    <3>2. Pattern(iocq', 0, 1, d)
      BY <3>1, SMT DEF Pattern, Flip
    <3>3. Span(0, 0, d) <= Span(0, 0, d)
      BY <2>8, <2>9, SMT
    <3> QED BY <2>1, <2>6, <2>8, <3>1, <3>2, <3>3, SMT DEF Rings, Pattern
  <2>12. Flight'
    <3>1. \A t \in Threads : ~Open(t)'
      BY <2>6 DEF Open
    <3> QED BY <2>6, <2>10, <3>1, FS_EmptySet DEF Flight
  <2>13. Owners'
    BY <1>1, <2>6 DEF IInv, Owners, Waits
  <2>14. Answers'
    BY <2>10 DEF Answers
  <2> QED BY <2>2, <2>3, <2>4, <2>5, <2>7, <2>11, <2>12, <2>13, <2>14 DEF IInv
<1> QED BY <1>4, <1>5 DEF NvmeIoQueues, d

-----------------------------------------------------------------------------
(* Going round the I/O rings.                                              *)

\* The writer of a ring goes on from t; h is how far the driver knows the
\* reader to be, and s where the reader is.
LEMMA TailMoves ==
  ASSUME NEW d \in Nat, d > 0, NEW h \in 0 .. d - 1, NEW s \in 0 .. d - 1, NEW t \in 0 .. d - 1,
         Span(h, s, d) <= Span(h, t, d), Step(t, d) # h
  PROVE  /\ Span(h, s, d) <= Span(h, Step(t, d), d)
         /\ ~(Span(s, t, d) < Span(s, t, d))
         /\ \A k \in 0 .. d - 1 : Span(s, k, d) < Span(s, Step(t, d), d)
                                    <=> (Span(s, k, d) < Span(s, t, d) \/ k = t)
<1>1. Step(t, d) \in 0 .. d - 1
  BY SMT DEF Step
<1>2. \A i, j \in 0 .. d - 1 : Span(i, j, d) = IF i <= j THEN j - i ELSE j - i + d
  BY RoundIs
<1>3. Span(h, s, d) <= Span(h, Step(t, d), d) /\ ~(Span(s, t, d) < Span(s, t, d))
  <2>1. /\ Span(h, t, d) = IF h <= t THEN t - h ELSE t - h + d
        /\ Span(h, s, d) = IF h <= s THEN s - h ELSE s - h + d
        /\ Span(s, t, d) = IF s <= t THEN t - s ELSE t - s + d
        /\ Span(h, Step(t, d), d) = IF h <= Step(t, d) THEN Step(t, d) - h ELSE Step(t, d) - h + d
    BY <1>1, <1>2
  <2> QED BY <2>1, SMT DEF Step
<1>4. ASSUME NEW k \in 0 .. d - 1
      PROVE  Span(s, k, d) < Span(s, Step(t, d), d) <=> (Span(s, k, d) < Span(s, t, d) \/ k = t)
  <2>1. /\ Span(s, k, d) = IF s <= k THEN k - s ELSE k - s + d
        /\ Span(s, t, d) = IF s <= t THEN t - s ELSE t - s + d
        /\ Span(h, t, d) = IF h <= t THEN t - h ELSE t - h + d
        /\ Span(h, s, d) = IF h <= s THEN s - h ELSE s - h + d
        /\ Span(s, Step(t, d), d) = IF s <= Step(t, d) THEN Step(t, d) - s ELSE Step(t, d) - s + d
    BY <1>1, <1>2
  <2> QED BY <2>1, SMT DEF Step
<1> QED BY <1>3, <1>4

\* The reader of a ring goes on from s.
LEMMA HeadMoves ==
  ASSUME NEW d \in Nat, d > 0, NEW h \in 0 .. d - 1, NEW s \in 0 .. d - 1, NEW t \in 0 .. d - 1,
         Span(h, s, d) <= Span(h, t, d), s # t
  PROVE  /\ Span(h, Step(s, d), d) <= Span(h, t, d)
         /\ Span(h, s, d) <= Span(h, Step(s, d), d)
         /\ Span(s, s, d) < Span(s, t, d)
         /\ \A k \in 0 .. d - 1 : Span(Step(s, d), k, d) < Span(Step(s, d), t, d)
                                    <=> (Span(s, k, d) < Span(s, t, d) /\ k # s)
<1>1. Step(s, d) \in 0 .. d - 1
  BY SMT DEF Step
<1>2. \A i, j \in 0 .. d - 1 : Span(i, j, d) = IF i <= j THEN j - i ELSE j - i + d
  BY RoundIs
<1>3. /\ Span(h, t, d) = IF h <= t THEN t - h ELSE t - h + d
      /\ Span(h, s, d) = IF h <= s THEN s - h ELSE s - h + d
      /\ Span(s, s, d) = 0
      /\ Span(s, t, d) = IF s <= t THEN t - s ELSE t - s + d
      /\ Span(h, Step(s, d), d) = IF h <= Step(s, d) THEN Step(s, d) - h ELSE Step(s, d) - h + d
  BY <1>1, <1>2, SMT
<1>4. /\ Span(h, Step(s, d), d) <= Span(h, t, d) /\ Span(h, s, d) <= Span(h, Step(s, d), d)
      /\ Span(s, s, d) < Span(s, t, d)
  BY <1>3, SMT DEF Step
<1>5. ASSUME NEW k \in 0 .. d - 1
      PROVE  Span(Step(s, d), k, d) < Span(Step(s, d), t, d) <=> (Span(s, k, d) < Span(s, t, d) /\ k # s)
  <2>1. /\ Span(s, k, d) = IF s <= k THEN k - s ELSE k - s + d
        /\ Span(Step(s, d), k, d) = IF Step(s, d) <= k THEN k - Step(s, d) ELSE k - Step(s, d) + d
        /\ Span(Step(s, d), t, d) = IF Step(s, d) <= t THEN t - Step(s, d) ELSE t - Step(s, d) + d
    BY <1>1, <1>2
  <2> QED BY <1>3, <2>1, SMT DEF Step
<1> QED BY <1>4, <1>5

\* The driver learns that the reader has got to e, at or before s.
LEMMA HeadLearnt ==
  ASSUME NEW d \in Nat, d > 0, NEW h \in 0 .. d - 1, NEW s \in 0 .. d - 1, NEW t \in 0 .. d - 1,
         NEW e \in 0 .. d - 1,
         Span(h, e, d) <= Span(h, s, d), Span(h, s, d) <= Span(h, t, d)
  PROVE  Span(e, s, d) <= Span(e, t, d)
<1>1. \A i, j \in 0 .. d - 1 : Span(i, j, d) = IF i <= j THEN j - i ELSE j - i + d
  BY RoundIs
<1>2. /\ Span(h, t, d) = IF h <= t THEN t - h ELSE t - h + d
      /\ Span(h, s, d) = IF h <= s THEN s - h ELSE s - h + d
      /\ Span(h, e, d) = IF h <= e THEN e - h ELSE e - h + d
      /\ Span(e, s, d) = IF e <= s THEN s - e ELSE s - e + d
      /\ Span(e, t, d) = IF e <= t THEN t - e ELSE t - e + d
  BY <1>1
<1> QED BY <1>2, SMT

\* The controller writes a completion to entry i and goes on.
LEMMA PatternMoves ==
  ASSUME NEW d \in Nat, d > 0, NEW i \in 0 .. d - 1, NEW phase \in Phases,
         NEW S, NEW ring \in [0 .. d - 1 -> S], NEW e, e.phase = phase,
         Pattern(ring, i, phase, d)
  PROVE  Pattern([ring EXCEPT ![i] = e], Step(i, d), StepPhase(i, phase, d), d)
<1> DEFINE new == [ring EXCEPT ![i] = e]
<1> SUFFICES ASSUME NEW k \in 0 .. d - 1
             PROVE  new[k].phase = IF k < Step(i, d) THEN StepPhase(i, phase, d)
                                   ELSE Flip(StepPhase(i, phase, d))
  BY DEF Pattern
<1>1. ring[k].phase = IF k < i THEN phase ELSE Flip(phase)
  BY DEF Pattern
<1>2. new[k].phase = IF k = i THEN phase ELSE ring[k].phase
  OBVIOUS
<1> HIDE DEF new
<1> QED BY <1>1, <1>2, SMT DEF Step, StepPhase, Flip, Phases

-----------------------------------------------------------------------------
(* The steps of threads.                                                   *)

\* The I/O rings once the driver is ready.
LEMMA ReadyFacts ==
  ASSUME IInv, ini = "ready"
  PROVE  /\ g \in GType /\ ctl \in CtlType /\ ini \in IoUp
         /\ g.io_q_depth \in Nat /\ g.io_q_depth >= 2 /\ ctl.depth = g.io_q_depth
         /\ {g.iosq_tail, g.iosq_head, g.iocq_head, g.next_io_cid, ctl.sq_head, ctl.cq_tail}
              \subseteq 0 .. g.io_q_depth - 1
         /\ iosq \in [0 .. g.io_q_depth - 1 -> Commands \cup {NULL}]
         /\ iocq \in [0 .. g.io_q_depth - 1 -> IoEntries]
         /\ cmd \in [0 .. g.io_q_depth - 1 -> CommandStates]
         /\ thr \in [Threads -> ThreadStates]
         /\ outcome \in [Threads -> {"none", "ok", "error"}]
<1>1. g \in GType /\ ctl \in CtlType /\ ini \in IoUp
  BY DEF IInv, Typed, IoUp
<1>2. g.io_q_depth \in Nat /\ ctl.mqes \in Nat
  BY <1>1, SMT DEF GType, CtlType
<1>3. g.io_q_depth >= 2 /\ ctl.depth = g.io_q_depth
  BY <1>1, <1>2, SMT DEF IInv, Started, DepthOk
<1> QED BY <1>1, <1>2, <1>3 DEF IInv, Typed, Rings

\* What a thread is by where it is.
LEMMA ThreadIs ==
  ASSUME NEW x \in ThreadStates
  PROVE  /\ x.pc \in {"idle", "submit", "wait", "release"}
         /\ x.pc = "idle" => x = Idle
         /\ x.pc = "submit" =>
              x \in [pc : {"submit"}, kind : Kinds, sector : Sectors, page : Nat \cup {NULL},
                     two : BOOLEAN]
         /\ x.pc = "wait" =>
              x \in [pc : {"wait"}, cid : Nat, kind : Kinds, sector : Sectors, page : Nat \cup {NULL},
                     two : BOOLEAN]
         /\ x.pc = "release" =>
              x \in [pc : {"release"}, cid : Nat, page : Nat \cup {NULL}, ok : BOOLEAN]
BY SMT DEF ThreadStates, Idle

\* A step of thread t, which waits for no command, after which it is idle or
\* about to submit one.
LEMMA OtherCalls ==
  ASSUME IInv, ini = "ready", NEW t \in Threads, thr[t].pc # "wait",
         thr'[t].pc \in {"idle", "submit"}, outcome'[t] = "none",
         \A u \in Threads \ {t} : thr'[u] = thr[u] /\ outcome'[u] = outcome[u],
         cmd' \in [0 .. g.io_q_depth - 1 -> CommandStates],
         \A u \in Threads \ {t} : Waits(u) => cmd'[thr[u].cid] = cmd[thr[u].cid],
         g'.next_io_cid \in 0 .. g.io_q_depth - 1,
         UNCHANGED <<ini, iosq, iocq, ctl, g.io_q_depth, g.iosq_tail, g.iosq_head, g.iocq_head,
                     g.iocq_phase>>
  PROVE  Quiet' /\ Rings' /\ Flight' /\ Owners' /\ Answers'
<1>1. ini \in IoUp /\ ini' = "ready" /\ ini' \in IoUp
  BY ReadyFacts
<1>2. \A k : (Announced(k)' <=> Announced(k)) /\ (Posted(k)' <=> Posted(k))
  BY DEF Announced, Posted
<1>3. \A u \in Threads : Open(u)' <=> Open(u)
  BY DEF Open
<1>4. \A c : OnItsWay(c) => OnItsWay(c)'
  <2> SUFFICES ASSUME NEW c, OnItsWay(c) PROVE OnItsWay(c)'
    OBVIOUS
  <2>1. c.buf \in Threads /\ c.buf # t
    BY DEF OnItsWay, Open, Commands
  <2> QED BY <1>3, <2>1 DEF OnItsWay
<1>5. \A u \in Threads : Waits(u)' => u # t /\ Waits(u)
  BY DEF Waits
<1>6. \A e : \A u \in Threads : AnswerFor(e, u) => AnswerFor(e, u)'
  <2> SUFFICES ASSUME NEW e, NEW u \in Threads, AnswerFor(e, u) PROVE AnswerFor(e, u)'
    OBVIOUS
  <2>1. u # t /\ Waits(u)
    BY DEF AnswerFor, Waits
  <2>2. thr'[u] = thr[u] /\ outcome'[u] = outcome[u] /\ cmd'[thr[u].cid] = cmd[thr[u].cid]
    BY <2>1
  <2> QED BY <2>2 DEF AnswerFor
<1>7. Quiet'
  BY <1>1 DEF Quiet
<1>8. Rings'
  <2>1. g'.next_io_cid \in 0 .. g'.io_q_depth - 1
    BY SMTT(20)
  <2> QED BY <1>1, <2>1, SMT DEF IInv, Rings, Pattern
<1>9. Flight'
  <2>1. Flight
    BY DEF IInv
  <2>2. iosq' = iosq /\ ctl' = ctl
    OBVIOUS
  <2>3. \A k : Announced(k)' => OnItsWay(iosq[k])'
    <3>1. \A k : Announced(k) => OnItsWay(iosq[k])
      BY <1>1, <2>1 DEF Flight
    <3>2. ASSUME NEW k, Announced(k)' PROVE \A y : y = iosq[k] => OnItsWay(y)'
      BY <1>2, <1>4, <3>1, <3>2
    <3> QED BY <2>2, <3>2, SMT DEF OnItsWay, Open
  <2>4. \A c \in ctl'.busy : OnItsWay(c)'
    BY <1>1, <1>4, <2>1, <2>2 DEF Flight
  <2>5. /\ \A j, k : Announced(j)' /\ Announced(k)' /\ iosq'[j].buf = iosq'[k].buf => j = k
        /\ \A k, c : Announced(k)' /\ c \in ctl'.busy => iosq'[k].buf # c.buf
    <3>1. /\ \A j, k : Announced(j) /\ Announced(k) /\ iosq[j].buf = iosq[k].buf => j = k
          /\ \A k, c : Announced(k) /\ c \in ctl.busy => iosq[k].buf # c.buf
      BY <1>1, <2>1 DEF Flight
    <3>2. ASSUME NEW j, NEW k, Announced(j)', Announced(k)', iosq'[j].buf = iosq'[k].buf
          PROVE  j = k
      <4>1. Announced(j) /\ Announced(k) /\ iosq[j].buf = iosq[k].buf
        BY <1>2, <2>2, <3>2
      <4> QED BY <3>1, <4>1
    <3>3. ASSUME NEW k, NEW c, Announced(k)', c \in ctl'.busy
          PROVE  iosq'[k].buf # c.buf
      <4>1. Announced(k) /\ c \in ctl.busy /\ iosq'[k] = iosq[k]
        BY <1>2, <2>2, <3>3
      <4> QED BY <3>1, <4>1
    <3> QED BY <3>2, <3>3
  <2>6. (\A c, e \in ctl'.busy : c.buf = e.buf => c = e) /\ IsFiniteSet(ctl'.busy)
    BY <1>1, <2>1, <2>2 DEF Flight
  <2>7. \A u \in Threads :
          Open(u)' => (\E k : Announced(k)' /\ iosq'[k].buf = u) \/ (\E c \in ctl'.busy : c.buf = u)
    <3>1. \A u \in Threads :
            Open(u) => (\E k : Announced(k) /\ iosq[k].buf = u) \/ (\E c \in ctl.busy : c.buf = u)
      BY <1>1, <2>1 DEF Flight
    <3> SUFFICES ASSUME NEW u \in Threads, Open(u)'
                 PROVE  (\E k : Announced(k)' /\ iosq'[k].buf = u) \/ (\E c \in ctl'.busy : c.buf = u)
      OBVIOUS
    <3>2. Open(u)
      BY <1>3
    <3>3. CASE \E k : Announced(k) /\ iosq[k].buf = u
      <4>1. PICK k : Announced(k) /\ iosq[k].buf = u
        BY <3>3
      <4>2. Announced(k)' /\ iosq'[k].buf = u
        BY <1>2, <2>2, <4>1
      <4> QED BY <4>2
    <3>4. CASE \E c \in ctl.busy : c.buf = u
      BY <2>2, <3>4
    <3> QED BY <3>1, <3>2, <3>3, <3>4
  <2> QED BY <2>3, <2>4, <2>5, <2>6, <2>7 DEF Flight
<1>10. Owners'
  <2>1. \A u \in Threads : thr'[u].pc \in {"idle", "submit"} => outcome'[u] = "none"
    BY DEF IInv, Owners
  <2>2. ASSUME NEW u \in Threads, Waits(u)'
        PROVE  /\ u # t /\ thr'[u] = thr[u] /\ outcome'[u] = outcome[u]
               /\ Waits(u) /\ cmd'[thr[u].cid] = cmd[thr[u].cid]
    BY <1>5, <2>2
  <2>3. \A u \in Threads : Waits(u)' => thr'[u].cid \in 0 .. g'.io_q_depth - 1 /\ cmd'[thr'[u].cid].in_use
    BY <1>1, <2>2, SMT DEF IInv, Owners
  <2>4. \A v, u \in Threads : Waits(v)' /\ Waits(u)' /\ thr'[v].cid = thr'[u].cid => v = u
    BY <1>1, <2>2, SMT DEF IInv, Owners
  <2>5. \A u \in Threads : thr'[u].pc = "wait" /\ cmd'[thr'[u].cid].done => Told(u)'
    <3> SUFFICES ASSUME NEW u \in Threads, thr'[u].pc = "wait", cmd'[thr'[u].cid].done
                 PROVE  Told(u)'
      OBVIOUS
    <3>1. thr'[u] = thr[u] /\ outcome'[u] = outcome[u] /\ cmd'[thr[u].cid] = cmd[thr[u].cid]
      BY <2>2 DEF Waits
    <3>2. Told(u)
      BY <1>1, <3>1, SMTT(20) DEF IInv, Owners
    <3> QED BY <3>1, <3>2, SMT DEF Told
  <2> QED BY <2>1, <2>3, <2>4, <2>5 DEF Owners
<1>11. Answers'
  BY <1>1, <1>2, <1>6 DEF IInv, Answers
<1> QED BY <1>7, <1>8, <1>9, <1>10, <1>11

\* nvme_free_prp, for a call that ends.
LEMMA PageFreed ==
  ASSUME Pages, ini = "ready", NEW t \in Threads, thr[t].pc # "idle",
         thr \in [Threads -> ThreadStates], thr' = [thr EXCEPT ![t] = Idle],
         FreePrp(thr[t].page), UNCHANGED <<ini, id_buf>>, id_buf = NULL
  PROVE  Pages'
<1> DEFINE p == thr[t].page
<1>1. thr'[t] = Idle /\ thr'[t].pc = "idle" /\ \A u \in Threads \ {t} : thr'[u] = thr[u]
  BY DEF Idle
<1>2. Lists' = Lists \ {t}
  BY <1>1 DEF Lists
<1>3. Kept' = Kept /\ Kept \in Nat
  BY DEF Kept
<1>4. free \subseteq DOMAIN plist /\ IsFiniteSet(DOMAIN plist) /\ IsFiniteSet(Lists)
  BY DEF Pages
<1>5. /\ IsFiniteSet(free) /\ Cardinality(free) \in Nat /\ Cardinality(Lists) \in Nat
      /\ Cardinality({id_buf} \ {NULL}) \in Nat
  <2>1. IsFiniteSet(free)
    BY <1>4, FS_Subset
  <2>2. IsFiniteSet({id_buf})
    BY FS_Singleton
  <2>3. IsFiniteSet({id_buf} \ {NULL})
    BY <2>2, FS_Subset
  <2> QED BY <1>4, <2>1, <2>3, FS_CardinalityType
<1>6. CASE p = NULL
  <2>1. t \notin Lists
    BY <1>6 DEF Lists
  <2>2. Lists' = Lists /\ free' = free /\ plist' = plist
    BY <1>2, <1>6, <2>1 DEF FreePrp
  <2>3. \A u \in Lists : thr'[u] = thr[u]
    BY <1>1, <2>1 DEF Lists
  <2> QED BY <1>3, <2>2, <2>3 DEF Pages
<1>7. CASE p # NULL
  <2>1. t \in Lists
    BY <1>7 DEF Lists
  <2>2. p \in DOMAIN plist /\ p \notin free /\ plist[p] = t
    BY <2>1 DEF Pages
  <2>3. free' = free \cup {p} /\ plist' = [plist EXCEPT ![p] = NULL]
    BY <1>7 DEF FreePrp
  <2>4. Cardinality(free') = Cardinality(free) + 1 /\ Cardinality(Lists') = Cardinality(Lists) - 1
    <3>1. Cardinality(free \cup {p}) = Cardinality(free) + 1
      BY <1>5, <2>2, FS_AddElement
    <3>2. Cardinality(Lists \ {t}) = Cardinality(Lists) - 1
      BY <1>4, <2>1, FS_RemoveElement
    <3> QED BY <1>2, <2>3, <3>1, <3>2
  <2>5. IsFiniteSet(Lists')
    BY <1>2, <1>4, FS_Subset
  <2>6. \A u \in Lists' : thr'[u] = thr[u] /\ u \in Lists /\ u # t
    BY <1>1, <1>2 DEF Lists
  <2>7. \A u \in Lists' : thr'[u].page \in DOMAIN plist \ free' /\ plist'[thr'[u].page] = u
    <3> SUFFICES ASSUME NEW u \in Lists'
                 PROVE  thr'[u].page \in DOMAIN plist \ free' /\ plist'[thr'[u].page] = u
      OBVIOUS
    <3>1. thr'[u] = thr[u] /\ thr[u].page \in DOMAIN plist \ free /\ plist[thr[u].page] = u /\ u # t
      BY <2>6 DEF Pages
    <3>2. thr[u].page # p
      BY <2>2, <3>1
    <3> QED BY <2>3, <3>1, <3>2, SMT
  <2>8. /\ DOMAIN plist' = DOMAIN plist /\ plist' \in [DOMAIN plist -> Threads \cup {NULL}]
        /\ free' \subseteq DOMAIN plist
    BY <2>2, <2>3 DEF Pages
  <2>9. id_buf # NULL => id_buf \in DOMAIN plist \ free'
    OBVIOUS
  <2>10. Cardinality(free) + Cardinality({id_buf} \ {NULL}) + Cardinality(Lists) + Kept
           = Cardinality(DOMAIN plist)
    BY DEF Pages
  <2>11. Cardinality(free') + Cardinality({id_buf} \ {NULL}) + Cardinality(Lists') + Kept
           = Cardinality(DOMAIN plist)
    BY <1>3, <1>5, <2>4, <2>10, SMT
  <2> QED BY <1>3, <2>5, <2>7, <2>8, <2>9, <2>11 DEF Pages
<1> QED BY <1>6, <1>7

\* The guards of nvme_read and nvme_write, and nvme_build_prp.
LEMMA CallKeeps ==
  ASSUME IInv, NEW t \in Threads, NEW kind \in {"read", "write"}, NEW s \in Sectors,
         NEW v \in Values, NEW len \in Lens, Call(t, kind, s, v, len)
  PROVE  IInv'
<1> DEFINE p == PrpPage(len)
<1>1. /\ ini \in {"ready", "failed"} /\ thr[t].pc = "idle" /\ buf' = [buf EXCEPT ![t] = v]
      /\ UNCHANGED <<ini, id_buf, g, iosq, iocq, cmd, ctl, disk, outcome>>
  BY DEF Call, ivars
<1>2. thr \in [Threads -> ThreadStates] /\ buf \in [Threads -> Values] /\ thr[t] = Idle
  BY <1>1, ThreadIs DEF IInv, Typed
<1>3. Started' /\ Admin'
  BY <1>1, SameAdmin DEF IInv
<1>4. buf' \in [Threads -> Values]
  BY <1>1, <1>2
<1>5. CASE Refused(len)
  <2>1. thr' = thr /\ free' = free /\ plist' = plist
    BY <1>2, <1>5 DEF Call
  <2>2. Typed'
    BY <1>1, <1>4, <2>1 DEF IInv, Typed
  <2>3. Pages'
    BY <1>1, <2>1, SamePages DEF IInv
  <2>4. Quiet' /\ Rings' /\ Flight' /\ Owners' /\ Answers'
    BY <1>1, <2>1, SameIo DEF IInv, IoView
  <2> QED BY <1>3, <2>2, <2>3, <2>4 DEF IInv
<1>6. CASE ~Refused(len)
  <2>1. ini = "ready" /\ id_buf = NULL
    <3>1. g.ready
      BY <1>6 DEF Refused
    <3> QED BY <3>1 DEF IInv, Started, Admin
  <2>2. /\ thr' = [thr EXCEPT ![t] = [pc |-> "submit", kind |-> kind, sector |-> s, page |-> p,
                                      two |-> len = 2]]
        /\ free' = free \ {p}
        /\ plist' = [r \in DOMAIN plist |-> IF r = p THEN t ELSE plist[r]]
    BY <1>6 DEF Call
  <2>3. /\ free \subseteq Nat /\ free \subseteq DOMAIN plist /\ IsFiniteSet(free) /\ NULL \notin free
        /\ IsFiniteSet(Lists)
    <3>1. /\ free \subseteq Nat /\ free \subseteq DOMAIN plist /\ IsFiniteSet(DOMAIN plist)
          /\ NULL \notin free /\ IsFiniteSet(Lists)
      BY DEF IInv, Pages
    <3> QED BY <3>1, FS_Subset
  <2>4. p = NULL \/ p \in free
    <3>1. len > 1 => free # {}
      BY <1>6 DEF Refused, PrpFails
    <3> QED BY <2>3, <3>1, LowestIs DEF PrpPage
  <2> HIDE DEF p
  <2>5. /\ thr'[t].pc = "submit" /\ thr'[t].page = p
        /\ \A u \in Threads \ {t} : thr'[u] = thr[u]
    BY <1>2, <2>2
  <2>6. thr' \in [Threads -> ThreadStates]
    <3>1. (len = 2) \in BOOLEAN
      OBVIOUS
    <3>2. [pc |-> "submit", kind |-> kind, sector |-> s, page |-> p, two |-> len = 2] \in ThreadStates
      BY <2>3, <2>4, <3>1 DEF ThreadStates, Kinds
    <3> QED BY <1>2, <2>2, <3>2
  <2>7. Typed'
    BY <1>1, <1>4, <2>6 DEF IInv, Typed
  <2>8. Pages'
    <3>1. t \notin Lists
      BY <1>1 DEF Lists
    <3>2. Lists' = IF p = NULL THEN Lists ELSE Lists \cup {t}
      BY <1>1, <2>5 DEF Lists
    <3>3. Kept' = Kept /\ Kept \in Nat
      BY <1>1 DEF Kept
    <3>4. /\ Cardinality(free) \in Nat /\ Cardinality(Lists) \in Nat
          /\ Cardinality({id_buf} \ {NULL}) = 0
      <4>1. {id_buf} \ {NULL} = {}
        BY <2>1
      <4> QED BY <2>3, <4>1, FS_CardinalityType, FS_EmptySet
    <3>5. Cardinality(free) + Cardinality({id_buf} \ {NULL}) + Cardinality(Lists) + Kept
            = Cardinality(DOMAIN plist)
      BY <2>1 DEF IInv, Pages
    <3>6. /\ IsFiniteSet(Lists')
          /\ Cardinality(free') + Cardinality({id_buf} \ {NULL}) + Cardinality(Lists') + Kept
               = Cardinality(DOMAIN plist)
      <4>1. CASE p = NULL
        <5>1. free' = free /\ Lists' = Lists
          BY <2>2, <2>3, <3>2, <4>1
        <5> QED BY <2>3, <3>5, <5>1
      <4>2. CASE p # NULL
        <5>1. p \in free /\ Lists' = Lists \cup {t}
          BY <2>4, <3>2, <4>2
        <5>2. Cardinality(free \ {p}) = Cardinality(free) - 1
          BY <2>3, <5>1, FS_RemoveElement
        <5>3. IsFiniteSet(Lists \cup {t}) /\ Cardinality(Lists \cup {t}) = Cardinality(Lists) + 1
          BY <2>3, <3>1, FS_AddElement, SMTT(20)
        <5>4. Cardinality(free') = Cardinality(free) - 1 /\ Cardinality(Lists') = Cardinality(Lists) + 1
          BY <2>2, <5>1, <5>2, <5>3, ZenonT(30)
        <5> QED BY <3>3, <3>4, <3>5, <5>1, <5>3, <5>4, SMT
      <4> QED BY <4>1, <4>2
    <3>7. \A u \in Lists' : thr'[u].page \in DOMAIN plist \ free' /\ plist'[thr'[u].page] = u
      <4> SUFFICES ASSUME NEW u \in Lists'
                   PROVE  thr'[u].page \in DOMAIN plist \ free' /\ plist'[thr'[u].page] = u
        OBVIOUS
      <4>1. CASE u = t
        <5>1. p \in free
          BY <2>4, <3>1, <3>2, <4>1
        <5>2. p \in DOMAIN plist
          BY <2>3, <5>1
        <5> QED BY <2>2, <2>5, <4>1, <5>2, SMT
      <4>2. CASE u # t
        <5>1. u \in Lists /\ thr'[u] = thr[u]
          BY <2>5, <3>2, <4>2 DEF Lists
        <5>2. thr[u].page \in DOMAIN plist \ free /\ plist[thr[u].page] = u /\ thr[u].page # NULL
          BY <5>1 DEF IInv, Pages, Lists
        <5> QED BY <2>2, <2>4, <5>1, <5>2, SMTT(20)
      <4> QED BY <4>1, <4>2
    <3>8. DOMAIN plist' = DOMAIN plist /\ plist' \in [DOMAIN plist -> Threads \cup {NULL}]
      BY <2>2 DEF IInv, Pages
    <3>9. free' \subseteq DOMAIN plist
      BY <2>2, <2>3
    <3> QED BY <1>1, <2>1, <3>3, <3>6, <3>7, <3>8, <3>9, SMTT(20) DEF IInv, Pages
  <2>9. Quiet' /\ Rings' /\ Flight' /\ Owners' /\ Answers'
    <3>1. outcome'[t] = "none"
      BY <1>1 DEF IInv, Owners
    <3>2. cmd' \in [0 .. g.io_q_depth - 1 -> CommandStates] /\ g'.next_io_cid \in 0 .. g.io_q_depth - 1
      BY <1>1, <2>1, ReadyFacts
    <3> QED BY <1>1, <2>1, <2>5, <3>1, <3>2, OtherCalls
  <2> QED BY <1>3, <2>7, <2>8, <2>9 DEF IInv
<1> QED BY <1>5, <1>6

\* nvme_alloc_cid gives a free identifier.
LEMMA AllocIs ==
  ASSUME IInv, ini = "ready", FreeCids # {}
  PROVE  /\ AllocCid \in 0 .. g.io_q_depth - 1 /\ ~cmd[AllocCid].in_use
         /\ After(AllocCid, g.io_q_depth) \in 0 .. g.io_q_depth - 1
<1> DEFINE d == g.io_q_depth
           f(i) == Span(g.next_io_cid, i, d)
           T == {f(i) : i \in FreeCids}
<1>1. d \in Nat /\ d > 0 /\ g.next_io_cid \in 0 .. d - 1 /\ cmd \in [0 .. d - 1 -> CommandStates]
  BY ReadyFacts, SMT
<1>2. FreeCids \subseteq 0 .. d - 1
  BY <1>1 DEF FreeCids
<1>3. \A i \in 0 .. d - 1 : f(i) \in 0 .. d - 1
  BY <1>1, RoundIs
<1> HIDE DEF f
<1>4. T \subseteq Nat /\ T # {}
  <2>1. \A i \in FreeCids : f(i) \in Nat
    BY <1>2, <1>3, SMT
  <2>2. T \subseteq Nat
    BY <2>1
  <2>3. PICK i : i \in FreeCids
    OBVIOUS
  <2>4. f(i) \in T
    BY <2>3
  <2> QED BY <2>2, <2>4
<1>5. PICK x \in T : \A y \in T : x <= y
  BY <1>4, SmallestOf
<1>6. \E i \in FreeCids : \A j \in FreeCids : f(i) <= f(j)
  <2>1. PICK i \in FreeCids : x = f(i)
    OBVIOUS
  <2>2. \A j \in FreeCids : f(j) \in T
    OBVIOUS
  <2> HIDE DEF T
  <2>3. \A j \in FreeCids : f(i) <= f(j)
    BY <1>5, <2>1, <2>2
  <2> QED BY <2>3
<1>7. AllocCid \in FreeCids
  <2>1. AllocCid = CHOOSE i \in FreeCids : \A j \in FreeCids : f(i) <= f(j)
    BY DEF AllocCid, f
  <2> QED BY <1>6, <2>1
<1>8. AllocCid \in 0 .. d - 1 /\ ~cmd[AllocCid].in_use
  BY <1>2, <1>7 DEF FreeCids
<1> QED BY <1>1, <1>8, RoundIs

\* Only a driver that is ready has calls.
LEMMA CallsWhenReady ==
  ASSUME IInv, NEW t \in Threads, thr[t].pc # "idle"
  PROVE  ini = "ready" /\ id_buf = NULL
BY SMT DEF IInv, Quiet, Idle, Admin

\* nvme_submit_io finds no identifier, or the ring full.
LEMMA SubmitFailsKeeps ==
  ASSUME IInv, NEW t \in Threads, NvmeSubmitFails(t)
  PROVE  IInv'
<1> DEFINE d == g.io_q_depth
<1>1. /\ thr[t].pc = "submit" /\ thr' = [thr EXCEPT ![t] = Idle] /\ FreePrp(thr[t].page)
      /\ UNCHANGED <<ini, id_buf, iosq, iocq, ctl, disk, buf, outcome>>
  BY DEF NvmeSubmitFails, ivars
<1>2. ini = "ready" /\ id_buf = NULL
  BY <1>1, CallsWhenReady
<1>3. /\ g \in GType /\ thr \in [Threads -> ThreadStates] /\ Idle \in ThreadStates
      /\ cmd \in [0 .. d - 1 -> CommandStates] /\ g.next_io_cid \in 0 .. d - 1
      /\ d \in Nat
  BY <1>2, ReadyFacts DEF ThreadStates
<1>4. /\ thr' \in [Threads -> ThreadStates] /\ thr'[t].pc = "idle"
      /\ \A u \in Threads \ {t} : thr'[u] = thr[u]
  BY <1>1, <1>3 DEF Idle
<1>5. /\ g' \in GType /\ g'.next_io_cid \in 0 .. d - 1
      /\ UNCHANGED <<g.ready, g.admin_q_depth, g.io_q_depth, g.iosq_tail, g.iosq_head, g.iocq_head,
                     g.iocq_phase>>
      /\ cmd' \in [0 .. d - 1 -> CommandStates]
      /\ \A i \in 0 .. d - 1 : cmd[i].in_use => cmd'[i] = cmd[i]
  <2>1. CASE FreeCids = {}
    BY <1>3, <2>1 DEF NvmeSubmitFails
  <2>2. CASE FreeCids # {}
    <3>1. /\ AllocCid \in 0 .. d - 1 /\ ~cmd[AllocCid].in_use /\ After(AllocCid, d) \in 0 .. d - 1
      BY <1>2, <2>2, AllocIs
    <3>2. /\ g' = [g EXCEPT !.next_io_cid = After(AllocCid, d)]
          /\ cmd' = [cmd EXCEPT ![AllocCid] = NoCommand]
      BY <2>2 DEF NvmeSubmitFails
    <3>3. NoCommand \in CommandStates
      BY DEF NoCommand, CommandStates
    <3>4. After(AllocCid, d) \in Nat
      BY <1>3, <3>1, SMT
    <3>5. /\ g' \in GType /\ g'.next_io_cid = After(AllocCid, d)
          /\ UNCHANGED <<g.ready, g.admin_q_depth, g.io_q_depth, g.iosq_tail, g.iosq_head,
                         g.iocq_head, g.iocq_phase>>
      BY <1>3, <3>2, <3>4, SMTT(20) DEF GType
    <3>6. /\ cmd' \in [0 .. d - 1 -> CommandStates]
          /\ \A i \in 0 .. d - 1 : cmd[i].in_use => cmd'[i] = cmd[i]
      BY <1>3, <3>1, <3>2, <3>3
    <3> QED BY <3>1, <3>5, <3>6
  <2> QED BY <2>1, <2>2
<1>6. Typed'
  BY <1>1, <1>4, <1>5 DEF IInv, Typed
<1>7. Started' /\ Admin'
  BY <1>1, <1>2, <1>5, SameAdmin DEF IInv
<1>8. Pages'
  BY <1>1, <1>2, <1>3, PageFreed DEF IInv
<1>9. Quiet' /\ Rings' /\ Flight' /\ Owners' /\ Answers'
  <2>1. outcome'[t] = "none"
    BY <1>1, ZenonT(30) DEF IInv, Owners
  <2>2. \A u \in Threads \ {t} : Waits(u) => cmd'[thr[u].cid] = cmd[thr[u].cid]
    BY <1>2, <1>5 DEF IInv, Owners, IoUp
  <2> QED BY <1>1, <1>2, <1>4, <1>5, <2>1, <2>2, OtherCalls
<1> QED BY <1>6, <1>7, <1>8, <1>9 DEF IInv

\* nvme_release_cid, nvme_free_prp, and the return.
LEMMA ReturnKeeps ==
  ASSUME IInv, NEW t \in Threads, NvmeReturn(t)
  PROVE  IInv'
<1> DEFINE d == g.io_q_depth
<1>1. /\ thr[t].pc = "release" /\ thr' = [thr EXCEPT ![t] = Idle] /\ FreePrp(thr[t].page)
      /\ cmd' = [cmd EXCEPT ![thr[t].cid] = NoCommand]
      /\ outcome' = [outcome EXCEPT ![t] = "none"]
      /\ UNCHANGED <<ini, id_buf, g, iosq, iocq, ctl, disk, buf>>
  BY DEF NvmeReturn, ivars
<1>2. ini = "ready" /\ id_buf = NULL
  BY <1>1, CallsWhenReady
<1>3. /\ thr \in [Threads -> ThreadStates] /\ Idle \in ThreadStates
      /\ cmd \in [0 .. d - 1 -> CommandStates] /\ g.next_io_cid \in 0 .. d - 1
      /\ outcome \in [Threads -> {"none", "ok", "error"}]
  BY <1>2, ReadyFacts DEF ThreadStates
<1>4. /\ thr' \in [Threads -> ThreadStates] /\ thr'[t].pc = "idle"
      /\ \A u \in Threads \ {t} : thr'[u] = thr[u]
  BY <1>1, <1>3 DEF Idle
<1>5. /\ outcome' \in [Threads -> {"none", "ok", "error"}] /\ outcome'[t] = "none"
      /\ \A u \in Threads \ {t} : outcome'[u] = outcome[u]
  BY <1>1, <1>3
<1>6. cmd' \in [0 .. d - 1 -> CommandStates]
  <2>1. NoCommand \in CommandStates
    BY DEF NoCommand, CommandStates
  <2> QED BY <1>1, <1>3, <2>1
<1>7. \A u \in Threads \ {t} : Waits(u) => cmd'[thr[u].cid] = cmd[thr[u].cid]
  <2> SUFFICES ASSUME NEW u \in Threads \ {t}, Waits(u) PROVE cmd'[thr[u].cid] = cmd[thr[u].cid]
    OBVIOUS
  <2>1. Waits(t)
    BY <1>1 DEF Waits
  <2>2. thr[u].cid # thr[t].cid /\ thr[u].cid \in 0 .. d - 1
    BY <1>2, <2>1 DEF IInv, Owners, IoUp
  <2> QED BY <1>1, <1>3, <2>2
<1>8. Typed'
  BY <1>1, <1>4, <1>5 DEF IInv, Typed
<1>9. Started' /\ Admin'
  BY <1>1, <1>2, SameAdmin DEF IInv
<1>10. Pages'
  BY <1>1, <1>2, <1>3, PageFreed DEF IInv
<1>11. Quiet' /\ Rings' /\ Flight' /\ Owners' /\ Answers'
  BY <1>1, <1>2, <1>3, <1>4, <1>5, <1>6, <1>7, OtherCalls, SMTT(20)
<1> QED BY <1>8, <1>9, <1>10, <1>11 DEF IInv

\* The loop of nvme_wait_cid ends.
LEMMA WaitEndsKeeps ==
  ASSUME IInv, NEW t \in Threads, NvmeWaitEnds(t)
  PROVE  IInv' /\ outcome[t] # "none" /\ (cmd[thr[t].cid].ok <=> outcome[t] = "ok")
<1> DEFINE d == g.io_q_depth
           c == thr[t]
           x == [pc |-> "release", cid |-> c.cid, page |-> c.page, ok |-> cmd[c.cid].ok]
<1>1. /\ c.pc = "wait" /\ cmd[c.cid].done /\ thr' = [thr EXCEPT ![t] = x]
      /\ UNCHANGED <<ini, id_buf, free, g, iosq, iocq, cmd, ctl, plist, disk, buf, outcome>>
  BY DEF NvmeWaitEnds, CommandDone, ivars
<1>2. ini = "ready" /\ id_buf = NULL /\ ini \in IoUp
  BY <1>1, CallsWhenReady DEF IoUp
<1>3. /\ thr \in [Threads -> ThreadStates] /\ cmd \in [0 .. d - 1 -> CommandStates]
  BY <1>2, ReadyFacts
<1>4. c.cid \in 0 .. d - 1 /\ Told(t)
  BY <1>1, <1>2 DEF IInv, Owners, Waits
<1>5. x \in ThreadStates
  <2>1. c.cid \in Nat /\ c.page \in Nat \cup {NULL}
    BY <1>1, <1>3, ThreadIs
  <2>2. cmd[c.cid].ok \in BOOLEAN
    BY <1>3, <1>4 DEF CommandStates
  <2> QED BY <2>1, <2>2 DEF ThreadStates
<1>6. /\ thr' \in [Threads -> ThreadStates] /\ thr'[t].pc = "release"
      /\ thr'[t].cid = thr[t].cid /\ thr'[t].page = thr[t].page
      /\ \A u \in Threads \ {t} : thr'[u] = thr[u]
  BY <1>1, <1>3, <1>5, SMTT(20)
<1>7. Typed'
  BY <1>1, <1>6 DEF IInv, Typed
<1>8. Started' /\ Admin'
  BY <1>1, <1>2, SameAdmin DEF IInv
<1>9. Pages'
  BY <1>1, <1>6, SamePages DEF IInv
<1>10. Quiet' /\ Rings'
  BY <1>1, <1>2 DEF IInv, Quiet, Rings, Pattern
<1>11. \A k : (Announced(k)' <=> Announced(k)) /\ (Posted(k)' <=> Posted(k))
  BY <1>1 DEF Announced, Posted
<1>12. \A u \in Threads : /\ Open(u)' <=> Open(u)
                          /\ Open(u) => u # t
                          /\ Waits(u)' <=> Waits(u)
  BY <1>1, <1>4, <1>6 DEF Open, Told, Waits
<1>13. Flight'
  <2>1. \A e : OnItsWay(e) => OnItsWay(e)'
    <3> SUFFICES ASSUME NEW e, OnItsWay(e) PROVE OnItsWay(e)'
      OBVIOUS
    <3>1. e.buf \in Threads /\ e.buf # t
      BY <1>12 DEF OnItsWay, Commands
    <3> QED BY <1>6, <1>12, <3>1 DEF OnItsWay
  <2> QED BY <1>1, <1>2, <1>11, <1>12, <2>1 DEF IInv, Flight
<1>14. Owners'
  <2>1. \A u \in Threads : thr'[u].cid = thr[u].cid
    BY <1>6
  <2>2. \A u \in Threads : thr'[u].pc = "wait" => u # t
    BY <1>6
  <2>3. \A u \in Threads : Told(u)' <=> Told(u)
    BY <1>1, <2>1 DEF Told
  <2> QED BY <1>1, <1>2, <1>6, <1>12, <2>1, <2>2, <2>3, SMT DEF IInv, Owners
<1>15. Answers'
  <2>1. \A e : \A u \in Threads : AnswerFor(e, u) => AnswerFor(e, u)'
    BY <1>1, <1>6 DEF AnswerFor
  <2> QED BY <1>1, <1>2, <1>11, <2>1 DEF IInv, Answers
<1> QED BY <1>4, <1>7, <1>8, <1>9, <1>10, <1>13, <1>14, <1>15 DEF IInv, Told

\* nvme_submit_io.
LEMMA SubmitKeeps ==
  ASSUME IInv, NEW t \in Threads, NvmeSubmit(t)
  PROVE  IInv' /\ outcome[t] = "none"
<1> DEFINE d == g.io_q_depth
           c == thr[t]
           cid == AllocCid
           tail == g.iosq_tail
           e == [cid |-> cid, kind |-> c.kind, sector |-> c.sector, page |-> c.page, two |-> c.two,
                 buf |-> t]
           x == [pc |-> "wait", cid |-> cid, kind |-> c.kind, sector |-> c.sector, page |-> c.page,
                 two |-> c.two]
           used == [NoCommand EXCEPT !.in_use = TRUE]
<1>1. /\ c.pc = "submit" /\ FreeCids # {} /\ ~RingFull
      /\ cmd' = [cmd EXCEPT ![cid] = used]
      /\ iosq' = [iosq EXCEPT ![tail] = e]
      /\ g' = [g EXCEPT !.next_io_cid = After(cid, d), !.iosq_tail = After(tail, d)]
      /\ ctl' = [ctl EXCEPT !.sq_tail = After(tail, d)]
      /\ thr' = [thr EXCEPT ![t] = x]
      /\ UNCHANGED <<ini, id_buf, free, iocq, plist, disk, buf, outcome>>
  BY DEF NvmeSubmit, ivars
<1>2. ini = "ready" /\ id_buf = NULL /\ ini \in IoUp /\ outcome[t] = "none"
  BY <1>1, CallsWhenReady DEF IoUp, IInv, Owners
<1>3. /\ g \in GType /\ ctl \in CtlType /\ d \in Nat /\ d > 0
      /\ thr \in [Threads -> ThreadStates] /\ cmd \in [0 .. d - 1 -> CommandStates]
      /\ iosq \in [0 .. d - 1 -> Commands \cup {NULL}]
      /\ tail \in 0 .. d - 1 /\ ctl.sq_head \in 0 .. d - 1 /\ g.iosq_head \in 0 .. d - 1
  BY <1>2, ReadyFacts, SMT
<1>4. cid \in 0 .. d - 1 /\ ~cmd[cid].in_use /\ After(cid, d) \in 0 .. d - 1
  BY <1>1, <1>2, AllocIs
<1>5. After(tail, d) = Step(tail, d) /\ Step(tail, d) \in 0 .. d - 1
  BY <1>3, RoundIs
<1> HIDE DEF cid
<1>6. c.kind \in Kinds /\ c.sector \in Sectors /\ c.page \in Nat \cup {NULL} /\ c.two \in BOOLEAN
  BY <1>1, <1>3, ThreadIs
<1>7. e \in Commands /\ x \in ThreadStates /\ used \in CommandStates /\ ~used.done /\ used.in_use
  <2>1. cid \in Nat
    BY <1>3, <1>4, SMT
  <2> QED BY <1>6, <2>1 DEF Commands, ThreadStates, CommandStates, NoCommand
<1>8. /\ thr' \in [Threads -> ThreadStates] /\ thr'[t] = x
      /\ \A u \in Threads \ {t} : thr'[u] = thr[u]
      /\ cmd' \in [0 .. d - 1 -> CommandStates] /\ cmd'[cid] = used
      /\ \A i \in 0 .. d - 1 : cmd[i].in_use => cmd'[i] = cmd[i]
      /\ iosq' \in [0 .. d - 1 -> Commands \cup {NULL}] /\ iosq'[tail] = e
      /\ \A k \in 0 .. d - 1 : k # tail => iosq'[k] = iosq[k]
  <2> HIDE DEF e, x, used
  <2> QED BY <1>1, <1>3, <1>4, <1>7
<1>9. /\ thr'[t].pc = "wait" /\ thr'[t].cid = cid /\ thr'[t].kind = c.kind
      /\ thr'[t].sector = c.sector /\ thr'[t].page = c.page /\ thr'[t].two = c.two
      /\ e.cid = cid /\ e.kind = c.kind /\ e.sector = c.sector /\ e.page = c.page /\ e.two = c.two
      /\ e.buf = t
  BY <1>8, SMT
<1> HIDE DEF e, x, used
<1>10. /\ g' \in GType /\ g'.next_io_cid = After(cid, d) /\ g'.iosq_tail = Step(tail, d)
       /\ UNCHANGED <<g.ready, g.admin_q_depth, g.io_q_depth, g.iosq_head, g.iocq_head, g.iocq_phase>>
  <2>1. /\ After(cid, d) \in Nat /\ Step(tail, d) \in Nat
        /\ g' = [g EXCEPT !.next_io_cid = After(cid, d), !.iosq_tail = Step(tail, d)]
    BY <1>1, <1>3, <1>4, <1>5, SMT
  <2> QED BY <1>3, <2>1 DEF GType
<1>11. /\ ctl' \in CtlType /\ ctl'.sq_tail = Step(tail, d)
       /\ UNCHANGED <<ctl.mqes, ctl.depth, ctl.asq_head, ctl.asq_tail, ctl.sq_head, ctl.cq_tail,
                      ctl.cq_head, ctl.cq_phase, ctl.busy>>
  <2>1. Step(tail, d) \in Nat /\ ctl' = [ctl EXCEPT !.sq_tail = Step(tail, d)]
    BY <1>1, <1>3, <1>5, SMT
  <2> QED BY <1>3, <2>1 DEF CtlType
<1>12. Typed'
  BY <1>1, <1>8, <1>10, <1>11 DEF IInv, Typed
<1>13. Started' /\ Admin'
  BY <1>1, <1>2, <1>10, <1>11, SameAdmin DEF IInv
<1>14. Pages'
  <2>1. \A u \in Threads : /\ thr'[u].pc = "idle" <=> thr[u].pc = "idle"
                           /\ thr[u].pc # "idle" => thr'[u].page = thr[u].page
    BY <1>1, <1>8, <1>9
  <2> QED BY <1>1, <2>1, SamePages DEF IInv
<1>15. Span(g.iosq_head, ctl.sq_head, d) <= Span(g.iosq_head, tail, d) /\ Step(tail, d) # g.iosq_head
       /\ ctl.sq_tail = tail
  BY <1>1, <1>2, <1>5 DEF IInv, Rings, RingFull
<1>16. /\ Span(g.iosq_head, ctl.sq_head, d) <= Span(g.iosq_head, Step(tail, d), d)
       /\ ~(Span(ctl.sq_head, tail, d) < Span(ctl.sq_head, tail, d))
       /\ \A k \in 0 .. d - 1 : Span(ctl.sq_head, k, d) < Span(ctl.sq_head, Step(tail, d), d)
                                  <=> (Span(ctl.sq_head, k, d) < Span(ctl.sq_head, tail, d) \/ k = tail)
  BY <1>3, <1>15, TailMoves, SMT
<1>17. Quiet' /\ Rings'
  <2>1. Quiet'
    BY <1>1, <1>2 DEF Quiet
  <2>2. {g'.iosq_tail, g'.iosq_head, g'.iocq_head, g'.next_io_cid, ctl'.sq_head, ctl'.cq_tail}
          \subseteq 0 .. g'.io_q_depth - 1
    BY <1>2, <1>4, <1>5, <1>10, <1>11, ReadyFacts
  <2> QED BY <1>1, <1>2, <1>8, <1>10, <1>11, <1>16, <2>1, <2>2, SMT DEF IInv, Rings, Pattern
<1>18. ASSUME NEW k PROVE /\ Announced(k)' <=> (Announced(k) \/ k = tail)
                          /\ Announced(k) => k # tail /\ iosq'[k] = iosq[k]
                          /\ Posted(k)' <=> Posted(k)
  <2>1. Announced(k)' <=> (Announced(k) \/ k = tail)
    BY <1>3, <1>10, <1>11, <1>15, <1>16 DEF Announced
  <2>2. Announced(k) => k # tail /\ iosq'[k] = iosq[k]
    BY <1>8, <1>15, <1>16 DEF Announced
  <2>3. Posted(k)' <=> Posted(k)
    BY <1>10, <1>11 DEF Posted
  <2> QED BY <2>1, <2>2, <2>3
<1>19. \A u \in Threads : /\ Open(u)' <=> (Open(u) \/ u = t)
                          /\ Open(u) => u # t
                          /\ Waits(u)' <=> (Waits(u) \/ u = t)
                          /\ Waits(u) => u # t
  BY <1>1, <1>2, <1>8, <1>9, SMTT(20) DEF Open, Waits
<1>20. Flight'
  <2>1. \A y : OnItsWay(y) => OnItsWay(y)' /\ y.buf # t
    <3> SUFFICES ASSUME NEW y, OnItsWay(y) PROVE OnItsWay(y)' /\ y.buf # t
      OBVIOUS
    <3>1. y.buf \in Threads /\ y.buf # t
      BY <1>19 DEF OnItsWay, Commands
    <3> QED BY <1>8, <1>19, <3>1 DEF OnItsWay
  <2>2. \A y : y = e => OnItsWay(y)'
    BY <1>7, <1>9, <1>19 DEF OnItsWay
  <2>3. \A k : Announced(k)' => OnItsWay(iosq[k])' /\ (k = tail <=> iosq'[k].buf = t)
    <3> SUFFICES ASSUME NEW k, Announced(k)'
                 PROVE  OnItsWay(iosq[k])' /\ (k = tail <=> iosq'[k].buf = t)
      OBVIOUS
    <3>1. CASE k = tail
      <4>1. iosq'[k] = e
        BY <1>8, <3>1
      <4>2. k = tail <=> iosq'[k].buf = t
        BY <1>9, <3>1, <4>1
      <4>3. OnItsWay(iosq[k])'
        BY <2>2, <4>1 DEF OnItsWay, Open
      <4> QED BY <4>2, <4>3
    <3>2. CASE k # tail
      <4>1. Announced(k) /\ iosq'[k] = iosq[k]
        BY <1>18, <3>2, SMTT(20)
      <4>2. OnItsWay(iosq[k])
        BY <1>2, <4>1 DEF IInv, Flight
      <4>3. iosq[k].buf # t /\ \A y : y = iosq[k] => OnItsWay(y)'
        BY <2>1, <4>2
      <4> QED BY <3>2, <4>1, <4>3 DEF OnItsWay, Open
    <3> QED BY <3>1, <3>2
  <2>4. \A y \in ctl'.busy : OnItsWay(y)' /\ y.buf # t
    BY <1>2, <1>11, <2>1, ZenonT(30) DEF IInv, Flight
  <2>5. \A j, k : Announced(j)' /\ Announced(k)' /\ iosq'[j].buf = iosq'[k].buf => j = k
    <3> SUFFICES ASSUME NEW j, NEW k, Announced(j)', Announced(k)', iosq'[j].buf = iosq'[k].buf
                 PROVE  j = k
      OBVIOUS
    <3>1. \A m, n : Announced(m) /\ Announced(n) /\ iosq[m].buf = iosq[n].buf => m = n
      BY <1>2 DEF IInv, Flight
    <3>2. j = tail <=> k = tail
      BY <2>3
    <3>3. CASE j = tail
      BY <3>2, <3>3
    <3>4. CASE j # tail
      <4>1. Announced(j) /\ iosq'[j] = iosq[j] /\ Announced(k) /\ iosq'[k] = iosq[k]
        BY <1>18, <3>2, <3>4
      <4> QED BY <3>1, <4>1
    <3> QED BY <3>3, <3>4
  <2>6. \A y, z \in ctl'.busy : y.buf = z.buf => y = z
    BY <1>2, <1>11 DEF IInv, Flight
  <2>7. \A k, y : Announced(k)' /\ y \in ctl'.busy => iosq'[k].buf # y.buf
    <3> SUFFICES ASSUME NEW k, NEW y, Announced(k)', y \in ctl'.busy
                 PROVE  iosq'[k].buf # y.buf
      OBVIOUS
    <3>1. \A m, z : Announced(m) /\ z \in ctl.busy => iosq[m].buf # z.buf
      BY <1>2 DEF IInv, Flight
    <3>2. y \in ctl.busy /\ y.buf # t
      BY <1>11, <2>4
    <3>3. CASE k = tail
      BY <2>3, <3>2, <3>3
    <3>4. CASE k # tail
      <4>1. Announced(k) /\ iosq'[k] = iosq[k]
        BY <1>18, <3>4
      <4> QED BY <3>1, <3>2, <4>1
    <3> QED BY <3>3, <3>4
  <2>8. \A u \in Threads :
          Open(u)' => (\E k : Announced(k)' /\ iosq'[k].buf = u) \/ (\E y \in ctl'.busy : y.buf = u)
    <3> SUFFICES ASSUME NEW u \in Threads, Open(u)'
                 PROVE  (\E k : Announced(k)' /\ iosq'[k].buf = u) \/ (\E y \in ctl'.busy : y.buf = u)
      OBVIOUS
    <3>1. CASE u = t
      BY <1>8, <1>9, <1>18, <3>1
    <3>2. CASE u # t
      <4>1. (\E k : Announced(k) /\ iosq[k].buf = u) \/ (\E y \in ctl.busy : y.buf = u)
        BY <1>2, <1>19, <3>2, ZenonT(30) DEF IInv, Flight
      <4> QED BY <1>11, <1>18, <4>1
    <3> QED BY <3>1, <3>2
  <2>9. IsFiniteSet(ctl'.busy)
    BY <1>2, <1>11 DEF IInv, Flight
  <2> QED BY <2>3, <2>4, <2>5, <2>6, <2>7, <2>8, <2>9, ZenonT(30) DEF Flight
<1>21. \A u \in Threads : Waits(u) => /\ thr'[u] = thr[u] /\ thr[u].cid \in 0 .. d - 1
                                      /\ cmd'[thr[u].cid] = cmd[thr[u].cid] /\ cmd[thr[u].cid].in_use
                                      /\ thr[u].cid # cid
  BY <1>2, <1>4, <1>8, <1>19 DEF IInv, Owners
<1>22. Owners'
  <2>1. \A u \in Threads : thr'[u].pc \in {"idle", "submit"} => outcome'[u] = "none"
    BY <1>1, <1>8, <1>9, SMTT(20) DEF IInv, Owners
  <2>2. \A u \in Threads : Waits(u)' => thr'[u].cid \in 0 .. g'.io_q_depth - 1 /\ cmd'[thr'[u].cid].in_use
    <3> SUFFICES ASSUME NEW u \in Threads, Waits(u)'
                 PROVE  thr'[u].cid \in 0 .. d - 1 /\ cmd'[thr'[u].cid].in_use
      BY <1>10
    <3>1. CASE u = t
      BY <1>4, <1>7, <1>8, <1>9, <3>1
    <3>2. CASE u # t
      <4>1. Waits(u)
        BY <1>19, <3>2
      <4> QED BY <1>21, <4>1
    <3> QED BY <3>1, <3>2
  <2>3. \A v, u \in Threads : Waits(v)' /\ Waits(u)' /\ thr'[v].cid = thr'[u].cid => v = u
    <3> SUFFICES ASSUME NEW v \in Threads, NEW u \in Threads, Waits(v)', Waits(u)',
                        thr'[v].cid = thr'[u].cid
                 PROVE  v = u
      OBVIOUS
    <3>1. \A z, y \in Threads : Waits(z) /\ Waits(y) /\ thr[z].cid = thr[y].cid => z = y
      BY <1>2 DEF IInv, Owners
    <3>2. \A z \in Threads : Waits(z)' =>
            z = t \/ (Waits(z) /\ thr'[z] = thr[z] /\ thr'[z].cid # thr'[t].cid)
      BY <1>9, <1>19, <1>21
    <3> QED BY <3>1, <3>2
  <2>4. \A u \in Threads : thr'[u].pc = "wait" /\ cmd'[thr'[u].cid].done => Told(u)'
    <3> SUFFICES ASSUME NEW u \in Threads, thr'[u].pc = "wait", cmd'[thr'[u].cid].done
                 PROVE  Told(u)'
      OBVIOUS
    <3>1. u # t
      BY <1>7, <1>8, <1>9
    <3>2. Waits(u) /\ thr'[u] = thr[u] /\ cmd'[thr[u].cid] = cmd[thr[u].cid] /\ thr[u].pc = "wait"
      BY <1>8, <1>21, <3>1 DEF Waits
    <3>3. Told(u)
      BY <1>2, <3>2 DEF IInv, Owners
    <3> QED BY <1>1, <3>2, <3>3 DEF Told
  <2> QED BY <2>1, <2>2, <2>3, <2>4 DEF Owners
<1>23. Answers'
  <2>1. \A y : \A u \in Threads : AnswerFor(y, u) => AnswerFor(y, u)'
    <3> SUFFICES ASSUME NEW y, NEW u \in Threads, AnswerFor(y, u) PROVE AnswerFor(y, u)'
      OBVIOUS
    <3>1. Waits(u)
      BY DEF AnswerFor, Waits
    <3>2. thr'[u] = thr[u] /\ cmd'[thr[u].cid] = cmd[thr[u].cid]
      BY <1>21, <3>1
    <3> QED BY <1>1, <3>2 DEF AnswerFor
  <2> QED BY <1>1, <1>2, <1>10, <1>11, <1>18, <2>1 DEF IInv, Answers
<1> QED BY <1>2, <1>12, <1>13, <1>14, <1>17, <1>20, <1>22, <1>23 DEF IInv

-----------------------------------------------------------------------------
(* The steps of the controller.                                            *)

LEMMA FetchKeeps ==
  ASSUME IInv, CtlFetch
  PROVE  IInv'
<1> DEFINE d == g.io_q_depth
           s == ctl.sq_head
           c == iosq[s]
<1>1. /\ s # ctl.sq_tail
      /\ ctl' = [ctl EXCEPT !.busy = @ \cup {c}, !.sq_head = After(@, ctl.depth)]
      /\ iosq' = [iosq EXCEPT ![s] = NULL]
      /\ UNCHANGED <<ini, id_buf, free, g, iocq, cmd, plist, thr, disk, buf, outcome>>
  BY DEF CtlFetch, ivars
<1>2. ini = "ready" /\ ini \in IoUp
  BY <1>1 DEF IInv, Quiet, IoUp
<1>3. /\ ctl \in CtlType /\ d \in Nat /\ d > 0 /\ ctl.depth = d
      /\ iosq \in [0 .. d - 1 -> Commands \cup {NULL}]
      /\ g.iosq_tail \in 0 .. d - 1 /\ s \in 0 .. d - 1 /\ g.iosq_head \in 0 .. d - 1
  BY <1>2, ReadyFacts, SMT
<1>4. After(s, d) = Step(s, d) /\ Step(s, d) \in 0 .. d - 1
  BY <1>3, RoundIs
<1>5. Span(g.iosq_head, s, d) <= Span(g.iosq_head, g.iosq_tail, d) /\ ctl.sq_tail = g.iosq_tail
  BY <1>2 DEF IInv, Rings
<1>6. /\ Span(g.iosq_head, Step(s, d), d) <= Span(g.iosq_head, g.iosq_tail, d)
      /\ Span(g.iosq_head, s, d) <= Span(g.iosq_head, Step(s, d), d)
      /\ Span(s, s, d) < Span(s, g.iosq_tail, d)
      /\ \A k \in 0 .. d - 1 : Span(Step(s, d), k, d) < Span(Step(s, d), g.iosq_tail, d)
                                 <=> (Span(s, k, d) < Span(s, g.iosq_tail, d) /\ k # s)
  BY <1>1, <1>3, <1>5, HeadMoves, SMTT(20)
<1>7. Announced(s) /\ OnItsWay(c) /\ c \in Commands
  <2>1. Announced(s)
    BY <1>3, <1>5, <1>6 DEF Announced
  <2> QED BY <1>2, <2>1 DEF IInv, Flight, OnItsWay
<1>8. /\ ctl' \in CtlType /\ ctl'.sq_head = Step(s, d) /\ ctl'.busy = ctl.busy \cup {c}
      /\ UNCHANGED <<ctl.mqes, ctl.depth, ctl.asq_head, ctl.asq_tail, ctl.sq_tail, ctl.cq_tail,
                     ctl.cq_head, ctl.cq_phase>>
  <2>1. /\ Step(s, d) \in Nat /\ ctl.busy \cup {c} \in SUBSET Commands
        /\ ctl' = [ctl EXCEPT !.busy = ctl.busy \cup {c}, !.sq_head = Step(s, d)]
    BY <1>1, <1>3, <1>4, <1>7, SMT DEF CtlType
  <2> QED BY <1>3, <2>1 DEF CtlType
<1>9. Typed'
  BY <1>1, <1>8 DEF IInv, Typed
<1>10. Started' /\ Admin'
  BY <1>1, <1>2, <1>8, SameAdmin DEF IInv
<1>11. Pages'
  BY <1>1, SamePages DEF IInv
<1>12. Quiet' /\ Rings'
  <2>1. iosq' \in [0 .. d - 1 -> Commands \cup {NULL}]
    BY <1>1, <1>3
  <2>2. {g'.iosq_tail, g'.iosq_head, g'.iocq_head, g'.next_io_cid, ctl'.sq_head, ctl'.cq_tail}
          \subseteq 0 .. g'.io_q_depth - 1
    BY <1>1, <1>2, <1>4, <1>8, ReadyFacts
  <2>3. Quiet'
    BY <1>1, <1>2 DEF Quiet
  <2> QED BY <1>1, <1>2, <1>6, <1>8, <2>1, <2>2, <2>3, SMT DEF IInv, Rings, Pattern
<1>13. ASSUME NEW k PROVE /\ Announced(k)' <=> (Announced(k) /\ k # s)
                          /\ Announced(k) /\ k # s => iosq'[k] = iosq[k]
                          /\ Posted(k)' <=> Posted(k)
  <2>1. Announced(k)' <=> (Announced(k) /\ k # s)
    BY <1>1, <1>5, <1>6, <1>8 DEF Announced
  <2>2. Announced(k) /\ k # s => iosq'[k] = iosq[k]
    BY <1>1, <1>3 DEF Announced
  <2>3. Posted(k)' <=> Posted(k)
    BY <1>1, <1>8 DEF Posted
  <2> QED BY <2>1, <2>2, <2>3
<1>14. \A y : OnItsWay(y)' <=> OnItsWay(y)
  BY <1>1 DEF OnItsWay, Open
<1>15. Flight'
  <2> DEFINE B == ctl.busy
  <2>1. /\ \A k : Announced(k) => OnItsWay(iosq[k])
        /\ \A y \in B : OnItsWay(y)
        /\ \A j, k : Announced(j) /\ Announced(k) /\ iosq[j].buf = iosq[k].buf => j = k
        /\ \A y, z \in B : y.buf = z.buf => y = z
        /\ \A k, y : Announced(k) /\ y \in B => iosq[k].buf # y.buf
        /\ \A u \in Threads :
             Open(u) => (\E k : Announced(k) /\ iosq[k].buf = u) \/ (\E y \in B : y.buf = u)
        /\ IsFiniteSet(B)
    BY <1>2 DEF IInv, Flight
  <2>2. \A k : Announced(k)' => OnItsWay(iosq[k])'
    BY <1>1, <1>13, <2>1, SMTT(20) DEF OnItsWay, Open
  <2>3. \A y \in ctl'.busy : OnItsWay(y)'
    BY <1>7, <1>8, <1>14, <2>1
  <2>4. \A j, k : Announced(j)' /\ Announced(k)' /\ iosq'[j].buf = iosq'[k].buf => j = k
    BY <1>13, <2>1, ZenonT(30)
  <2>5. \A y, z \in ctl'.busy : y.buf = z.buf => y = z
    <3>1. \A y \in B : y.buf # c.buf
      BY <1>7, <2>1
    <3>2. \A y \in ctl'.busy : y \in B \/ y = c
      BY <1>8
    <3>3. \A y, z \in B : y.buf = z.buf => y = z
      BY <2>1
    <3> HIDE DEF B
    <3> QED BY <3>1, <3>2, <3>3
  <2>6. \A k, y : Announced(k)' /\ y \in ctl'.busy => iosq'[k].buf # y.buf
    <3> SUFFICES ASSUME NEW k, NEW y, Announced(k)', y \in ctl'.busy
                 PROVE  iosq'[k].buf # y.buf
      OBVIOUS
    <3>1. Announced(k) /\ k # s /\ iosq'[k] = iosq[k]
      BY <1>13
    <3>2. y \in B \/ y = c
      BY <1>8
    <3>3. CASE y \in B
      BY <2>1, <3>1, <3>3
    <3>4. CASE y = c
      BY <1>7, <2>1, <3>1, <3>4
    <3> QED BY <3>2, <3>3, <3>4
  <2>7. \A u \in Threads :
          Open(u)' => (\E k : Announced(k)' /\ iosq'[k].buf = u) \/ (\E y \in ctl'.busy : y.buf = u)
    <3> SUFFICES ASSUME NEW u \in Threads, Open(u)'
                 PROVE  (\E k : Announced(k)' /\ iosq'[k].buf = u) \/ (\E y \in ctl'.busy : y.buf = u)
      OBVIOUS
    <3>1. Open(u)
      BY <1>1 DEF Open
    <3>2. CASE \E k : Announced(k) /\ iosq[k].buf = u
      <4>1. PICK k : Announced(k) /\ iosq[k].buf = u
        BY <3>2
      <4> QED BY <1>8, <1>13, <4>1
    <3>3. CASE \E y \in B : y.buf = u
      BY <1>8, <3>3
    <3> QED BY <2>1, <3>1, <3>2, <3>3
  <2>8. IsFiniteSet(ctl'.busy)
    BY <1>8, <2>1, FS_AddElement, SMT
  <2> QED BY <2>2, <2>3, <2>4, <2>5, <2>6, <2>7, <2>8, SMTT(20) DEF Flight
<1>16. Owners'
  BY <1>1, SMTT(20) DEF IInv, Owners, Waits, Told
<1>17. Answers'
  <2>1. \A y : \A u \in Threads : AnswerFor(y, u)' <=> AnswerFor(y, u)
    BY <1>1 DEF AnswerFor
  <2>2. ASSUME NEW k, Posted(k)'
        PROVE  /\ iocq'[k] \in [cid : Nat, sq_head : 0 .. g'.io_q_depth - 1, ok : BOOLEAN, phase : Phases]
               /\ Span(g'.iosq_head, iocq'[k].sq_head, g'.io_q_depth)
                    <= Span(g'.iosq_head, ctl'.sq_head, g'.io_q_depth)
               /\ \E u \in Threads : AnswerFor(iocq[k], u)'
    <3>1. /\ iocq[k] \in [cid : Nat, sq_head : 0 .. d - 1, ok : BOOLEAN, phase : Phases]
          /\ Span(g.iosq_head, iocq[k].sq_head, d) <= Span(g.iosq_head, s, d)
          /\ \E u \in Threads : AnswerFor(iocq[k], u)
      BY <1>2, <1>13, <2>2 DEF IInv, Answers
    <3>2. \E u \in Threads : AnswerFor(iocq[k], u)'
      BY <1>1, <3>1 DEF AnswerFor
    <3>3. /\ Span(g.iosq_head, iocq[k].sq_head, d) \in Nat /\ Span(g.iosq_head, s, d) \in Nat
          /\ Span(g.iosq_head, Step(s, d), d) \in Nat
      <4>1. iocq[k].sq_head \in 0 .. d - 1
        BY <3>1
      <4>2. \A j \in 0 .. d - 1 : Span(g.iosq_head, j, d) \in 0 .. d - 1
        BY <1>3, RoundIs
      <4>3. \A j \in 0 .. d - 1 : Span(g.iosq_head, j, d) \in Nat
        BY <1>3, <4>2, SMTT(20)
      <4> QED BY <1>3, <1>4, <4>1, <4>3
    <3>4. Span(g.iosq_head, iocq[k].sq_head, d) <= Span(g.iosq_head, Step(s, d), d)
      BY <1>6, <3>1, <3>3, SMT
    <3>5. /\ iocq'[k] \in [cid : Nat, sq_head : 0 .. g'.io_q_depth - 1, ok : BOOLEAN, phase : Phases]
          /\ Span(g'.iosq_head, iocq'[k].sq_head, g'.io_q_depth)
               <= Span(g'.iosq_head, ctl'.sq_head, g'.io_q_depth)
      BY <1>1, <1>8, <3>1, <3>4
    <3> QED BY <3>2, <3>5
  <2>3. \A j, k : Posted(j)' /\ Posted(k)' /\ iocq'[j].cid = iocq'[k].cid => j = k
    BY <1>1, <1>2, <1>13 DEF IInv, Answers
  <2> QED BY <2>2, <2>3 DEF Answers
<1> QED BY <1>9, <1>10, <1>11, <1>12, <1>15, <1>16, <1>17 DEF IInv

\* The controller transfers to or from the buffer of the thread that asked.
LEMMA TargetIs ==
  ASSUME IInv, NEW c \in ctl.busy
  PROVE  /\ ini = "ready" /\ ini \in IoUp /\ OnItsWay(c) /\ c \in Commands
         /\ c.buf \in Threads /\ Target(c) = c.buf /\ Target(c) # NULL
<1>1. ini = "ready" /\ ini \in IoUp
  BY SMTT(20) DEF IInv, Quiet, IoUp
<1>2. OnItsWay(c) /\ c \in Commands /\ c.buf \in Threads
  BY <1>1 DEF IInv, Flight, OnItsWay, Commands
<1>3. Target(c) = c.buf
  <2>1. CASE c.two \/ c.page = NULL
    BY <2>1 DEF Target
  <2>2. CASE ~c.two /\ c.page # NULL
    <3>1. c.buf \in Lists /\ thr[c.buf].page = c.page
      BY <1>2, <2>2 DEF OnItsWay, Open, Lists
    <3> QED BY <2>2, <3>1 DEF IInv, Pages, Target
  <2> QED BY <2>1, <2>2
<1> QED BY <1>1, <1>2, <1>3, NvmeAssumption

LEMMA CompleteKeeps ==
  ASSUME IInv, NEW c \in ctl.busy, CtlComplete(c)
  PROVE  IInv'
<1> DEFINE d == g.io_q_depth
           i == ctl.cq_tail
           t == c.buf
<1>1. /\ After(i, ctl.depth) # ctl.cq_head
      /\ UNCHANGED <<ini, id_buf, free, g, iosq, cmd, plist, thr>>
  BY DEF CtlComplete, ivars
<1>2. /\ ini = "ready" /\ ini \in IoUp /\ OnItsWay(c) /\ c \in Commands
      /\ t \in Threads /\ Target(c) = t /\ Target(c) # NULL
  BY TargetIs
<1>3. /\ ctl \in CtlType /\ d \in Nat /\ d > 0 /\ ctl.depth = d
      /\ iocq \in [0 .. d - 1 -> IoEntries] /\ outcome \in [Threads -> {"none", "ok", "error"}]
      /\ i \in 0 .. d - 1 /\ g.iocq_head \in 0 .. d - 1 /\ ctl.sq_head \in 0 .. d - 1
      /\ g.iosq_head \in 0 .. d - 1 /\ ctl.cq_phase \in Phases /\ ctl.cq_head = g.iocq_head
  BY <1>2, ReadyFacts, SMTT(20) DEF CtlType, IInv, Rings
<1>4. After(i, d) = Step(i, d) /\ Step(i, d) \in 0 .. d - 1 /\ Step(i, d) # g.iocq_head
  <2>1. After(i, d) = Step(i, d) /\ Step(i, d) \in 0 .. d - 1
    BY <1>3, RoundIs
  <2> QED BY <1>1, <1>3, <2>1
<1>5. PICK ok \in BOOLEAN, v \in Moved(c) :
        /\ disk' = IF ok /\ c.kind = "write" /\ Target(c) # NULL
                     THEN [disk EXCEPT ![c.sector] = v] ELSE disk
        /\ buf' = IF ok /\ c.kind = "read" /\ Target(c) # NULL
                    THEN [buf EXCEPT ![Target(c)] = v] ELSE buf
        /\ iocq' = [iocq EXCEPT ![i] =
                      [cid |-> c.cid, sq_head |-> ctl.sq_head, ok |-> ok, phase |-> ctl.cq_phase]]
        /\ outcome' = [outcome EXCEPT ![t] = IF ok THEN "ok" ELSE "error"]
  BY ZenonT(30) DEF CtlComplete
<1> DEFINE e == [cid |-> c.cid, sq_head |-> ctl.sq_head, ok |-> ok, phase |-> ctl.cq_phase]
<1>6. /\ e \in [cid : Nat, sq_head : 0 .. d - 1, ok : BOOLEAN, phase : Phases] /\ e \in IoEntries
      /\ e.cid = c.cid /\ e.sq_head = ctl.sq_head /\ (e.ok <=> ok) /\ e.phase = ctl.cq_phase
  BY <1>2, <1>3, SMTT(20) DEF Commands, IoEntries
<1>7. iocq' = [iocq EXCEPT ![i] = e]
  BY <1>5, ZenonT(30)
<1> HIDE DEF e
<1>8. /\ iocq' \in [0 .. d - 1 -> IoEntries] /\ iocq'[i] = e
      /\ \A k \in 0 .. d - 1 : k # i => iocq'[k] = iocq[k]
      /\ Pattern(iocq', Step(i, d), StepPhase(i, ctl.cq_phase, d), d)
  <2>1. Pattern(iocq, i, ctl.cq_phase, d)
    BY <1>2 DEF IInv, Rings
  <2>2. Pattern([iocq EXCEPT ![i] = e], Step(i, d), StepPhase(i, ctl.cq_phase, d), d)
    BY <1>3, <1>6, <2>1, PatternMoves, ZenonT(30)
  <2> QED BY <1>3, <1>6, <1>7, <2>2
<1>9. /\ outcome' \in [Threads -> {"none", "ok", "error"}] /\ outcome'[t] # "none"
      /\ (ok <=> outcome'[t] = "ok")
      /\ \A u \in Threads \ {t} : outcome'[u] = outcome[u]
  BY <1>2, <1>3, <1>5
<1>10. StepPhase(i, ctl.cq_phase, d) \in Phases
  BY <1>3, SMT DEF StepPhase, Flip, Phases
<1>11. /\ ctl' \in CtlType /\ ctl'.busy = ctl.busy \ {c} /\ ctl'.cq_tail = Step(i, d)
       /\ ctl'.cq_phase = StepPhase(i, ctl.cq_phase, d)
       /\ UNCHANGED <<ctl.mqes, ctl.depth, ctl.asq_head, ctl.asq_tail, ctl.sq_head, ctl.sq_tail,
                      ctl.cq_head>>
  <2>1. ctl' = [ctl EXCEPT !.busy = ctl.busy \ {c}, !.cq_tail = Step(i, d),
                           !.cq_phase = StepPhase(i, ctl.cq_phase, d)]
    BY <1>3 DEF CtlComplete, Step, StepPhase
  <2>2. Step(i, d) \in Nat /\ ctl.busy \ {c} \in SUBSET Commands
    BY <1>3, <1>4, SMT DEF CtlType
  <2> QED BY <1>3, <1>10, <2>1, <2>2 DEF CtlType
<1>12. Typed'
  <2>1. disk \in [Sectors -> Values] /\ buf \in [Threads -> Values] /\ c.sector \in Sectors
    BY <1>2 DEF IInv, Typed, Commands
  <2>2. v \in Values
    BY <1>2, <2>1 DEF Moved
  <2>3. disk' \in [Sectors -> Values] /\ buf' \in [Threads -> Values]
    BY <1>2, <1>5, <2>1, <2>2
  <2> QED BY <1>1, <1>9, <1>11, <2>3 DEF IInv, Typed
<1>13. Started' /\ Admin'
  BY <1>1, <1>2, <1>11, SameAdmin DEF IInv
<1>14. Pages'
  BY <1>1, SamePages, SMTT(20) DEF IInv
<1>15. Quiet' /\ Rings'
  <2>1. {g'.iosq_tail, g'.iosq_head, g'.iocq_head, g'.next_io_cid, ctl'.sq_head, ctl'.cq_tail}
          \subseteq 0 .. g'.io_q_depth - 1
    BY <1>1, <1>2, <1>4, <1>11, ReadyFacts
  <2>2. g.iocq_phase = IF g.iocq_head <= i THEN ctl.cq_phase ELSE Flip(ctl.cq_phase)
    BY <1>2 DEF IInv, Rings
  <2>3. g.iocq_phase = IF g.iocq_head <= Step(i, d) THEN StepPhase(i, ctl.cq_phase, d)
                       ELSE Flip(StepPhase(i, ctl.cq_phase, d))
    BY <1>3, <1>4, <2>2, SMT DEF Step, StepPhase, Flip, Phases
  <2>4. Quiet'
    BY <1>1, <1>2, SMTT(20) DEF Quiet
  <2> QED BY <1>1, <1>2, <1>8, <1>11, <2>1, <2>3, <2>4, SMT DEF IInv, Rings, Pattern
<1>16. /\ Span(g.iocq_head, g.iocq_head, d) = 0
       /\ Span(g.iocq_head, i, d) \in Nat
       /\ ~(Span(g.iocq_head, i, d) < Span(g.iocq_head, i, d))
       /\ \A k \in 0 .. d - 1 : Span(g.iocq_head, k, d) < Span(g.iocq_head, Step(i, d), d)
                                  <=> (Span(g.iocq_head, k, d) < Span(g.iocq_head, i, d) \/ k = i)
  <2>1. \A j \in 0 .. d - 1 : /\ Span(g.iocq_head, j, d)
                                   = IF g.iocq_head <= j THEN j - g.iocq_head ELSE j - g.iocq_head + d
                              /\ Span(g.iocq_head, j, d) \in 0 .. d - 1
    BY <1>3, RoundIs
  <2>2. /\ Span(g.iocq_head, g.iocq_head, d) = 0 /\ Span(g.iocq_head, i, d) \in Nat
        /\ Span(g.iocq_head, g.iocq_head, d) <= Span(g.iocq_head, i, d)
    <3>1. Span(g.iocq_head, g.iocq_head, d) = 0
      BY <1>3, <2>1, SMT
    <3>2. Span(g.iocq_head, i, d) \in 0 .. d - 1
      BY <1>3, <2>1
    <3> QED BY <1>3, <3>1, <3>2, SMT
  <2>3. g.iocq_head \in 0 .. d - 1 /\ i \in 0 .. d - 1 /\ d \in Nat /\ d > 0
    BY <1>3
  <2>4. Step(i, d) # g.iocq_head
    BY <1>4
  <2>5. /\ ~(Span(g.iocq_head, i, d) < Span(g.iocq_head, i, d))
        /\ \A k \in 0 .. d - 1 : Span(g.iocq_head, k, d) < Span(g.iocq_head, Step(i, d), d)
                                  <=> (Span(g.iocq_head, k, d) < Span(g.iocq_head, i, d) \/ k = i)
    <3>1. /\ d \in Nat /\ d > 0 /\ g.iocq_head \in 0 .. d - 1 /\ i \in 0 .. d - 1
          /\ Span(g.iocq_head, g.iocq_head, d) <= Span(g.iocq_head, i, d)
          /\ Step(i, d) # g.iocq_head
      BY <2>2, <2>3, <2>4
    <3> HIDE DEF d, i
    <3> QED BY <3>1, TailMoves
  <2> QED BY <2>2, <2>5
<1>17. ASSUME NEW k PROVE /\ Announced(k)' <=> Announced(k)
                          /\ Posted(k)' <=> (Posted(k) \/ k = i)
                          /\ Posted(k) => k # i /\ iocq'[k] = iocq[k]
  <2>1. Announced(k)' <=> Announced(k)
    <3>1. g'.io_q_depth = g.io_q_depth /\ ctl'.sq_head = ctl.sq_head /\ ctl'.sq_tail = ctl.sq_tail
      BY <1>1, <1>11
    <3> QED BY <3>1 DEF Announced
  <2>2. Posted(k)' <=> (Posted(k) \/ k = i)
    BY <1>1, <1>3, <1>11, <1>16 DEF Posted
  <2>3. Posted(k) => k # i /\ iocq'[k] = iocq[k]
    BY <1>8, <1>16 DEF Posted
  <2> QED BY <2>1, <2>2, <2>3
<1>18. Open(t) /\ \A u \in Threads : Open(u)' <=> (Open(u) /\ u # t)
  BY <1>1, <1>2, <1>9 DEF Open, OnItsWay
<1>19. Flight'
  <2> DEFINE B == ctl.busy
  <2>1. /\ \A k : Announced(k) => OnItsWay(iosq[k])
        /\ \A y \in B : OnItsWay(y)
        /\ \A j, k : Announced(j) /\ Announced(k) /\ iosq[j].buf = iosq[k].buf => j = k
        /\ \A y, z \in B : y.buf = z.buf => y = z
        /\ \A k, y : Announced(k) /\ y \in B => iosq[k].buf # y.buf
        /\ \A u \in Threads :
             Open(u) => (\E k : Announced(k) /\ iosq[k].buf = u) \/ (\E y \in B : y.buf = u)
        /\ IsFiniteSet(B)
    BY <1>2 DEF IInv, Flight
  <2>2. ASSUME NEW y, OnItsWay(y), y.buf # t PROVE OnItsWay(y)'
    <3>1. y.buf \in Threads
      BY <2>2 DEF OnItsWay, Commands
    <3> QED BY <1>1, <1>18, <2>2, <3>1 DEF OnItsWay
  <2>3. \A k : Announced(k)' => OnItsWay(iosq[k])'
    <3> SUFFICES ASSUME NEW k, Announced(k)' PROVE OnItsWay(iosq[k])'
      OBVIOUS
    <3>1. Announced(k) /\ OnItsWay(iosq[k]) /\ iosq[k].buf # t
      BY <1>17, <2>1
    <3>2. \A y : y = iosq[k] => OnItsWay(y)'
      BY <2>2, <3>1, SMTT(20)
    <3> QED BY <1>1, <3>2 DEF OnItsWay, Open
  <2>4. \A y \in ctl'.busy : OnItsWay(y)'
    BY <1>11, <2>1, <2>2
  <2>5. \A u \in Threads :
          Open(u)' => (\E k : Announced(k)' /\ iosq'[k].buf = u) \/ (\E y \in ctl'.busy : y.buf = u)
    <3> SUFFICES ASSUME NEW u \in Threads, Open(u)'
                 PROVE  (\E k : Announced(k)' /\ iosq'[k].buf = u) \/ (\E y \in ctl'.busy : y.buf = u)
      OBVIOUS
    <3>1. Open(u) /\ u # t
      BY <1>18, SMTT(20)
    <3>2. CASE \E k : Announced(k) /\ iosq[k].buf = u
      BY <1>1, <1>17, <3>2, SMTT(20)
    <3>3. CASE \E y \in B : y.buf = u
      BY <1>11, <3>1, <3>3
    <3> QED BY <2>1, <3>1, <3>2, <3>3
  <2>6. IsFiniteSet(ctl'.busy)
    BY <1>11, <2>1, FS_Subset, ZenonT(30)
  <2>7. ctl'.busy \subseteq B
    BY <1>11
  <2> QED BY <1>1, <1>17, <2>1, <2>3, <2>4, <2>5, <2>6, <2>7 DEF Flight
<1>20. thr[t].pc = "wait" /\ outcome[t] = "none" /\ thr[t].cid = c.cid /\ Waits(t)
       /\ ~cmd[thr[t].cid].done
  <2>1. thr[t].pc = "wait" /\ outcome[t] = "none" /\ thr[t].cid = c.cid
    BY <1>2, <1>18 DEF Open, OnItsWay
  <2>2. Waits(t)
    BY <2>1 DEF Waits
  <2>3. \A u \in Threads : thr[u].pc = "wait" /\ cmd[thr[u].cid].done => Told(u)
    BY <1>2 DEF IInv, Owners
  <2>4. ~Told(t)
    BY <2>1 DEF Told
  <2> QED BY <1>2, <2>1, <2>2, <2>3, <2>4
<1>21. Owners'
  <2>1. \A u \in Threads : Waits(u)' <=> Waits(u)
    BY <1>1 DEF Waits
  <2>2. \A u \in Threads : thr[u].pc = "wait" /\ cmd[thr[u].cid].done => Told(u)'
    <3> SUFFICES ASSUME NEW u \in Threads, thr[u].pc = "wait", cmd[thr[u].cid].done PROVE Told(u)'
      OBVIOUS
    <3>1. u # t /\ Told(u)
      BY <1>2, <1>20 DEF IInv, Owners
    <3> QED BY <1>1, <1>9, <3>1 DEF Told
  <2>3. \A u \in Threads : thr[u].pc \in {"idle", "submit"} => outcome'[u] = "none"
    BY <1>9, <1>20 DEF IInv, Owners
  <2> QED BY <1>1, <1>2, <2>1, <2>2, <2>3 DEF IInv, Owners
<1>22. Answers'
  <2>1. ASSUME NEW k, Posted(k)
        PROVE  /\ iocq'[k] = iocq[k]
               /\ iocq[k] \in [cid : Nat, sq_head : 0 .. d - 1, ok : BOOLEAN, phase : Phases]
               /\ Span(g.iosq_head, iocq[k].sq_head, d) <= Span(g.iosq_head, ctl.sq_head, d)
               /\ \E u \in Threads : AnswerFor(iocq[k], u)
    BY <1>2, <1>17, <2>1 DEF IInv, Answers
  <2>2. ASSUME NEW k, Posted(k)
        PROVE  iocq[k].cid # c.cid /\ \E u \in Threads : AnswerFor(iocq[k], u)'
    <3>1. PICK u \in Threads : AnswerFor(iocq[k], u)
      BY <2>1, <2>2
    <3>2. u # t /\ Waits(u)
      BY <1>20, <3>1, SMTT(20) DEF AnswerFor, Waits
    <3>3. iocq[k].cid # c.cid
      BY <1>2, <1>20, <3>1, <3>2 DEF IInv, Owners, AnswerFor
    <3>4. iocq'[k] = iocq[k] /\ outcome'[u] = outcome[u]
      BY <1>9, <2>1, <2>2, <3>2
    <3>5. AnswerFor(iocq[k], u)'
      BY <1>1, <3>1, <3>4 DEF AnswerFor
    <3> QED BY <3>3, <3>5, SMTT(20)
  <2>4. \A k : Posted(k)' =>
          /\ iocq'[k] \in [cid : Nat, sq_head : 0 .. d - 1, ok : BOOLEAN, phase : Phases]
          /\ Span(g.iosq_head, iocq'[k].sq_head, d) <= Span(g.iosq_head, ctl.sq_head, d)
          /\ \E u \in Threads : AnswerFor(iocq[k], u)'
    <3> SUFFICES ASSUME NEW k, Posted(k)'
          PROVE  /\ iocq'[k] \in [cid : Nat, sq_head : 0 .. d - 1, ok : BOOLEAN, phase : Phases]
                 /\ Span(g.iosq_head, iocq'[k].sq_head, d) <= Span(g.iosq_head, ctl.sq_head, d)
                 /\ \E u \in Threads : AnswerFor(iocq[k], u)'
      BY SMTT(20)
    <3>1. CASE Posted(k)
      BY <2>1, <2>2, <3>1
    <3>2. CASE ~Posted(k)
      <4>1. k = i
        BY <1>17, <3>2, SMTT(20)
      <4>2. iocq'[k] = e
        BY <1>8, <4>1
      <4>3. Span(g.iosq_head, ctl.sq_head, d) <= Span(g.iosq_head, ctl.sq_head, d)
        <5>1. Span(g.iosq_head, ctl.sq_head, d) \in 0 .. d - 1
          BY <1>3, RoundIs
        <5> QED BY <1>3, <5>1, SMT
      <4>4. \E u \in Threads : AnswerFor(iocq[k], u)'
        <5>1. \A j : j = i => AnswerFor(iocq[j], t)'
          BY <1>1, <1>6, <1>8, <1>9, <1>20, ZenonT(30) DEF AnswerFor
        <5> QED BY <1>2, <4>1, <5>1, SMTT(20)
      <4> QED BY <1>6, <4>2, <4>3, <4>4
    <3> QED BY <3>1, <3>2, ZenonT(30)
  <2>5. \A j, k : Posted(j)' /\ Posted(k)' /\ iocq'[j].cid = iocq'[k].cid => j = k
    <3> SUFFICES ASSUME NEW j, NEW k, Posted(j)', Posted(k)', iocq'[j].cid = iocq'[k].cid, j # k
                 PROVE  FALSE
      OBVIOUS
    <3>1. CASE Posted(j) /\ Posted(k)
      BY <1>2, <2>1, <3>1 DEF IInv, Answers
    <3>2. CASE Posted(j) /\ k = i
      BY <1>6, <1>8, <2>1, <2>2, <3>2
    <3>3. CASE Posted(k) /\ j = i
      BY <1>6, <1>8, <2>1, <2>2, <3>3
    <3> QED BY <1>17, <3>1, <3>2, <3>3
  <2> QED BY <1>1, <1>11, <2>4, <2>5 DEF Answers
<1> QED BY <1>12, <1>13, <1>14, <1>15, <1>19, <1>21, <1>22 DEF IInv

-----------------------------------------------------------------------------
(* nvme_poll_completions.                                                  *)

\* The loop of nvme_poll_completions takes what has been posted, up to where
\* the controller is: the phases tell it where to stop.
LEMMA NewEntriesIs ==
  ASSUME IInv, ini = "ready"
  PROVE  /\ NewEntries = Span(g.iocq_head, ctl.cq_tail, g.io_q_depth)
         /\ \A k \in 0 .. NewEntries - 1 : Posted((g.iocq_head + k) % g.io_q_depth)
<1> DEFINE d == g.io_q_depth
           h == g.iocq_head
           tail == ctl.cq_tail
           n == Span(h, tail, d)
           new(m) == \A k \in 0 .. m - 1 : Entry(k).phase = PhaseOf(k)
           Most(m) == new(m) /\ \A j \in 0 .. d : new(j) => j <= m
<1>1. /\ d \in Nat /\ d > 0 /\ h \in 0 .. d - 1 /\ tail \in 0 .. d - 1 /\ ctl.cq_phase \in Phases
      /\ Pattern(iocq, tail, ctl.cq_phase, d)
      /\ g.iocq_phase = IF h <= tail THEN ctl.cq_phase ELSE Flip(ctl.cq_phase)
  <2>1. /\ d \in Nat /\ d >= 2 /\ {h, tail} \subseteq 0 .. d - 1 /\ ini \in IoUp
        /\ ctl \in CtlType
    BY ReadyFacts
  <2>2. d > 0 /\ h \in 0 .. d - 1 /\ tail \in 0 .. d - 1
    BY <2>1, SMT
  <2>3. ctl.cq_phase \in Phases
    BY <2>1 DEF CtlType
  <2>4. Rings
    BY DEF IInv
  <2>5. /\ Pattern(iocq, tail, ctl.cq_phase, d)
        /\ g.iocq_phase = IF h <= tail THEN ctl.cq_phase ELSE Flip(ctl.cq_phase)
    BY <2>1, <2>4 DEF Rings
  <2> QED BY <2>1, <2>2, <2>3, <2>5
<1>2. \A k \in 0 .. d : /\ (h + k) % d = IF h + k < d THEN h + k ELSE h + k - d
                        /\ (h + k) % d \in 0 .. d - 1
  BY <1>1, RoundIs
<1>3. \A j \in 0 .. d - 1 : /\ Span(h, j, d) = IF h <= j THEN j - h ELSE j - h + d
                            /\ Span(h, j, d) \in 0 .. d - 1
  BY <1>1, RoundIs
<1>4. n = (IF h <= tail THEN tail - h ELSE tail - h + d) /\ n \in 0 .. d - 1
  BY <1>1, <1>3
<1> HIDE DEF n
<1>5. ASSUME NEW k \in 0 .. d - 1 PROVE Entry(k).phase = PhaseOf(k) <=> k < n
  <2>1. (h + k) % d = (IF h + k < d THEN h + k ELSE h + k - d) /\ (h + k) % d \in 0 .. d - 1
    BY <1>1, <1>2, SMT
  <2>2. Entry(k).phase = IF (h + k) % d < tail THEN ctl.cq_phase ELSE Flip(ctl.cq_phase)
    BY <1>1, <2>1 DEF Entry, Pattern
  <2>3. PhaseOf(k) = IF h + k < d THEN g.iocq_phase ELSE Flip(g.iocq_phase)
    BY DEF PhaseOf
  <2> QED BY <1>1, <1>4, <2>1, <2>2, <2>3, SMT DEF Flip, Phases
<1>6. ASSUME NEW m \in 0 .. d PROVE new(m) <=> m <= n
  <2>1. CASE m <= n
    BY <1>1, <1>4, <1>5, <2>1, SMT
  <2>2. CASE ~(m <= n)
    <3>1. n \in 0 .. m - 1 /\ n \in 0 .. d - 1 /\ ~(n < n)
      BY <1>1, <1>4, <2>2, SMT
    <3> QED BY <1>5, <2>2, <3>1
  <2> QED BY <2>1, <2>2
<1> HIDE DEF new
<1>7. n \in 0 .. d /\ Most(n)
  BY <1>1, <1>4, <1>6, SMT
<1>8. \A m \in 0 .. d : Most(m) => m = n
  BY <1>1, <1>4, <1>6, <1>7, SMT
<1>9. NewEntries = CHOOSE m \in 0 .. d : Most(m)
  BY DEF NewEntries, new
<1>10. NewEntries = n
  <2> HIDE DEF Most
  <2>1. NewEntries \in 0 .. d /\ Most(NewEntries)
    BY <1>7, <1>9
  <2> QED BY <1>8, <2>1
<1>11. ASSUME NEW k \in 0 .. n - 1 PROVE Posted((h + k) % d)
  <2>1. k \in 0 .. d - 1 /\ k < n /\ k \in 0 .. d
    BY <1>1, <1>4, SMT
  <2>2. (h + k) % d = (IF h + k < d THEN h + k ELSE h + k - d) /\ (h + k) % d \in 0 .. d - 1
    BY <1>2, <2>1, SMTT(20)
  <2>3. Span(h, (h + k) % d, d) = k
    <3> DEFINE j == (h + k) % d
    <3>1. Span(h, j, d) = IF h <= j THEN j - h ELSE j - h + d
      BY <1>3, <2>2
    <3> QED BY <1>1, <2>1, <2>2, <3>1, SMT
  <2> QED BY <2>1, <2>2, <2>3 DEF Posted, n
<1> QED BY <1>10, <1>11, SMTT(20) DEF n

\* Each identifier the loop finds an answer for is that of a completion it
\* takes, and has its status; the others stay as they are.
LEMMA PollAnswers ==
  ASSUME IInv, ini = "ready", PollCompletions(NewEntries)
  PROVE  /\ DOMAIN cmd' = DOMAIN cmd
         /\ \A i \in DOMAIN cmd :
              \/ cmd'[i] = cmd[i]
              \/ \E k : /\ Posted(k) /\ iocq[k].cid = i
                        /\ cmd'[i] = [cmd[i] EXCEPT !.ok = iocq[k].ok, !.done = TRUE]
<1> DEFINE n == NewEntries
           taken == {Entry(k) : k \in 0 .. n - 1}
           answered == {Entry(k).cid : k \in 0 .. n - 1}
           answer(i) == CHOOSE e \in taken : e.cid = i
<1>1. cmd' = [i \in DOMAIN cmd |->
                IF i \in answered THEN [cmd[i] EXCEPT !.ok = answer(i).ok, !.done = TRUE]
                                  ELSE cmd[i]]
  BY DEF PollCompletions
<1>2. \A e \in taken : \E k : Posted(k) /\ iocq[k] = e
  BY NewEntriesIs DEF Entry
<1>3. \A i \in answered : \E e \in taken : e.cid = i
  OBVIOUS
<1>4. \A i \in answered : answer(i) \in taken /\ answer(i).cid = i
  <2> HIDE DEF taken, answered
  <2> QED BY <1>3
<1>5. DOMAIN cmd' = DOMAIN cmd
  BY <1>1
<1> HIDE DEF taken, answered, answer
<1> SUFFICES ASSUME NEW i \in DOMAIN cmd
             PROVE  \/ cmd'[i] = cmd[i]
                    \/ \E k : /\ Posted(k) /\ iocq[k].cid = i
                              /\ cmd'[i] = [cmd[i] EXCEPT !.ok = iocq[k].ok, !.done = TRUE]
  BY <1>5
<1>6. CASE i \notin answered
  BY <1>1, <1>6
<1>7. CASE i \in answered
  <2>1. cmd'[i] = [cmd[i] EXCEPT !.ok = answer(i).ok, !.done = TRUE]
    BY <1>1, <1>7
  <2>2. PICK k : Posted(k) /\ iocq[k] = answer(i)
    BY <1>2, <1>4, <1>7
  <2>3. iocq[k].cid = i
    BY <1>4, <1>7, <2>2
  <2>4. cmd'[i] = [cmd[i] EXCEPT !.ok = iocq[k].ok, !.done = TRUE]
    BY <2>1, <2>2
  <2> QED BY <2>2, <2>3, <2>4
<1> QED BY <1>6, <1>7

LEMMA PollKeeps ==
  ASSUME IInv, Poll
  PROVE  IInv'
<1> DEFINE d == g.io_q_depth
           h == g.iocq_head
           tail == ctl.cq_tail
           n == NewEntries
           last == Entry(n - 1).sq_head
<1>1. /\ ini = "ready" /\ ini \in IoUp /\ n > 0 /\ PollCompletions(n)
      /\ ctl' = [ctl EXCEPT !.cq_head = (h + n) % d]
      /\ UNCHANGED <<ini, id_buf, free, iosq, plist, thr, disk, buf, outcome>>
  BY DEF Poll, CqDoorbell, ivars, IoUp
<1>2. /\ iocq' = [i \in DOMAIN iocq |-> IF Span(h, i, d) < n THEN [phase |-> iocq[i].phase] ELSE iocq[i]]
      /\ g' = [g EXCEPT !.iosq_head = last, !.iocq_head = (h + n) % d,
                        !.iocq_phase = IF h + n >= d THEN Flip(g.iocq_phase) ELSE g.iocq_phase]
  BY <1>1 DEF PollCompletions
<1>3. /\ g \in GType /\ ctl \in CtlType /\ d \in Nat /\ d > 0
      /\ h \in 0 .. d - 1 /\ tail \in 0 .. d - 1 /\ ctl.sq_head \in 0 .. d - 1
      /\ g.iosq_head \in 0 .. d - 1 /\ g.iosq_tail \in 0 .. d - 1
      /\ iocq \in [0 .. d - 1 -> IoEntries] /\ cmd \in [0 .. d - 1 -> CommandStates]
      /\ ctl.cq_phase \in Phases
  BY <1>1, ReadyFacts, SMTT(20) DEF CtlType
<1>4. n = Span(h, tail, d) /\ \A k \in 0 .. n - 1 : Posted((h + k) % d)
  BY <1>1, NewEntriesIs
<1>5. n \in 0 .. d - 1 /\ n = (IF h <= tail THEN tail - h ELSE tail - h + d) /\ (h + n) % d = tail
  <2>1. n \in 0 .. d - 1 /\ n = IF h <= tail THEN tail - h ELSE tail - h + d
    BY <1>3, <1>4, RoundIs
  <2> HIDE DEF n
  <2>2. n \in 0 .. d
    BY <1>3, <2>1, SMT
  <2>3. (h + n) % d = IF h + n < d THEN h + n ELSE h + n - d
    BY <1>3, <2>2, RoundIs
  <2>4. (IF h + n < d THEN h + n ELSE h + n - d) = tail
    BY <1>3, <2>1, SMTT(20)
  <2> QED BY <2>1, <2>3, <2>4 DEF n
<1>6. /\ last \in 0 .. d - 1
      /\ Span(g.iosq_head, last, d) <= Span(g.iosq_head, ctl.sq_head, d)
  <2>1. Posted((h + (n - 1)) % d)
    <3>1. n - 1 \in 0 .. n - 1
      BY <1>1, <1>5, SMT
    <3> QED BY <1>4, <3>1
  <2> QED BY <1>1, <2>1 DEF IInv, Answers, Entry
<1>7. (IF h + n >= d THEN Flip(g.iocq_phase) ELSE g.iocq_phase) = ctl.cq_phase
  <2>1. g.iocq_phase = IF h <= tail THEN ctl.cq_phase ELSE Flip(ctl.cq_phase)
    BY <1>1 DEF IInv, Rings
  <2>2. h + n >= d <=> ~(h <= tail)
    BY <1>3, <1>5, SMTT(20)
  <2> QED BY <1>3, <2>1, <2>2, SMT DEF Flip, Phases
<1> HIDE DEF last, n
<1>8. /\ g' \in GType /\ g'.iosq_head = last /\ g'.iocq_head = tail /\ g'.iocq_phase = ctl.cq_phase
      /\ UNCHANGED <<g.ready, g.admin_q_depth, g.io_q_depth, g.iosq_tail, g.next_io_cid>>
  <2>1. last \in Nat /\ tail \in Nat
    BY <1>3, <1>6, SMT
  <2>2. g' = [g EXCEPT !.iosq_head = last, !.iocq_head = tail, !.iocq_phase = ctl.cq_phase]
    BY <1>2, <1>5, <1>7
  <2> QED BY <1>3, <2>1, <2>2 DEF GType
<1>9. /\ ctl' \in CtlType /\ ctl'.cq_head = tail
      /\ UNCHANGED <<ctl.mqes, ctl.depth, ctl.asq_head, ctl.asq_tail, ctl.sq_head, ctl.sq_tail,
                     ctl.cq_tail, ctl.cq_phase, ctl.busy>>
  <2>1. tail \in Nat
    BY <1>3, SMT
  <2>2. ctl' = [ctl EXCEPT !.cq_head = tail]
    BY <1>1, <1>5
  <2> QED BY <1>3, <2>1, <2>2 DEF CtlType
<1>10. Typed'
  BY <1>1, <1>8, <1>9 DEF IInv, Typed
<1>11. Started' /\ Admin'
  BY <1>1, <1>8, <1>9, SameAdmin DEF IInv
<1>12. Pages'
  BY <1>1, SamePages DEF IInv
<1>13. iocq' \in [0 .. d - 1 -> IoEntries] /\ \A i \in 0 .. d - 1 : iocq'[i].phase = iocq[i].phase
  <2>1. \A i \in 0 .. d - 1 : iocq[i] \in IoEntries /\ iocq[i].phase \in Phases
    BY <1>3 DEF IoEntries, Blank
  <2>2. \A i \in 0 .. d - 1 : [phase |-> iocq[i].phase] \in IoEntries
    BY <2>1 DEF IoEntries, Blank
  <2>3. iocq' = [i \in 0 .. d - 1 |-> IF Span(h, i, d) < n THEN [phase |-> iocq[i].phase] ELSE iocq[i]]
    BY <1>2, <1>3
  <2> QED BY <2>1, <2>2, <2>3
<1>14. \A i \in 0 .. d - 1 :
         \/ cmd'[i] = cmd[i]
         \/ \E k : /\ Posted(k) /\ iocq[k].cid = i
                   /\ cmd'[i] = [cmd[i] EXCEPT !.ok = iocq[k].ok, !.done = TRUE]
  BY <1>1, <1>3, PollAnswers DEF n
<1>15. \A k : Posted(k) => /\ iocq[k].ok \in BOOLEAN /\ iocq[k].cid \in Nat
                           /\ \E u \in Threads : AnswerFor(iocq[k], u)
  BY <1>1 DEF IInv, Answers
<1>16. ASSUME NEW i \in 0 .. d - 1 PROVE cmd'[i] \in CommandStates /\ (cmd'[i].in_use <=> cmd[i].in_use)
  <2>1. cmd[i] \in CommandStates
    BY <1>3
  <2>2. CASE cmd'[i] = cmd[i]
    BY <2>1, <2>2
  <2>3. ASSUME NEW k, Posted(k), cmd'[i] = [cmd[i] EXCEPT !.ok = iocq[k].ok, !.done = TRUE]
        PROVE  cmd'[i] \in CommandStates /\ (cmd'[i].in_use <=> cmd[i].in_use)
    <3>1. iocq[k].ok \in BOOLEAN
      BY <1>15, <2>3
    <3> QED BY <2>1, <2>3, <3>1 DEF CommandStates
  <2> QED BY <1>14, <2>2, <2>3
<1>17. cmd' \in [0 .. d - 1 -> CommandStates]
  <2>1. DOMAIN cmd' = 0 .. d - 1 /\ cmd' = [i \in DOMAIN cmd' |-> cmd'[i]]
    BY <1>1, <1>3 DEF PollCompletions
  <2> QED BY <1>16, <2>1
<1>18. Quiet' /\ Rings'
  <2>1. {g'.iosq_tail, g'.iosq_head, g'.iocq_head, g'.next_io_cid, ctl'.sq_head, ctl'.cq_tail}
          \subseteq 0 .. g'.io_q_depth - 1
    BY <1>1, <1>3, <1>6, <1>8, <1>9, ReadyFacts
  <2>2. Span(last, ctl.sq_head, d) <= Span(last, g.iosq_tail, d)
    <3>1. Span(g.iosq_head, ctl.sq_head, d) <= Span(g.iosq_head, g.iosq_tail, d)
      BY <1>1 DEF IInv, Rings
    <3> QED BY <1>3, <1>6, <3>1, HeadLearnt
  <2>3. Pattern(iocq', tail, ctl.cq_phase, d)
    BY <1>1, <1>13, SMT DEF IInv, Rings, Pattern
  <2>4. tail <= tail
    BY <1>3, SMT
  <2>5. Quiet'
    BY <1>1 DEF Quiet
  <2>6. /\ ctl'.sq_tail = g'.iosq_tail /\ ctl'.cq_head = g'.iocq_head
        /\ iosq' \in [0 .. g'.io_q_depth - 1 -> Commands \cup {NULL}]
        /\ g'.iocq_phase = IF g'.iocq_head <= ctl'.cq_tail THEN ctl'.cq_phase ELSE Flip(ctl'.cq_phase)
    BY <1>1, <1>8, <1>9, <2>4 DEF IInv, Rings
  <2> QED BY <1>8, <1>9, <1>13, <1>17, <2>1, <2>2, <2>3, <2>5, <2>6 DEF Rings, Pattern
<1>19. ASSUME NEW k PROVE (Announced(k)' <=> Announced(k)) /\ ~Posted(k)'
  <2>1. Announced(k)' <=> Announced(k)
    BY <1>8, <1>9 DEF Announced
  <2>2. ~Posted(k)'
    <3>1. k \in 0 .. d - 1 => ~(Span(tail, k, d) < Span(tail, tail, d))
      <4>1. \A j \in 0 .. d - 1 : /\ Span(tail, j, d) = IF tail <= j THEN j - tail ELSE j - tail + d
                                  /\ Span(tail, j, d) \in 0 .. d - 1
        BY <1>3, RoundIs
      <4>2. Span(tail, tail, d) = 0
        BY <1>3, <4>1, SMT
      <4>3. k \in 0 .. d - 1 => Span(tail, k, d) \in Nat
        BY <1>3, <4>1, SMT
      <4> QED BY <4>2, <4>3, SMT
    <3> QED BY <1>8, <1>9, <3>1 DEF Posted
  <2> QED BY <2>1, <2>2
<1>20. Flight'
  <2>1. \A c : OnItsWay(c)' <=> OnItsWay(c)
    BY <1>1 DEF OnItsWay, Open
  <2> QED BY <1>1, <1>9, <1>19, <2>1, SMT DEF IInv, Flight, Open
<1>21. Owners'
  <2>1. \A u \in Threads : Waits(u)' <=> Waits(u)
    BY <1>1 DEF Waits
  <2>2. \A u \in Threads : Waits(u) => thr[u].cid \in 0 .. d - 1 /\ cmd'[thr[u].cid].in_use
    BY <1>1, <1>16 DEF IInv, Owners
  <2>3. \A u \in Threads : thr[u].pc = "wait" /\ cmd'[thr[u].cid].done => Told(u)'
    <3> SUFFICES ASSUME NEW u \in Threads, thr[u].pc = "wait", cmd'[thr[u].cid].done PROVE Told(u)'
      OBVIOUS
    <3>1. Waits(u) /\ thr[u].cid \in 0 .. d - 1
      BY <2>2 DEF Waits
    <3>2. CASE cmd'[thr[u].cid] = cmd[thr[u].cid]
      <4>1. Told(u)
        BY <1>1, <3>2 DEF IInv, Owners
      <4> QED BY <1>1, <3>2, <4>1 DEF Told
    <3>3. ASSUME NEW k, Posted(k), iocq[k].cid = thr[u].cid,
                 cmd'[thr[u].cid] = [cmd[thr[u].cid] EXCEPT !.ok = iocq[k].ok, !.done = TRUE]
          PROVE  Told(u)'
      <4>1. PICK w \in Threads : AnswerFor(iocq[k], w)
        BY <1>15, <3>3
      <4>2. w = u
        BY <1>1, <3>1, <3>3, <4>1 DEF AnswerFor, Waits, IInv, Owners
      <4>3. outcome[u] # "none" /\ (iocq[k].ok <=> outcome[u] = "ok")
        BY <4>1, <4>2 DEF AnswerFor
      <4>4. cmd'[thr[u].cid].ok = iocq[k].ok
        BY <1>3, <3>1, <3>3 DEF CommandStates
      <4> QED BY <1>1, <4>3, <4>4 DEF Told
    <3> QED BY <1>14, <3>1, <3>2, <3>3
  <2> QED BY <1>1, <1>8, <2>1, <2>2, <2>3 DEF IInv, Owners
<1>22. Answers'
  BY <1>19 DEF Answers
<1> QED BY <1>10, <1>11, <1>12, <1>18, <1>20, <1>21, <1>22 DEF IInv

-----------------------------------------------------------------------------
(* The invariant holds.                                                    *)

LEMMA NextKeeps ==
  ASSUME IInv, [Next]_vars
  PROVE  IInv'
<1>1. CASE UNCHANGED vars
  <2>1. Typed' /\ Started' /\ Admin'
    BY <1>1 DEF vars, IInv, Typed, Started, DepthOk, Admin, AdminIdle, AdminPending, AdminAnswered, Pattern
  <2>2. Pages'
    BY <1>1, SamePages DEF vars, IInv
  <2>3. Quiet' /\ Rings' /\ Flight' /\ Owners' /\ Answers'
    BY <1>1, SameIo DEF vars, IInv, IoView
  <2> QED BY <2>1, <2>2, <2>3 DEF IInv
<1>2. CASE InitStep
  BY <1>2, ProbeKeeps, ResetKeeps, EnableKeeps, AdminSubmitKeeps, AdminReapKeeps, IoQueuesKeeps
  DEF InitStep
<1>3. CASE NvmeIrq
  BY <1>3, PollKeeps DEF NvmeIrq
<1>4. CASE CtlAdmin \/ CtlFetch
  BY <1>4, CtlAdminKeeps, FetchKeeps
<1>5. ASSUME NEW c \in ctl.busy, CtlComplete(c) PROVE IInv'
  BY <1>5, CompleteKeeps
<1>6. ASSUME NEW t \in Threads, ThreadStep(t) PROVE IInv'
  <2>1. CASE NvmeSubmit(t)
    BY <2>1, SubmitKeeps
  <2>2. CASE NvmeSubmitFails(t)
    BY <2>2, SubmitFailsKeeps
  <2>3. CASE NvmeWaitPolls(t)
    BY <2>3, PollKeeps DEF NvmeWaitPolls
  <2>4. CASE NvmeWaitEnds(t)
    BY <2>4, WaitEndsKeeps
  <2>5. CASE NvmeReturn(t)
    BY <2>5, ReturnKeeps
  <2> QED BY <1>6, <2>1, <2>2, <2>3, <2>4, <2>5 DEF ThreadStep
<1>7. ASSUME NEW t \in Threads, NEW kind \in {"read", "write"}, NEW s \in Sectors, NEW v \in Values,
             NEW len \in Lens, Call(t, kind, s, v, len)
      PROVE  IInv'
  BY <1>7, CallKeeps
<1> QED BY <1>1, <1>2, <1>3, <1>4, <1>5, <1>6, <1>7 DEF Next

\* The inductive invariant holds throughout.
THEOREM Invariance == Spec => []IInv
<1>1. Init => IInv
  BY InitIInv
<1>2. IInv /\ [Next]_vars => IInv'
  BY NextKeeps
<1> QED BY <1>1, <1>2, PTL DEF Spec

-----------------------------------------------------------------------------
(* The rings are sound.                                                    *)

\* The ready state: as many commands are on their way as threads wait for one.
LEMMA OnePerWaiter ==
  ASSUME IInv, ini = "ready"
  PROVE  LET announced == {k \in 0 .. g.io_q_depth - 1 :
                             Span(ctl.sq_head, k, g.io_q_depth)
                               < Span(ctl.sq_head, ctl.sq_tail, g.io_q_depth)}
             queued == {iosq[k] : k \in announced}
             open == {t \in Threads : thr[t].pc = "wait" /\ outcome[t] = "none"}
         IN  /\ Cardinality(announced) + Cardinality(ctl.busy) = Cardinality(open)
             /\ {c.buf : c \in queued \cup ctl.busy} = open
             /\ \A c \in queued \cup ctl.busy : thr[c.buf].cid = c.cid
<1> DEFINE d == g.io_q_depth
           announced == {k \in 0 .. d - 1 :
                           Span(ctl.sq_head, k, d) < Span(ctl.sq_head, ctl.sq_tail, d)}
           queued == {iosq[k] : k \in announced}
           open == {t \in Threads : thr[t].pc = "wait" /\ outcome[t] = "none"}
           A == {iosq[k].buf : k \in announced}
           B == {c.buf : c \in ctl.busy}
<1>1. ini \in IoUp /\ d \in Nat
  BY ReadyFacts
<1>2. \A k : k \in announced <=> Announced(k)
  BY DEF Announced
<1>3. \A t : t \in open <=> (t \in Threads /\ Open(t))
  BY DEF Open
<1>4. IsFiniteSet(announced)
  <2>1. IsFiniteSet(0 .. d - 1)
    BY <1>1, FS_Interval, SMT
  <2>2. announced \subseteq 0 .. d - 1
    BY SMTT(20)
  <2> HIDE DEF announced
  <2> QED BY <2>1, <2>2, FS_Subset
<1> HIDE DEF announced, open
<1>5. /\ \A k \in announced : OnItsWay(iosq[k])
      /\ \A c \in ctl.busy : OnItsWay(c)
      /\ \A j, k \in announced : iosq[j].buf = iosq[k].buf => j = k
      /\ \A c, e \in ctl.busy : c.buf = e.buf => c = e
      /\ \A k \in announced : \A c \in ctl.busy : iosq[k].buf # c.buf
      /\ \A t \in Threads : Open(t) => t \in A \cup B
      /\ IsFiniteSet(ctl.busy)
  BY <1>1, <1>2 DEF IInv, Flight
<1>6. \A c : OnItsWay(c) => c.buf \in open /\ thr[c.buf].cid = c.cid
  BY <1>3 DEF OnItsWay, Commands
<1>7. IsFiniteSet(A) /\ Cardinality(A) = Cardinality(announced)
  <2> DEFINE f == [k \in announced |-> iosq[k].buf]
  <2>1. f \in [announced -> A]
    OBVIOUS
  <2>2. \A j, k \in announced : f[j] = f[k] => j = k
    BY <1>5
  <2>3. \A y \in A : \E k \in announced : f[k] = y
    OBVIOUS
  <2> HIDE DEF f, A
  <2> QED BY <1>4, <2>1, <2>2, <2>3, SameSize
<1>8. IsFiniteSet(B) /\ Cardinality(B) = Cardinality(ctl.busy)
  <2> DEFINE f == [c \in ctl.busy |-> c.buf]
  <2>1. f \in [ctl.busy -> B]
    OBVIOUS
  <2>2. \A c, e \in ctl.busy : f[c] = f[e] => c = e
    BY <1>5
  <2>3. \A y \in B : \E c \in ctl.busy : f[c] = y
    OBVIOUS
  <2> HIDE DEF f, B
  <2> QED BY <1>5, <2>1, <2>2, <2>3, SameSize, SMT
<1>9. A \cap B = {} /\ A \cup B = open
  <2>1. A \cap B = {}
    BY <1>5, SMT
  <2>2. A \subseteq open /\ B \subseteq open
    BY <1>5, <1>6
  <2>3. open \subseteq A \cup B
    BY <1>3, <1>5
  <2> HIDE DEF A, B
  <2> QED BY <2>1, <2>2, <2>3
<1>10. Cardinality(announced) + Cardinality(ctl.busy) = Cardinality(open)
  <2> HIDE DEF A, B
  <2>1. Cardinality(A \cup B) = Cardinality(A) + Cardinality(B) - Cardinality(A \cap B)
    BY <1>7, <1>8, FS_Union
  <2>2. Cardinality(A \cap B) = 0
    BY <1>9, FS_EmptySet
  <2>3. Cardinality(A) \in Nat /\ Cardinality(B) \in Nat
    BY <1>7, <1>8, FS_CardinalityType
  <2>4. Cardinality(A \cup B) = Cardinality(A) + Cardinality(B)
    BY <2>1, <2>2, <2>3, SMT
  <2>5. Cardinality(A \cup B) = Cardinality(open)
    BY <1>9
  <2> QED BY <1>7, <1>8, <2>4, <2>5
<1>11. {c.buf : c \in queued \cup ctl.busy} = open
  <2>1. {c.buf : c \in queued \cup ctl.busy} = A \cup B
    OBVIOUS
  <2> HIDE DEF A, B, queued
  <2> QED BY <1>9, <2>1
<1>12. \A c \in queued \cup ctl.busy : thr[c.buf].cid = c.cid
  BY <1>5, <1>6
<1> QED BY <1>10, <1>11, <1>12 DEF announced, open

\* The rings nvme_init sets up and nvme_submit_io and nvme_poll_completions
\* use are sound, for every depth, number of threads and controller: no
\* announced command is lost or overwritten, no identifier is used twice, an
\* admin command is answered under its own identifier, and no page is lost.
THEOREM RingsAreSound == Spec => []RingsSound
<1>1. IInv => RingsSound
  <2> SUFFICES ASSUME IInv PROVE RingsSound
    OBVIOUS
  <2>1. \A d \in {g.admin_q_depth, g.io_q_depth} \ {0} : d \in 2 .. ctl.mqes + 1 /\ d <= SQ_PAGE
    BY SMT DEF IInv, Started, DepthOk
  <2>2. ini \in AdminSteps /\ ctl.asq_tail = ctl.asq_head /\ acq[g.acq_head].phase = g.acq_phase
          => acq[g.acq_head].cid = g.next_admin_cid - 1
    BY AdminMode DEF AdminAnswered
  <2>3. ctl.depth \in {0, g.io_q_depth}
    BY DEF IInv, Started
  <2>4. ASSUME ini = "ready"
        PROVE  /\ \A t, u \in Threads : t # u /\ {thr[t].pc, thr[u].pc} \subseteq {"wait", "release"}
                    => thr[t].cid # thr[u].cid
               /\ \A t \in Lists : plist[thr[t].page] = t /\ thr[t].page \notin free
               /\ Cardinality(free) + Cardinality(Lists) + 4 = Cardinality(DOMAIN plist)
    <3>1. \A t, u \in Threads : t # u /\ {thr[t].pc, thr[u].pc} \subseteq {"wait", "release"}
            => thr[t].cid # thr[u].cid
      BY <2>4 DEF IInv, Owners, Waits, IoUp
    <3>2. \A t \in Lists : plist[thr[t].page] = t /\ thr[t].page \notin free
      BY DEF IInv, Pages
    <3>3. Cardinality(free) + Cardinality({id_buf} \ {NULL}) + Cardinality(Lists) + Kept
            = Cardinality(DOMAIN plist)
      BY <2>4 DEF IInv, Pages
    <3>4. Cardinality({id_buf} \ {NULL}) = 0 /\ Kept = 4
      <4>1. {id_buf} \ {NULL} = {} /\ Kept = 4
        BY <2>4 DEF IInv, Admin, Kept, Early, Middle
      <4> QED BY <4>1, FS_EmptySet
    <3>5. Cardinality(free) \in Nat /\ Cardinality(Lists) \in Nat
      <4>1. free \subseteq DOMAIN plist /\ IsFiniteSet(DOMAIN plist) /\ IsFiniteSet(Lists)
        BY DEF IInv, Pages
      <4>2. IsFiniteSet(free)
        BY <4>1, FS_Subset, SMTT(20)
      <4> QED BY <4>1, <4>2, FS_CardinalityType
    <3> QED BY <3>1, <3>2, <3>3, <3>4, <3>5, SMT
  <2> QED BY <2>1, <2>2, <2>3, <2>4, OnePerWaiter DEF RingsSound, Lists
<1> QED BY <1>1, Invariance, PTL

-----------------------------------------------------------------------------
(* The driver implements a block device.                                   *)

\* The call of thread t as the device sees it.
Seen(t) ==
  IF thr[t].pc = "idle" THEN [st |-> "idle"]
  ELSE IF thr[t].pc = "release" THEN [st |-> "done", ok |-> thr[t].ok]
  ELSE IF outcome[t] # "none" THEN [st |-> "done", ok |-> outcome[t] = "ok"]
  ELSE [st |-> "asked", kind |-> thr[t].kind, sector |-> thr[t].sector, part |-> thr[t].two]

LEMMA SeenIs ==
  /\ AbstractCall = [t \in Threads |-> Seen(t)]
  /\ AbstractCall' = [t \in Threads |-> Seen(t)']
BY DEF AbstractCall, Seen

\* A step of thread t changes what the device sees of t alone.
LEMMA SeenOf ==
  ASSUME NEW t \in Threads,
         \A u \in Threads \ {t} : thr'[u] = thr[u] /\ outcome'[u] = outcome[u]
  PROVE  AbstractCall[t] = Seen(t) /\ AbstractCall' = [AbstractCall EXCEPT ![t] = Seen(t)']
<1>1. \A u \in Threads \ {t} : Seen(u)' = Seen(u)
  BY DEF Seen
<1> QED BY <1>1, SeenIs, SMTT(20)

\* A step the device does not see.
LEMMA Unseen ==
  ASSUME \A t \in Threads : Seen(t)' = Seen(t), UNCHANGED <<disk, buf>>
  PROVE  UNCHANGED Device!vars
BY SeenIs DEF Device!vars

LEMMA IdleCall == \A x : x = [st |-> "idle"] => x.st = "idle"
BY SMT

LEMMA AskedCall ==
  \A x, k, s, p : x = [st |-> "asked", kind |-> k, sector |-> s, part |-> p] =>
                   x.st = "asked" /\ x.kind = k /\ x.sector = s /\ x.part = p
BY SMT

LEMMA CallIsSeen ==
  ASSUME IInv, NEW t \in Threads, NEW kind \in {"read", "write"}, NEW s \in Sectors,
         NEW v \in Values, NEW len \in Lens, Call(t, kind, s, v, len)
  PROVE  Device!Call(t, kind, s, v, len = 2) \/ Device!CallRefused(t, v)
<1>1. /\ thr[t].pc = "idle" /\ buf' = [buf EXCEPT ![t] = v] /\ UNCHANGED <<disk, outcome>>
      /\ thr \in [Threads -> ThreadStates] /\ outcome[t] = "none"
  BY DEF Call, IInv, Typed, Owners
<1>2. \A u \in Threads \ {t} : thr'[u] = thr[u] /\ outcome'[u] = outcome[u]
  BY <1>1, SMTT(20) DEF Call
<1>3. AbstractCall[t].st = "idle" /\ AbstractCall' = [AbstractCall EXCEPT ![t] = Seen(t)']
  <2>1. Seen(t) = [st |-> "idle"]
    BY <1>1 DEF Seen
  <2>2. AbstractCall[t] = Seen(t) /\ AbstractCall' = [AbstractCall EXCEPT ![t] = Seen(t)']
    BY <1>2, SeenOf
  <2>3. AbstractCall[t] = [st |-> "idle"]
    BY <2>1, <2>2
  <2>4. AbstractCall[t].st = "idle"
    BY <2>3, IdleCall
  <2> QED BY <2>2, <2>4
<1>4. CASE Refused(len)
  <2>1. Seen(t)' = [st |-> "idle"]
    BY <1>1, <1>4, SMT DEF Seen, Call, Idle
  <2> QED BY <1>1, <1>3, <2>1 DEF Device!CallRefused, Device!Idle
<1>5. CASE ~Refused(len)
  <2>1. /\ thr'[t].pc = "submit" /\ thr'[t].kind = kind /\ thr'[t].sector = s
        /\ thr'[t].two = (len = 2)
    <3> DEFINE two == (len = 2)
               x == [pc |-> "submit", kind |-> kind, sector |-> s, page |-> PrpPage(len), two |-> two]
    <3>1. thr'[t] = x
      BY <1>1, <1>5 DEF Call
    <3> HIDE DEF two
    <3>2. x.pc = "submit" /\ x.kind = kind /\ x.sector = s /\ x.two = two
      BY SMT
    <3> QED BY <3>1, <3>2 DEF two
  <2>2. Seen(t)' = [st |-> "asked", kind |-> kind, sector |-> s, part |-> len = 2]
    BY <1>1, <2>1 DEF Seen
  <2> QED BY <1>1, <1>3, <2>2 DEF Device!Call
<1> QED BY <1>4, <1>5

LEMMA CompleteIsSeen ==
  ASSUME IInv, NEW c \in ctl.busy, CtlComplete(c)
  PROVE  /\ c.buf \in Threads
         /\ \/ Device!Perform(c.buf) \/ Device!Fail(c.buf)
            \/ \E v \in Values : Device!PerformPart(c.buf, v)
<1> DEFINE t == c.buf
<1>1. /\ OnItsWay(c) /\ t \in Threads /\ Target(c) = t /\ Target(c) # NULL
      /\ c.kind \in Kinds /\ c.two \in BOOLEAN /\ c.sector \in Sectors
      /\ disk \in [Sectors -> Values] /\ buf \in [Threads -> Values]
      /\ outcome \in [Threads -> {"none", "ok", "error"}] /\ UNCHANGED thr
  BY TargetIs DEF Commands, CtlComplete, IInv, Typed
<1>2. PICK ok \in BOOLEAN, v \in Moved(c) :
        /\ disk' = IF ok /\ c.kind = "write" /\ Target(c) # NULL
                     THEN [disk EXCEPT ![c.sector] = v] ELSE disk
        /\ buf' = IF ok /\ c.kind = "read" /\ Target(c) # NULL
                    THEN [buf EXCEPT ![Target(c)] = v] ELSE buf
        /\ outcome' = [outcome EXCEPT ![t] = IF ok THEN "ok" ELSE "error"]
  BY ZenonT(30) DEF CtlComplete
<1>3. Seen(t) = [st |-> "asked", kind |-> c.kind, sector |-> c.sector, part |-> c.two]
  BY <1>1 DEF OnItsWay, Open, Seen
<1>4. Seen(t)' = [st |-> "done", ok |-> ok]
  <2>1. outcome'[t] # "none" /\ (outcome'[t] = "ok") = ok
    BY <1>1, <1>2, ZenonT(30)
  <2>2. \A u : u = t => Seen(u)' = [st |-> "done", ok |-> ok]
    BY <1>1, <2>1 DEF OnItsWay, Open, Seen
  <2> QED BY <2>2, ZenonT(30)
<1>5. AbstractCall[t] = Seen(t) /\ AbstractCall' = [AbstractCall EXCEPT ![t] = [st |-> "done", ok |-> ok]]
  <2>1. \A u \in Threads \ {t} : thr'[u] = thr[u] /\ outcome'[u] = outcome[u]
    BY <1>1, <1>2, ZenonT(30)
  <2> QED BY <1>1, <1>4, <2>1, SeenOf
<1>6. /\ AbstractCall[t].st = "asked" /\ AbstractCall[t].kind = c.kind
      /\ AbstractCall[t].sector = c.sector /\ AbstractCall[t].part = c.two
  <2>1. AbstractCall[t] = [st |-> "asked", kind |-> c.kind, sector |-> c.sector, part |-> c.two]
    BY <1>3, <1>5
  <2> DEFINE x == AbstractCall[t]
             k == c.kind
             s == c.sector
             p == c.two
  <2>2. x = [st |-> "asked", kind |-> k, sector |-> s, part |-> p]
    BY <2>1
  <2> HIDE DEF x, k, s, p
  <2>3. x.st = "asked" /\ x.kind = k /\ x.sector = s /\ x.part = p
    BY <2>2, AskedCall
  <2> QED BY <2>3 DEF x, k, s, p
<1>7. CASE ok
  <2>1. AbstractCall' = [AbstractCall EXCEPT ![t] = [st |-> "done", ok |-> TRUE]]
    <3>1. ok = TRUE
      BY <1>7
    <3> QED BY <1>5, <3>1
  <2>2. /\ ~c.two /\ c.kind = "read" => v = disk[c.sector]
        /\ ~c.two /\ c.kind = "write" => v = buf[t]
        /\ v \in Values
    BY <1>1 DEF Moved
  <2>3. CASE c.kind = "read"
    <3>1. buf' = [buf EXCEPT ![t] = v] /\ disk' = disk
      BY <1>1, <1>2, <1>7, <2>3
    <3>2. CASE ~c.two
      BY <1>1, <1>6, <2>1, <2>2, <2>3, <3>1, <3>2 DEF Device!Perform
    <3>3. CASE c.two
      <4>1. Device!PerformPart(t, v)
        BY <1>1, <1>6, <2>1, <2>3, <3>1, <3>3 DEF Device!PerformPart
      <4> QED BY <1>1, <2>2, <4>1
    <3> QED BY <3>2, <3>3
  <2>4. CASE c.kind = "write"
    <3>1. disk' = [disk EXCEPT ![c.sector] = v] /\ buf' = buf
      BY <1>1, <1>2, <1>7, <2>4
    <3>2. CASE ~c.two
      BY <1>1, <1>6, <2>1, <2>2, <2>4, <3>1, <3>2 DEF Device!Perform
    <3>3. CASE c.two
      <4>1. Device!PerformPart(t, v)
        BY <1>1, <1>6, <2>1, <2>4, <3>1, <3>3 DEF Device!PerformPart
      <4> QED BY <1>1, <2>2, <4>1
    <3> QED BY <3>2, <3>3
  <2> QED BY <1>1, <2>3, <2>4 DEF Kinds
<1>8. CASE ~ok
  <2>1. AbstractCall' = [AbstractCall EXCEPT ![t] = [st |-> "done", ok |-> FALSE]]
    BY <1>5, <1>8
  <2> QED BY <1>1, <1>2, <1>6, <1>8, <2>1 DEF Device!Fail
<1> QED BY <1>1, <1>7, <1>8

\* What threads see of nvme_read and nvme_write is a block device, except for
\* what a transfer of exactly two pages leaves in its buffer or on its sector.
THEOREM ImplementsBlockDevice == Spec => Refinement
<1>1. Init => Device!Init
  <2> SUFFICES ASSUME Init PROVE Device!Init
    OBVIOUS
  <2>1. /\ disk \in [Sectors -> Values] /\ buf \in [Threads -> Values]
        /\ thr = [t \in Threads |-> Idle]
    BY DEF Init
  <2>2. AbstractCall = [t \in Threads |-> Device!Idle]
    BY <2>1 DEF AbstractCall, Idle, Device!Idle
  <2> QED BY <2>1, <2>2 DEF Device!Init
<1>2. IInv /\ [Next]_vars => [Device!Next]_(Device!vars)
  <2> SUFFICES ASSUME IInv, [Next]_vars PROVE Device!Next \/ UNCHANGED Device!vars
    OBVIOUS
  <2>1. ASSUME UNCHANGED <<thr, outcome, disk, buf>> PROVE UNCHANGED Device!vars
    <3>1. \A t \in Threads : Seen(t)' = Seen(t)
      BY <2>1 DEF Seen
    <3> QED BY <2>1, <3>1, Unseen, SMTT(20)
  <2>2. CASE UNCHANGED vars
    BY <2>1, <2>2 DEF vars
  <2>3. CASE InitStep
    <3>1. UNCHANGED <<thr, outcome, disk, buf>>
      BY <2>3 DEF InitStep, NvmeProbe, NvmeReset, NvmeEnable, AdminSubmit, AdminReap, NvmeIoQueues,
                  tvars
    <3> QED BY <2>1, <3>1
  <2>4. CASE CtlAdmin \/ CtlFetch
    BY <2>1, <2>4 DEF CtlAdmin, CtlFetch, tvars
  <2>5. ASSUME Poll PROVE UNCHANGED Device!vars
    BY <2>1, <2>5 DEF Poll
  <2>6. CASE NvmeIrq
    BY <2>5, <2>6 DEF NvmeIrq
  <2>7. ASSUME NEW c \in ctl.busy, CtlComplete(c) PROVE Device!Next
    BY <2>7, CompleteIsSeen DEF Device!Next
  <2>8. ASSUME NEW t \in Threads, ThreadStep(t) PROVE Device!Next \/ UNCHANGED Device!vars
    <3>1. thr \in [Threads -> ThreadStates] /\ outcome \in [Threads -> {"none", "ok", "error"}]
      BY DEF IInv, Typed
    <3>2. CASE NvmeSubmit(t)
      <4>1. outcome[t] = "none" /\ UNCHANGED <<disk, buf, outcome>>
        BY <3>2, SubmitKeeps DEF NvmeSubmit
      <4>2. /\ thr[t].pc = "submit" /\ thr'[t].pc = "wait" /\ thr'[t].kind = thr[t].kind
            /\ thr'[t].sector = thr[t].sector /\ thr'[t].two = thr[t].two
            /\ \A u \in Threads \ {t} : thr'[u] = thr[u]
        BY <3>1, <3>2, SMTT(20) DEF NvmeSubmit
      <4>3. \A u \in Threads : Seen(u)' = Seen(u)
        BY <4>1, <4>2 DEF Seen
      <4> QED BY <4>1, <4>3, Unseen
    <3>3. CASE NvmeSubmitFails(t)
      <4>1. /\ thr[t].pc = "submit" /\ thr' = [thr EXCEPT ![t] = Idle] /\ outcome[t] = "none"
            /\ UNCHANGED <<disk, buf, outcome>>
        BY <3>3, SMTT(20) DEF NvmeSubmitFails, IInv, Owners
      <4>2. Seen(t).st = "asked" /\ Seen(t)' = [st |-> "idle"]
        BY <3>1, <4>1 DEF Seen, Idle
      <4>3. \A u \in Threads \ {t} : thr'[u] = thr[u] /\ outcome'[u] = outcome[u]
        BY <3>1, <4>1, SMTT(20)
      <4>4. AbstractCall[t].st = "asked" /\ AbstractCall' = [AbstractCall EXCEPT ![t] = [st |-> "idle"]]
        BY <4>2, <4>3, SeenOf, SMTT(20)
      <4>5. Device!Refuse(t)
        BY <4>1, <4>4 DEF Device!Refuse, Device!Idle
      <4> QED BY <4>5 DEF Device!Next
    <3>4. CASE NvmeWaitPolls(t)
      BY <2>5, <3>4 DEF NvmeWaitPolls
    <3>5. CASE NvmeWaitEnds(t)
      <4>1. /\ outcome[t] # "none" /\ (cmd[thr[t].cid].ok <=> outcome[t] = "ok")
            /\ UNCHANGED <<disk, buf, outcome>> /\ thr[t].pc = "wait"
        BY <3>5, WaitEndsKeeps DEF NvmeWaitEnds
      <4>2. cmd[thr[t].cid].ok \in BOOLEAN
        <5>1. ini = "ready" /\ ini \in IoUp
          BY <4>1, CallsWhenReady DEF IoUp
        <5>2. thr[t].cid \in 0 .. g.io_q_depth - 1
          BY <4>1, <5>1 DEF IInv, Owners, Waits
        <5> QED BY <5>1, <5>2, ReadyFacts DEF CommandStates
      <4>3. /\ thr'[t].pc = "release" /\ thr'[t].ok = cmd[thr[t].cid].ok
            /\ \A u \in Threads \ {t} : thr'[u] = thr[u]
        BY <3>1, <3>5 DEF NvmeWaitEnds
      <4>4. Seen(t)' = Seen(t)
        <5>1. thr'[t].ok = (outcome[t] = "ok")
          BY <4>1, <4>2, <4>3
        <5> QED BY <4>1, <4>3, <5>1 DEF Seen
      <4>5. \A u \in Threads : Seen(u)' = Seen(u)
        BY <4>1, <4>3, <4>4 DEF Seen
      <4> QED BY <4>1, <4>5, Unseen
    <3>6. CASE NvmeReturn(t)
      <4>1. /\ thr[t].pc = "release" /\ thr' = [thr EXCEPT ![t] = Idle]
            /\ outcome' = [outcome EXCEPT ![t] = "none"] /\ UNCHANGED <<disk, buf>>
        BY <3>6 DEF NvmeReturn
      <4>2. Seen(t).st = "done" /\ Seen(t)' = [st |-> "idle"]
        BY <3>1, <4>1 DEF Seen, Idle
      <4>3. \A u \in Threads \ {t} : thr'[u] = thr[u] /\ outcome'[u] = outcome[u]
        BY <3>1, <4>1
      <4>4. AbstractCall[t].st = "done" /\ AbstractCall' = [AbstractCall EXCEPT ![t] = [st |-> "idle"]]
        BY <4>2, <4>3, SeenOf
      <4>5. Device!Return(t)
        BY <4>1, <4>4 DEF Device!Return, Device!Idle
      <4> QED BY <4>5 DEF Device!Next
    <3> QED BY <2>8, <3>2, <3>3, <3>4, <3>5, <3>6 DEF ThreadStep
  <2>9. ASSUME NEW t \in Threads, NEW kind \in {"read", "write"}, NEW s \in Sectors, NEW v \in Values,
               NEW len \in Lens, Call(t, kind, s, v, len)
        PROVE  Device!Next
    <3>1. (len = 2) \in BOOLEAN
      OBVIOUS
    <3> QED BY <2>9, <3>1, CallIsSeen DEF Device!Next
  <2> QED BY <2>2, <2>3, <2>4, <2>6, <2>7, <2>8, <2>9 DEF Next
<1> QED BY <1>1, <1>2, Invariance, PTL DEF Spec, Refinement, Device!Spec
=============================================================================
