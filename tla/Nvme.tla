-------------------------------- MODULE Nvme --------------------------------
(***************************************************************************)
(* drivers/block/nvme.c: bringing the controller up through the admin      *)
(* queue, and nvme_read and nvme_write by several threads at once through  *)
(* one pair of I/O rings, with completions reaped by the waiting threads   *)
(* and by the MSI-X interrupt.                                             *)
(*                                                                         *)
(* What runs under io_lock is one step.  Sizes are in pages, one sector    *)
(* stands for the range a request covers, and buffers start at a page (one *)
(* that does not spans one page more, which is what counts for its PRPs).  *)
(* They lie in the direct map: pmm_virt_to_phys subtracts g_hhdm_offset,   *)
(* so the driver cannot tell the controller where any other buffer is.     *)
(***************************************************************************)
EXTENDS Integers, FiniteSets

CONSTANTS
  Threads, Sectors, Values,
  ADMIN_QUEUE_DEPTH, IO_QUEUE_DEPTH,   \* NVME_ADMIN_QUEUE_DEPTH, NVME_IO_QUEUE_DEPTH
  SQ_PAGE, CQ_PAGE,                    \* entries that fit into a page
  PRP_PAGE,                            \* pointers that fit into a PRP list
  U16,                                 \* the values of a uint16_t are 0 .. U16 - 1
  Setups,                              \* machines to start on: [mqes, mdts, msix, pages]
  Lens,                                \* transfer lengths callers ask for
  MAX_COUNT,                           \* the driver's own limit (0x10000 blocks)
  NULL

ASSUME NvmeAssumption ==
  /\ U16 \in Nat \ {0} /\ Lens \subseteq Nat /\ NULL \notin Threads
  /\ {ADMIN_QUEUE_DEPTH, IO_QUEUE_DEPTH, SQ_PAGE, CQ_PAGE} \subseteq Nat
  /\ \A m \in Setups : /\ m.mqes \in 0 .. U16 - 1     \* CAP.MQES
                       /\ m.mdts \in Nat             \* largest transfer; 0: unlimited
                       /\ m.msix \in BOOLEAN         \* whether MSI-X can be set up
                       /\ m.pages \subseteq Nat      \* what the page manager has
                       /\ IsFiniteSet(m.pages) /\ NULL \notin m.pages

VARIABLES
  ini,          \* where nvme_init is
  free,         \* pages the page manager has
  g,            \* g_nvme
  asq, acq,     \* the admin rings
  iosq, iocq,   \* the I/O rings
  cmd,          \* g_io_cmd_state
  ctl,          \* the controller
  id_buf,       \* page of the identify command under way, or NULL
  plist,        \* page -> the thread whose buffer the PRP list in it names
  thr,          \* thread -> locals of nvme_read or nvme_write
  disk, buf,    \* sector -> value, thread -> value in its buffer
  outcome       \* thread -> what the controller made of its request (history)

ivars == <<ini, asq, acq, id_buf>>
tvars == <<cmd, iosq, plist, thr, disk, buf, outcome>>
vars == <<ini, free, g, asq, acq, iosq, iocq, cmd, ctl, id_buf, plist, thr, disk, buf, outcome>>

AdminSteps == {"identify_ctrl", "identify_ns", "create_cq", "create_sq"}
Zero == [i \in {} |-> 0]
NoCommand == [in_use |-> FALSE, done |-> FALSE, ok |-> TRUE]
Idle == [pc |-> "idle"]

Init ==
  /\ ini = "probe"
  /\ g = [ready |-> FALSE, admin_q_depth |-> 0, io_q_depth |-> 0, asq_tail |-> 0,
          acq_head |-> 0, acq_phase |-> 0, next_admin_cid |-> 0, msix_enabled |-> FALSE,
          iosq_tail |-> 0, iosq_head |-> 0, iocq_head |-> 0, iocq_phase |-> 0,
          next_io_cid |-> 0, mdts |-> 0]
  /\ asq = Zero /\ acq = Zero /\ iosq = Zero /\ iocq = Zero /\ cmd = Zero
  /\ \E m \in Setups :
       /\ free = m.pages
       /\ ctl = [mqes |-> m.mqes, mdts |-> m.mdts, msix |-> m.msix, asq_head |-> 0,
                 asq_tail |-> 0, acq_tail |-> 0, acq_phase |-> 1, sq_head |-> 0, sq_tail |-> 0,
                 cq_tail |-> 0, cq_head |-> 0, cq_phase |-> 1, depth |-> 0, busy |-> {}]
  /\ id_buf = NULL
  /\ plist = [p \in free |-> NULL]
  /\ thr = [t \in Threads |-> Idle]
  /\ disk \in [Sectors -> Values]
  /\ buf \in [Threads -> Values]
  /\ outcome = [t \in Threads |-> "none"]

Lowest(S) == CHOOSE p \in S : \A q \in S : p <= q
Least(a, b) == IF a < b THEN a ELSE b
Flip(phase) == 1 - phase
After(i, depth) == (i + 1) % depth
Span(i, j, depth) == (j - i + depth) % depth   \* ring entries from i to j

-----------------------------------------------------------------------------
(* nvme_init.                                                              *)

\* MQES + 1 as a uint16_t: 0 for the largest value.
MaxHw == (ctl.mqes + 1) % U16

\* nvme_calc_depth for a ring whose page holds per_page entries.
nvme_calc_depth(desired, per_page) ==
  LET depth == Least(Least(desired, MaxHw), per_page)
  IN IF depth < 2 THEN 0 ELSE depth

InitFails ==
  /\ ini' = "failed"
  /\ UNCHANGED g

\* Steps 1 to 5: there may be no controller, or none this driver can use.
NvmeProbe ==
  /\ ini = "probe"
  /\ \E usable \in BOOLEAN :
       LET depth == nvme_calc_depth(ADMIN_QUEUE_DEPTH, SQ_PAGE)
       IN IF usable /\ depth # 0
            THEN ini' = "disable" /\ g' = [g EXCEPT !.admin_q_depth = depth]
            ELSE InitFails
  /\ UNCHANGED <<tvars, free, asq, acq, id_buf, iocq, ctl>>

\* Steps 6 to 10: wait until it is off, give it the admin rings, switch it on.
\* When only one of the two pages is there it stays allocated.
NvmeReset ==
  /\ ini = "disable"
  /\ \E off \in BOOLEAN :
       LET p == Lowest(free)
           q == Lowest(free \ {p})
       IN IF off /\ Cardinality(free) >= 2
            THEN /\ ini' = "enable"
                 /\ free' = free \ {p, q}
                 /\ g' = [g EXCEPT !.asq_tail = 0, !.acq_head = 0, !.acq_phase = 1]
                 /\ asq' = [i \in 0 .. g.admin_q_depth - 1 |-> NULL]
                 /\ acq' = [i \in 0 .. g.admin_q_depth - 1 |-> [phase |-> 0]]
            ELSE /\ InitFails
                 /\ free' = IF off THEN {} ELSE free
                 /\ UNCHANGED <<asq, acq>>
  /\ UNCHANGED <<tvars, id_buf, iocq, ctl>>

\* Step 11: CSTS.RDY without CSTS.CFS, or a time-out.
NvmeEnable ==
  /\ ini = "enable"
  /\ \E up \in BOOLEAN : ini' = IF up THEN "identify_ctrl" ELSE "failed"
  /\ UNCHANGED <<tvars, free, g, asq, acq, id_buf, iocq, ctl>>

\* nvme_identify_controller and nvme_identify_namespace have a page for the
\* answer, and free it on every way out.
Identifies == ini \in {"identify_ctrl", "identify_ns"}

\* nvme_admin_cmd up to its wait, with the page of an identify command.
AdminSubmit ==
  /\ ini \in AdminSteps /\ ctl.asq_tail = ctl.asq_head /\ acq[g.acq_head].phase # g.acq_phase
  /\ LET p == Lowest(free)
     IN IF Identifies /\ free = {}
          THEN InitFails /\ UNCHANGED <<free, id_buf, asq, ctl>>
          ELSE /\ id_buf' = IF Identifies THEN p ELSE NULL
               /\ free' = IF Identifies THEN free \ {p} ELSE free
               /\ asq' = [asq EXCEPT ![g.asq_tail] = g.next_admin_cid]
               /\ g' = [g EXCEPT !.next_admin_cid = @ + 1,
                                 !.asq_tail = After(@, g.admin_q_depth)]
               /\ ctl' = [ctl EXCEPT !.asq_tail = After(g.asq_tail, g.admin_q_depth)]
               /\ UNCHANGED ini
  /\ UNCHANGED <<tvars, acq, iocq>>

\* What a successful admin command leads to.
AfterAdmin ==
  CASE ini = "identify_ctrl" -> "identify_ns"
    [] ini = "identify_ns" -> "io_queues"
    [] ini = "create_cq" -> "create_sq"
    [] ini = "create_sq" -> "ready"

\* The largest transfer nvme_identify_controller takes from a good answer.
MdtsAfter(ok) == IF ok THEN ctl.mdts ELSE g.mdts

\* The rest of nvme_admin_cmd and of the function that issued it.  The
\* command fails by its status or its identifier, or what the controller
\* describes cannot be used.
AdminReap ==
  /\ ini \in AdminSteps /\ ctl.asq_tail = ctl.asq_head
  /\ LET cqe == acq[g.acq_head]
         wraps == g.acq_head + 1 = g.admin_q_depth
         ok == cqe.ok /\ cqe.cid = g.next_admin_cid - 1
     IN /\ cqe.phase = g.acq_phase
        /\ \E usable \in BOOLEAN :
             /\ ini' = IF ok /\ usable THEN AfterAdmin ELSE "failed"
             /\ g' = [g EXCEPT !.acq_head = IF wraps THEN 0 ELSE @ + 1,
                               !.acq_phase = IF wraps THEN Flip(@) ELSE @,
                               !.mdts = MdtsAfter(ok),
                               !.ready = ok /\ usable /\ ini = "create_sq"]
  /\ free' = free \cup ({id_buf} \ {NULL})
  /\ id_buf' = NULL
  /\ UNCHANGED <<tvars, asq, acq, iocq, ctl>>

\* nvme_setup_msix, which is optional.
SetupMsix == ctl.msix

\* From MSI-X to the empty I/O rings.
NvmeIoQueues ==
  /\ ini = "io_queues"
  /\ LET depth == nvme_calc_depth(IO_QUEUE_DEPTH, Least(SQ_PAGE, CQ_PAGE))
         p == Lowest(free)
         q == Lowest(free \ {p})
     IN IF depth # 0 /\ Cardinality(free) >= 2
          THEN /\ ini' = "create_cq"
               /\ free' = free \ {p, q}
               /\ g' = [g EXCEPT !.msix_enabled = SetupMsix, !.io_q_depth = depth,
                                 !.iosq_tail = 0, !.iosq_head = 0,
                                 !.iocq_head = 0, !.iocq_phase = 1]
               /\ iosq' = [i \in 0 .. depth - 1 |-> NULL]
               /\ iocq' = [i \in 0 .. depth - 1 |-> [phase |-> 0]]
               /\ cmd' = [i \in 0 .. depth - 1 |-> NoCommand]
          ELSE /\ ini' = "failed"
               /\ g' = [g EXCEPT !.msix_enabled = SetupMsix, !.io_q_depth = depth]
               /\ free' = IF depth # 0 THEN {} ELSE free
               /\ UNCHANGED <<iosq, iocq, cmd>>
  /\ UNCHANGED <<asq, acq, id_buf, ctl, plist, thr, disk, buf, outcome>>

-----------------------------------------------------------------------------
(* nvme_read and nvme_write.                                               *)

\* nvme_build_prp: a transfer of more than a page, be it two, needs a page
\* for a list, which may be too long for it.
PrpFails(len) == len - 1 > PRP_PAGE \/ (len > 1 /\ free = {})
PrpPage(len) == IF len > 1 THEN Lowest(free) ELSE NULL

\* What the guards of nvme_read and nvme_write and nvme_build_prp refuse.
Refused(len) ==
  \/ ~g.ready \/ len = 0 \/ len > MAX_COUNT
  \/ g.mdts # 0 /\ len > g.mdts
  \/ PrpFails(len)

\* A thread calls, to write with v in its buffer: the guards and the list.
\* nvme_init runs at boot, before there are threads.
Call(t, kind, s, v, len) ==
  /\ ini \in {"ready", "failed"} /\ thr[t].pc = "idle"
  /\ kind = "read" => v = buf[t]
  /\ buf' = [buf EXCEPT ![t] = v]
  /\ IF Refused(len)
       THEN /\ thr' = [thr EXCEPT ![t] = Idle]
            /\ UNCHANGED <<free, plist>>
       ELSE /\ thr' = [thr EXCEPT ![t] = [pc |-> "submit", kind |-> kind, sector |-> s,
                                          page |-> PrpPage(len), two |-> len = 2]]
            /\ free' = free \ {PrpPage(len)}
            /\ plist' = [p \in DOMAIN plist |-> IF p = PrpPage(len) THEN t ELSE plist[p]]
  /\ UNCHANGED <<ivars, g, iosq, iocq, cmd, ctl, disk, outcome>>

\* nvme_free_prp for the page of a request, NULL when it had none.
FreePrp(page) ==
  /\ free' = free \cup ({page} \ {NULL})
  /\ plist' = IF page = NULL THEN plist ELSE [plist EXCEPT ![page] = NULL]

\* nvme_alloc_cid: the first free identifier from next_io_cid on.
FreeCids == {i \in DOMAIN cmd : ~cmd[i].in_use}
AllocCid ==
  CHOOSE i \in FreeCids : \A j \in FreeCids :
    Span(g.next_io_cid, i, g.io_q_depth) <= Span(g.next_io_cid, j, g.io_q_depth)

\* Mutant: the ring may be filled to the last entry.
RingNeverFull == FALSE

\* The test of nvme_submit_io: one entry of the ring stays empty.
RingFull == After(g.iosq_tail, g.io_q_depth) = g.iosq_head

\* nvme_submit_io fails: nvme_read frees the list and returns.
NvmeSubmitFails(t) ==
  /\ thr[t].pc = "submit"
  /\ FreeCids = {} \/ RingFull
  /\ thr' = [thr EXCEPT ![t] = Idle]
  /\ FreePrp(thr[t].page)
  /\ IF FreeCids = {}
       THEN UNCHANGED <<g, cmd>>
       ELSE /\ g' = [g EXCEPT !.next_io_cid = After(AllocCid, g.io_q_depth)]
            /\ cmd' = [cmd EXCEPT ![AllocCid] = NoCommand]
  /\ UNCHANGED <<ivars, iosq, iocq, ctl, disk, buf, outcome>>

NvmeSubmit(t) ==
  /\ thr[t].pc = "submit"
  /\ FreeCids # {} /\ ~RingFull
  /\ LET cid == AllocCid
         c == thr[t]
     IN /\ cmd' = [cmd EXCEPT ![cid] = [NoCommand EXCEPT !.in_use = TRUE]]
        /\ iosq' = [iosq EXCEPT ![g.iosq_tail] =
                      [cid |-> cid, kind |-> c.kind, sector |-> c.sector, page |-> c.page,
                       two |-> c.two, buf |-> t]]
        /\ g' = [g EXCEPT !.next_io_cid = After(cid, g.io_q_depth),
                          !.iosq_tail = After(@, g.io_q_depth)]
        /\ ctl' = [ctl EXCEPT !.sq_tail = After(g.iosq_tail, g.io_q_depth)]
        /\ thr' = [thr EXCEPT ![t] = [pc |-> "wait", cid |-> cid, kind |-> c.kind,
                                      sector |-> c.sector, page |-> c.page, two |-> c.two]]
  /\ UNCHANGED <<ivars, free, iocq, plist, disk, buf, outcome>>

\* Entry k from iocq_head on, and the phase it must have to be new.
Entry(k) == iocq[(g.iocq_head + k) % g.io_q_depth]
PhaseOf(k) == IF g.iocq_head + k < g.io_q_depth THEN g.iocq_phase ELSE Flip(g.iocq_phase)

\* How many entries the loop of nvme_poll_completions takes.
NewEntries ==
  LET new(n) == \A k \in 0 .. n - 1 : Entry(k).phase = PhaseOf(k)
  IN CHOOSE n \in 0 .. g.io_q_depth : new(n) /\ \A m \in 0 .. g.io_q_depth : new(m) => m <= n

\* nvme_poll_completions with n entries to take.
PollCompletions(n) ==
  LET answered == {Entry(k).cid : k \in 0 .. n - 1}
      answer(i) == CHOOSE e \in {Entry(k) : k \in 0 .. n - 1} : e.cid = i
  IN /\ cmd' = [i \in DOMAIN cmd |->
                  IF i \in answered THEN [cmd[i] EXCEPT !.ok = answer(i).ok, !.done = TRUE]
                                    ELSE cmd[i]]
     /\ iocq' = [i \in DOMAIN iocq |->
                   IF Span(g.iocq_head, i, g.io_q_depth) < n THEN [phase |-> iocq[i].phase]
                                                             ELSE iocq[i]]
     /\ g' = [g EXCEPT !.iosq_head = Entry(n - 1).sq_head,
                       !.iocq_head = (@ + n) % g.io_q_depth,
                       !.iocq_phase = IF g.iocq_head + n >= g.io_q_depth THEN Flip(@) ELSE @]

\* Mutant: the controller is not told which entries have been taken.
NoDoorbell(n) == ctl.cq_head

\* What is written to the doorbell of the completion ring.
CqDoorbell(n) == (g.iocq_head + n) % g.io_q_depth

\* All of nvme_poll_completions, when there is something to take.
Poll ==
  /\ ini = "ready"
  /\ LET n == NewEntries
     IN /\ n > 0
        /\ PollCompletions(n)
        /\ ctl' = [ctl EXCEPT !.cq_head = CqDoorbell(n)]
  /\ UNCHANGED <<ivars, free, iosq, plist, thr, disk, buf, outcome>>

\* One turn of the loop of nvme_wait_cid.
NvmeWaitPolls(t) == thr[t].pc = "wait" /\ ~cmd[thr[t].cid].done /\ Poll

\* nvme_irq_handler: the message of a completion arrives at any time after
\* it, also when a thread has been faster (then there is nothing to take).
NvmeIrq == g.msix_enabled /\ Poll

\* Mutant: the identifier is the only thing the wait looks at.
DoneUnchecked(t) == cmd[thr[t].cid].in_use

CommandDone(t) == cmd[thr[t].cid].done

\* The loop of nvme_wait_cid ends; the status is read without the lock.
NvmeWaitEnds(t) ==
  /\ thr[t].pc = "wait" /\ CommandDone(t)
  /\ thr' = [thr EXCEPT ![t] = [pc |-> "release", cid |-> thr[t].cid, page |-> thr[t].page,
                                ok |-> cmd[thr[t].cid].ok]]
  /\ UNCHANGED <<ivars, free, g, iosq, iocq, cmd, ctl, plist, disk, buf, outcome>>

\* nvme_release_cid under the lock again, nvme_free_prp, and the return.
NvmeReturn(t) ==
  /\ thr[t].pc = "release"
  /\ cmd' = [cmd EXCEPT ![thr[t].cid] = NoCommand]
  /\ FreePrp(thr[t].page)
  /\ thr' = [thr EXCEPT ![t] = Idle]
  /\ outcome' = [outcome EXCEPT ![t] = "none"]
  /\ UNCHANGED <<ivars, g, iosq, iocq, ctl, disk, buf>>

-----------------------------------------------------------------------------
(* The controller (external): it takes commands in order, performs them in *)
(* any order, and posts one completion for each while there is room.  A    *)
(* ring entry that its reader has passed is never read again, but for the  *)
(* phase of a completion; the rest of it is forgotten.                     *)

CtlAdmin ==
  /\ ctl.asq_head # ctl.asq_tail
  /\ \E ok \in BOOLEAN :
       acq' = [acq EXCEPT ![ctl.acq_tail] =
                 [cid |-> asq[ctl.asq_head], ok |-> ok, phase |-> ctl.acq_phase]]
  /\ LET wraps == ctl.acq_tail + 1 = g.admin_q_depth
     IN ctl' = [ctl EXCEPT !.asq_head = After(@, g.admin_q_depth),
                           !.acq_tail = IF wraps THEN 0 ELSE @ + 1,
                           !.acq_phase = IF wraps THEN Flip(@) ELSE @,
                           !.depth = IF ini = "create_cq" THEN g.io_q_depth ELSE @]
  /\ UNCHANGED <<tvars, ini, free, g, asq, id_buf, iocq>>

CtlFetch ==
  /\ ctl.sq_head # ctl.sq_tail
  /\ ctl' = [ctl EXCEPT !.busy = @ \cup {iosq[ctl.sq_head]}, !.sq_head = After(@, ctl.depth)]
  /\ iosq' = [iosq EXCEPT ![ctl.sq_head] = NULL]
  /\ UNCHANGED <<ivars, free, g, iocq, cmd, plist, thr, disk, buf, outcome>>

\* The buffer a command transfers to or from.  PRP2 is the address of a list
\* when a transfer has more than two pages.  When it has two, PRP2 is for the
\* controller the second page itself, but nvme_build_prp makes a list for
\* them as well: the first page is transferred as it should be, and the list
\* in place of the second.  (A read overwrites the list, which nobody reads
\* again before it is freed.)
Target(c) == IF c.two \/ c.page = NULL THEN c.buf ELSE plist[c.page]

\* What a transfer can bring to its destination.
Moved(c) ==
  IF c.two \/ Target(c) = NULL THEN Values
  ELSE {IF c.kind = "write" THEN buf[Target(c)] ELSE disk[c.sector]}

CtlComplete(c) ==
  /\ After(ctl.cq_tail, ctl.depth) # ctl.cq_head
  /\ \E ok \in BOOLEAN, v \in Moved(c) :
       /\ disk' = IF ok /\ c.kind = "write" /\ Target(c) # NULL
                    THEN [disk EXCEPT ![c.sector] = v] ELSE disk
       /\ buf' = IF ok /\ c.kind = "read" /\ Target(c) # NULL
                   THEN [buf EXCEPT ![Target(c)] = v] ELSE buf
       /\ iocq' = [iocq EXCEPT ![ctl.cq_tail] =
                     [cid |-> c.cid, sq_head |-> ctl.sq_head, ok |-> ok, phase |-> ctl.cq_phase]]
       /\ outcome' = [outcome EXCEPT ![c.buf] = IF ok THEN "ok" ELSE "error"]
  /\ LET wraps == ctl.cq_tail + 1 = ctl.depth
     IN ctl' = [ctl EXCEPT !.busy = @ \ {c},
                           !.cq_tail = IF wraps THEN 0 ELSE @ + 1,
                           !.cq_phase = IF wraps THEN Flip(@) ELSE @]
  /\ UNCHANGED <<ivars, free, g, iosq, cmd, plist, thr>>

-----------------------------------------------------------------------------
InitStep ==
  NvmeProbe \/ NvmeReset \/ NvmeEnable \/ AdminSubmit \/ AdminReap \/ NvmeIoQueues

ThreadStep(t) ==
  \/ NvmeSubmit(t) \/ NvmeSubmitFails(t) \/ NvmeWaitPolls(t) \/ NvmeWaitEnds(t)
  \/ NvmeReturn(t)

CompleteFor(t) == \E c \in ctl.busy : c.buf = t /\ CtlComplete(c)

Next ==
  \/ InitStep \/ NvmeIrq \/ CtlAdmin \/ CtlFetch
  \/ \E c \in ctl.busy : CtlComplete(c)
  \/ \E t \in Threads :
       \/ ThreadStep(t)
       \/ \E kind \in {"read", "write"}, s \in Sectors, v \in Values, len \in Lens :
            Call(t, kind, s, v, len)

\* Threads run on; the controller fetches what is announced and finishes
\* every command it has, in whatever order.
Fairness ==
  /\ WF_vars(CtlFetch)
  /\ \A t \in Threads : WF_vars(ThreadStep(t)) /\ SF_vars(CompleteFor(t))

Spec == Init /\ [][Next]_vars /\ Fairness

-----------------------------------------------------------------------------
\* The rings are sound: their depth is one the controller supports and fits
\* the pages; no announced command is overwritten before the controller has
\* fetched it, so that each waiting thread has exactly one command on its
\* way, under an identifier no other thread uses; an admin command is
\* answered under its own identifier; and of the pages start-up left, each
\* is free or the PRP list of one call.
RingsSound ==
  /\ \A d \in {g.admin_q_depth, g.io_q_depth} \ {0} :
       d \in 2 .. ctl.mqes + 1 /\ d <= SQ_PAGE
  /\ ini \in AdminSteps /\ ctl.asq_tail = ctl.asq_head /\ acq[g.acq_head].phase = g.acq_phase
       => acq[g.acq_head].cid = g.next_admin_cid - 1
  /\ ctl.depth \in {0, g.io_q_depth}
  /\ ini = "ready" =>
       LET announced == {k \in 0 .. g.io_q_depth - 1 :
                           Span(ctl.sq_head, k, g.io_q_depth)
                             < Span(ctl.sq_head, ctl.sq_tail, g.io_q_depth)}
           queued == {iosq[k] : k \in announced}
           open == {t \in Threads : thr[t].pc = "wait" /\ outcome[t] = "none"}
       IN /\ Cardinality(announced) + Cardinality(ctl.busy) = Cardinality(open)
          /\ {c.buf : c \in queued \cup ctl.busy} = open
          /\ \A c \in queued \cup ctl.busy : thr[c.buf].cid = c.cid
          /\ \A t, u \in Threads : t # u /\ {thr[t].pc, thr[u].pc} \subseteq {"wait", "release"}
               => thr[t].cid # thr[u].cid
          /\ LET lists == {t \in Threads : thr[t].pc # "idle" /\ thr[t].page # NULL}
             IN /\ \A t \in lists : plist[thr[t].page] = t /\ thr[t].page \notin free
                /\ Cardinality(free) + Cardinality(lists) + 4 = Cardinality(DOMAIN plist)

\* Every call returns: no completion is missed, neither at the wrap of the
\* ring nor when another thread or the interrupt reaps it, and a full ring
\* makes a call fail rather than wait.
EveryCallReturns == \A t \in Threads : thr[t].pc # "idle" ~> thr[t].pc = "idle"

\* The call of each thread as the abstract device sees it.
AbstractCall ==
  [t \in Threads |->
     IF thr[t].pc = "idle" THEN [st |-> "idle"]
     ELSE IF thr[t].pc = "release" THEN [st |-> "done", ok |-> thr[t].ok]
     ELSE IF outcome[t] # "none" THEN [st |-> "done", ok |-> outcome[t] = "ok"]
     ELSE [st |-> "asked", kind |-> thr[t].kind, sector |-> thr[t].sector, part |-> thr[t].two]]

Device == INSTANCE BlockDevice WITH Callers <- Threads, call <- AbstractCall

\* Threads that read and write through the driver see a block device: each
\* call is refused or performed once, on the right buffer, between its call
\* and its return, and returns its own outcome.  A transfer of exactly two
\* pages touches the right buffer and sector, but may leave anything there.
Refinement == Device!Spec

=============================================================================
