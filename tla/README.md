# A formal model of VeloxOS

VeloxOS is a small x86-64 kernel in C, booted by Limine on several CPUs. This
directory holds TLA+ modules that model its memory management, locking,
scheduling, start-up, inter-processor interrupts, drivers and file systems, TLC
models that check them on small instances, and TLAPS proofs for the page manager,
the spin locks, the scheduler, the heap, the page tables, the start-up of CPUs with
the TLB shootdown, the keyboard's handler and the NVMe driver.

## The system

| Part | Source | Module | State of the model |
|---|---|---|---|
| physical page manager | `mm/pmm.c` | `Pmm`, abstract `PageAllocator`, `PmmProofs` | complete, proved |
| spin locks, interrupt flag | `arch/x86_64/lib/spinlock.S` | `Spinlock`, `SpinlockProofs` | complete, proved |
| console lock | `include/printk.c` | `Console` | lock and enable flag |
| scheduler, interrupt path | `kernel/sched.c`, `isr_handler.c`, `idt.S` | `Sched`, `SchedProofs` | complete for scheduling; safety proved |
| kernel heap | `mm/kmalloc.c` | `Kmalloc`, abstract `RegionAllocator`, `KmallocProofs` | complete, proved |
| page tables | `mm/paging.c` | `PageTables`, `Paging`, abstract `AddressSpace`, `PagingProofs` | tables complete, proved; TLBs in `Ipi` |
| virtual areas | `mm/vmalloc.c` | `Vmalloc`, abstract `RegionAllocator` | complete |
| SMP start-up, local APIC | `cpu/smp.c`, `cpu/apic.c`, `kernel/cpu.c` | `Smp`, `IpiProofs` | complete but for register values; `cpu_self` proved |
| IPIs, TLB shootdown, panic | `kernel/ipi.c`, `kernel/panic.c` | `Ipi`, `IpiProofs` | complete but for unused single sends; shootdown proved |
| NVMe | `drivers/block/nvme.c` | `Nvme`, abstract `BlockDevice`, `NvmeProofs` | complete; safety proved |
| ATA disk, GPT, FAT32 | `virtio/vblk.c`, `fs/partition/gpt.c`, `fs/fat32.c` | `Fat32` | complete for reading |
| VFS and its FAT32 file system | `fs/vfs/` | `Vfs` | complete for nodes of a file system |
| ACPI, MADT | `cpu/acpi.c`, `cpu/madt.c` | `Firmware` | complete |
| PCI enumeration | `drivers/block/pci.c` | `Pci`, `KeyboardProofs` | enumeration, proved |
| I/O APIC | `cpu/ioapic.c` | `Ioapic` | complete |
| PS/2 keyboard | `drivers/IO/ps2_keyboard.c` | `Keyboard`, `KeyboardProofs` | complete; routing, handler and listeners proved |

How they interact: `kmalloc` gets its pools from `vmalloc`; `vmalloc` takes
frames from the page manager and maps them through paging; paging takes its
tables from the page manager, and at boot gives it the boot loader's memory.
Each has one lock, and they nest in that order. The scheduler takes task
structures from the heap and stacks from `vmalloc`. Timer ticks and IPIs enter
through one stub, which resumes whatever frame `isr_handler` returns. A change of
the page tables is followed by a shootdown IPI, a panic by a halt IPI, and both
find their targets in the table of CPUs that start-up fills. The file systems read
through the partition table from the ATA disk, and take everything they keep from
the heap. The keyboard's interrupt comes through an I/O APIC that the ACPI tables
describe.

The modules are composed along these lines. `PageTables` is shared by `Paging`
(all calls, many boot situations) and by `Vmalloc` (a run of calls page by page,
in competition with others for frames). `Ipi` extends `Smp`: IPIs are sent while
CPUs are still coming up. `Vfs` extends `Fat32`, which is everything from the disk's
sectors up to directory entries. `Keyboard` extends `Ioapic`, `Pci` and `Firmware`:
what the firmware tables say decides which pin is routed, and keys arrive
meanwhile. `Spinlock` justifies that a critical section is one step in all other
modules; `Pmm` is proved to return the lowest free page, and `PageTables`, `Vmalloc`
and `Nvme` use exactly that.

## The modules

**Pmm.** The bitmap is the set of pages whose bit is 1. Addresses are numbers
modulo `WORD`, so ends that wrap and rounding that wraps are there. `pmm_init` is
`PmmInitPanic`, `PmmInitSetup`, one `PmmInitEntry` per entry of the memory map,
and `PmmInitReserve`; then `PmmAllocPage`, `PmmAllocFails`, `PmmFreePage`,
`PmmFreeIgnored`, and `ReclaimBootloader`, which is the loop of `paging.c` over
reclaimable entries. `held` records what callers own. A caller frees only pages
it owns: nothing in the code checks that.

**Spinlock.** A step is an instruction of `spinlock.S`. Each CPU has a thread and
possibly a handler on top of it (interrupt gates: handlers do not nest). `Calls`
lists which lock is taken under which, from the call sites; `SpinLockCaller` and
`IrqsaveCaller` say who uses which routine. Critical sections do nothing but
take and release further locks.

**Console** adds to Spinlock the early return of `safe_printk`.

**Sched.** A frame pointer is the thread whose stack it points into. An interrupt
is four steps (entry, the test for the tick, the test for RESCHED, return), since
the second test reads the frame the first one chose. `sched_spawn` is one step
per call it makes; it runs with interrupts on and can be preempted between them.
The timer may fail to start on a CPU. That a thread has one frame suffices:
handlers do not nest. The frame `sched_spawn` makes lacks `rsp` and `ss`, which `iretq`
pops in 64-bit mode: on the first switch to the thread the CPU ends on the thread's
stack or on none (`StacksFrom`), and in the second case takes no further part.

**Kmalloc.** Blocks by header address, with the real sizes in alignment units;
`magic` is what a read at any aligned address would give, so a stale pointer
meets what later splits and merges wrote there. `kfree`'s loop is a step per
absorbed block. Sizes are numbers modulo `SIZE_WORD`: one within an alignment of
`SIZE_MAX` is rounded up to 0, and the caller gets a block without payload (`Wraps`).
`vmalloc` is external to this module: it gives a pool or fails.

**PageTables, Paging.** Tables of `FANOUT` entries on four levels, large pages in
the third. The operators of `PageTables` are the static functions of `paging.c`
on a record; the actions of `Paging` are its entry points. `paging_init` is one
step for the root, one per page mapped, and the switch: `todo` is the set of what its
loops have still to map, and `NotAfter` their order. The boot situation is a
record: the old map, the kernel's pages, where the direct map is, what must be
preserved, which frames are free, which pages later callers own (`Lengths` are the
lengths of the ranges they pass). A panic is a final state. The boot loader's own
tables are a function from pages to frames.

**Vmalloc.** One call at a time (its lock), page by page, with `TakeFrame` and
`GiveFrame` as the other users of the page manager in between. Free ranges are a
bounded sequence, and the panic of a full array is there. A caller frees what it
was given, with the size it asked for.

**Smp.** One step of `smp_init` per CPU of the boot loader's list, with the write of
`goto_address` apart, since from then on the CPU runs; then the publication of
`g_cpu_count`, the wait with its time-out for each CPU, `sched_init` and `sti`. The
other CPUs enter, configure their APIC, go online and wait for the scheduler, at
any speed. The id register of an xAPIC keeps the id modulo `APIC_IDS`: a CPU whose
id does not fit finds another id than its record has and stays dead. The stack of a
started CPU comes from `vmalloc` and is mapped in the kernel's page tables; the CPU
itself stays on the boot loader's, since nothing loads its CR3. Whether these map the
stack is outside the code, so `ApEntry` has both outcomes, and in one the CPU is lost.

**Ipi** adds the TLBs, a page table of one level, pending and in-service vectors and
the broadcasts, a step per record looked at. A page table change holds the paging
lock to the end of its broadcast; nobody waits for the receivers. A CPU that waits for
the lock has interrupts off, and a CPU may panic with the lock held (as
`alloc_table_page` does), which then stays taken. The locks of `vmalloc` and `kmalloc`
behave in the same way (the panic of `vmalloc.c:62`) and have no state of their own here.
Only CPUs that use the kernel's tables cache their translations (`Access`,
`OnKernelTables`): that is the boot CPU, as long as no code loads CR3 on another.
`doomed` is a history variable: the CPUs that were running when another panicked. A CPU
that is released after a panic is not among them, and would go on running.

**Nvme.** `nvme_init` is a step per stage, with an admin command as submission,
completion by the controller and reaping; every stage may fail. `nvme_read` and
`nvme_write` are a call (with its PRP list), the submission under the lock, polls
and a return; the interrupt handler polls too. The rings have phase bits, and the
controller, which is external, fetches in order, completes in any order and
reports any status, and stops when its completion ring is full. A `uint16_t` has
`U16` values. A transfer that ends in its second page carries the address of a PRP list
where a controller expects that of the page (`nvme.c:277`): what such a command moves is
left open (`Moved`). **BlockDevice** is the abstract device: a call is asked for, performed
or refused once, and returns its outcome.

**Fat32.** A disk is a function from sector numbers to what they hold: a header, a
boot record, FAT entries, directory entries or bytes, with sizes scaled down
together. `fat32_mount`, `fat32_read_fat_entry` and the rest are operators on it,
with the code's widths (`U8`, `U32`, `U64`, 28-bit FAT entries); `virtio_blk_read`'s
limits on sector and count are there, and its time-outs are a failure that may
strike any transfer. A routine that walks a chain is a `job`, a step per cluster. Long
names are converted to bytes (`utf16le_to_utf8`) into an entry with room for
`FAT32_NAME_MAX`: one that just fills it runs into the attributes (`InDirent`), and one
that leaves the memory of its caller (`Overruns`), like a scan that reads what nothing has
written (`Unknown`), ends the job there: what the machine does then is not modelled.

**Vfs.** The calls of `vfs.c` and `fat32_vfs.c` by one caller at a time: the code has no
lock, and no kernel code calls it from two threads. A call is a chain of steps, one
per node or directory it visits and one per allocation that may fail. Nodes stay in
the tree once a lookup has made them; `heap` is the set of blocks allocated, named
by what they are for. Callers close their files before they unmount: the code does
not check.

**Firmware, Pci, Ioapic, Keyboard.** `acpi_init` and `madt_init` are a step each: the
walk over the records is a recursive function over their lengths. The recursion of
`pci_enumerate` is an explicit stack, a step per function looked at, since any
allocation may fail. Routing a line is two steps, as the code writes two registers:
between them the line is open with the old destination. `x86_ioapic_mask_gsi` is three
steps, the read of an entry and the two writes; the code has no lock around them, nor
around the index register they share, and the model is of callers that do not overlap
(there is none in the kernel yet). The keyboard's handler is
a step for the lock, the read, each listener and the EOI; `register` and
`unregister` run on all CPUs. The controller has a one-byte buffer, and the line is
edge- or level-triggered as the machine says; other drivers mask and unmask only
their own lines. No kernel code registers a listener yet: threads of the model do.

**PageAllocator, RegionAllocator, AddressSpace** say what the page manager, the
two allocators and paging promise. `Refinement` in `Pmm`, `Kmalloc`, `Vmalloc`,
`Paging` and `Nvme` is the statement that they keep it.

## The runs

| Run | Bounds | States | Shows |
|---|---|---|---|
| `pmm` | 2-byte pages, 40 addresses, 37 memory maps, 2 clients | 4940 | exact counters, no free page under the hint, only RAM handed out, one owner, safe reclaiming, refinement |
| `spinlock` | 2 CPUs, 6 locks | 41554 | mutual exclusion, no interrupt while holding, flag restored, progress |
| `console_early_return` | 1 CPU, 2 locks | | violated: flag not restored |
| `sched` | 2 CPUs, 2 tasks | 91195 | each thread in one place, stack = current, spawn on the home CPU, no leak, queued threads run |
| `kmalloc` | 2 pools of 12 units, headers of 3, 5-bit sizes | 12348 | tiling, exact free list, stale frees caught, refinement |
| `paging` | 3-entry tables, 5 boots | 8843 | tables form a tree, boot mappings kept, user mappings reachable, refinement |
| `paging_protect` | as `paging` | | violated: GLOBAL and USER together |
| `vmalloc` | 3-entry tables, area of 4 pages, 10 frames, 2 ranges | 108597 | free ranges exact, frames conserved, refinement |
| `nvme` | 2 threads, rings of 2 and 3, 8 controllers | 242352 | rings sound, every call returns, refinement of a block device |
| `ipi` | 3 lists of CPUs, 3 records, 1 page | 180161 | `cpu_self` right, stale translations covered, panic halts, APs join |
| `fs` | 18 disks of 16 sectors, 2 roots, 1 file | 244344 | answers agree with the disk, heap exact, calls end |
| `devices` | 10 machines, 2 CPUs, 2 listeners, 3 scan codes | 217265 | inventories exact, routing exact, events right, keys handled |

Why the bounds are enough to be interesting. *pmm*: the maps have every
combination of two cuts on and off page borders, and the edges: no map, a wrap of
an end and of the page count, no room for the bitmap, a single page, overlapping
entries, a bitmap of two pages. *spinlock*: two CPUs give every conflict of two
threads and two handlers, the locks include the whole nesting of the memory
managers, a lock taken by a handler with `spin_lock` and one taken by both.
*sched*: with its bootstrap thread a CPU has three threads, enough to be dropped,
doubled or starved. *kmalloc*: a pool holds up to three blocks, so merging absorbs
one and two; sizes are one that splits, one that leaves a remainder too small to
split, one no pool can hold, and one that wraps to 0. *paging*: pages
that share a lowest table, only a
directory, or only the root; boots with an aligned and an unaligned direct map, a
conflict, a missing page and too little memory. *vmalloc*: memory runs out for
pages and for tables, the array of ranges fills up, and the kernel ends below,
inside and above the direct map.
*nvme*: with rings of three both threads have a command under way and the ring
wraps; transfers take one page, two and three; with rings of two they contend for one
entry and one PRP page; in the others
start-up fails, for memory, for a queue too small, or for one so large that its
size wraps. *ipi*: no list at all; two CPUs that may both panic; a list with a hole,
more CPUs than records, and an id that is truncated to the boot CPU's, on which
three CPUs run. *fs*: one disk with long names, directories and files of two
clusters, with a directory that fills the first cache exactly; one with two sectors
per cluster, mutilated long names, a chain cut by a bad cluster and a directory
without an end mark; chains that are cyclic, bad, or leave the volume; sector
counts with which the number of clusters, or the largest cluster, wraps; names whose
bytes fit, just fill and overrun an entry; a directory that never fits a cache; sectors
of twice the size; and disks that must be refused. *devices*: an ordinary machine; one
with an override to a second unit, short records and a boot CPU with another id than
0; a level-triggered line with tables larger than the arrays and a broken record;
bridges with a hole in the function numbers; and six the kernel gives up on.

The type invariants are part of `OnePlace`, `Tiling`, `TablesFormTree` and
`FreeRangesExact` in the runs of `Sched`, `Kmalloc`, `Paging` and `Vmalloc`, and are proved
with all of these but the last. Those of `Pmm`, `Spinlock`, `Smp` and `Ipi` are theorems of
their own or conjuncts of the inductive invariants, those of `Nvme` and of the keyboard's
handler the first conjunct of theirs.

Deadlock is checked in `spinlock`, `kmalloc`, `nvme` and `fs`. In the other runs the
system may stop: a panic, a lock that stays taken, or CPUs that have lost their stacks.

**Fairness.** `Spinlock`: a CPU goes on executing a routine it is in and leaves its
critical sections, which are finite, and a handler returns. No fairness makes a
thread ask for a lock, and none favours one spinning CPU: the locks are not fair,
and `Progress` only says that some lock is acquired again and again while any
context waits. `Sched`: the periodic timer keeps firing where it was started, and
handlers run to their end. `EventuallyRuns` leaves out threads last preempted by
a RESCHED IPI: the second test of `isr_handler` looks at the frame about to be
resumed, so a tick that picks such a thread switches it out again at once, and
it can be passed over for ever. It also leaves out what follows a first switch in which
the CPU loses its stack.
`Ipi`: CPUs go on with their start-up and their broadcasts, and a pending interrupt is
taken once the flag is on again and again (strong fairness: the flag goes off in
every critical section). The boot CPU's start-up is strongly fair for the same reason:
handlers interrupt it. The paging lock favours nobody, so `PanicHalts` excepts a CPU that
is locked out of it (`LockedOut`). `Nvme`: threads run on, and the controller fetches what is
announced and completes every command it holds; it is strongly fair since its ring
may be full at times. No fairness is put on the interrupt: the waiters poll. `Vfs`: the
caller runs on. `Keyboard`: the boot CPU, the level-triggered line, handlers and threads
go on, and a CPU that may take an interrupt again and again does so in the end. The
lock is not fair: another CPU may register and unregister for ever, and `KeysHandled`
excepts the runs in which a CPU waits for ever although the lock is free again and again
(`Starved`).

## Disagreements found

* `safe_printk` (`include/printk.c:349`) returns with `printlock` held and
  interrupts off when printing is disabled (run `console_early_return`).
* `paging_protect_page` (`mm/paging.c:798`) accepts GLOBAL together with USER, which
  the comment at `mm/paging.c:622` excludes (run `paging_protect`).

Four more were met on the way. The models do what the code does, and the properties
say what holds nevertheless:

* `sched_spawn` (`kernel/sched.c:187`) puts a frame that ends with `rflags` at the very top of
  the stack. `idt.S:74` has `[rsp]  <- if privilege change occurred`, but `iretq` in long mode
  pops `rsp` and `ss` always, so the first switch to the thread loads what lies behind the
  stack. In `Sched` it goes either way.
* `paging_protect_page` (`mm/paging.c:802`) walks with `user = false` and sets `PAGE_USER` in
  the PTE alone, where the comment at line 137 asks for it on every intermediate level.
  `UserMapsReachable` is about the pages mapped for the user.
* `g_cpu_count` is "total (BSP + all APs that came online)" (`percpu.h:43`); `smp_init`
  (`cpu/smp.c:134`) sets it to the number of CPUs released, whether or not they came.
* `utf16le_to_utf8` says that "`dst` must have room for at least src_len*3 + 1 bytes"
  (`fs/fat32.c:199`); its callers (lines 337 and 593) give it the name of a directory entry,
  which is shorter than that.

## The proofs

`PmmProofs`, for all page sizes, word widths, memory maps and sets of clients that
satisfy `PageAssumption` and `MapsAssumption` (addresses are numbers; no usable
entry shares a whole page with a reclaimable one, which the boot protocol
guarantees):

* The inductive invariant is `IInv == TypeOK /\ Accounting /\ HintSound /\ OneOwner
  /\ ReclaimSafe /\ BootState`. None is inductive alone: `Accounting` needs that bits
  are those of pages that exist, `OneOwner` that what a client holds is marked used,
  `ReclaimSafe` that `pmm_init` has freed usable entries only; `BootState` records
  what holds while `pmm_init` runs (nobody holds a page, the hint is 0).
* `FreeCount` and `UseCount` give the counting: what `mark_page_free` and
  `mark_page_used` count one by one is the change of cardinality. `LowestFree` says
  that with `HintSound` the circular search ends at the lowest free page.
* From it: `TypeCorrect`, `CountersExact`, `HintCorrect`, `SingleOwner`,
  `ReclaimIsSafe`, and `ImplementsPageAllocator` (each step is a step of
  `PageAllocator` or a stutter).
* `PoolIsRam` (`OnlyRam`) has an invariant of its own, `RamInv`, relative to `IInv`: in
  terms of pages instead of bytes, and already while `pmm_init` frees entry by
  entry. It also records that nothing wraps from `PmmInitSetup` on and that the
  bitmap lies in one usable entry, which its reservation needs. It uses that the
  kernel image does not end in the last page of the address space, and that
  reclaimable entries lie behind page 0 and outside the kernel image:
  `ReclaimBootloader` frees them without looking at either.

`SpinlockProofs`, for any number of CPUs and any subset of the locks:

* `IInv` joins `TypeOK` and `MutualExclusion` with three facts: `CtxInv` (what a context
  in a routine is after, and that the flags of what it holds are live), `ThreadInv`
  (a thread that holds or waits for a lock has interrupts off; only its outermost
  lock saved an enabled flag) and `HandlerInv` (a handler runs with the flag off and
  saves nothing else). The middle one is the heart: an inner
  `spin_unlock_irqrestore` must not enable interrupts while an outer lock is held.
* From it: `TypeCorrect`, `LocksExclude`, `HeldMeansMasked`, `InterruptsRestored`.

`IpiProofs`, for any number of CPUs, lists of them, APIC ids, pages and panics, under
`SmpAssumption` (the boot CPU's id fits the register), `MachinesAssumption` (ids are
numbers and the boot loader reports a CPU once) and `IpiAssumption` (NULL is no
broadcast):

* `SmpInv` is the invariant of start-up: `BootInv` (what the boot CPU has published at
  each stage), `ReleaseInv` (released are only CPUs of the list before the present
  entry, and a record is complete before its CPU is released), `RecordInv` (slots in
  use and released CPUs correspond one to one, and each record says of its APIC what
  is true) and `ApInv` (what the other CPUs have done at each stage; none runs before
  the scheduler is ready, when `g_cpu_count` has its final value). `CpuSelfOwn` alone
  is not inductive: that `cpu_self` finds one slot and no other needs `RecordInv`, and
  that it looks far enough needs the order in `ApInv`.
* `IInv` adds `UseInv` (only CPUs that are up broadcast, or cache translations of the
  kernel's tables, and by then the handlers are in place), `LockInv` (a CPU that
  broadcasts a shootdown has the paging lock) and `CoverInv`, `StaleCovered` with the sender
  being *another* CPU. The argument: under the paging lock there is no other TLB
  broadcast, so what was stale before is pending already; what a change makes stale is
  on other CPUs; with two CPUs up `g_cpu_count` exceeds one, so the broadcast takes
  place; and the record at which it arrives is online and has the id of the CPU.
* One lemma per kind of step (`ReleasedStep` and `BootStep` for those that write only
  the record and APIC of their CPU), then `Invariance`, `CpuSelfRight` and
  `ShootdownCovers`.

`SchedProofs`, for any set of CPUs and of task structures:

* `IInv` says where threads are before and after `sched_init` (`Cold`, `Places`), what each
  CPU executes on in and outside its handler (`Context`), and what each `sched_spawn`
  call owns (`CallSound`, `CallsApart`, and the count of stacks as the number of tasks
  that have one). `OnePlace` alone is not inductive: that `runq_push` adds a thread that
  is in no queue needs that calls own their tasks; that `sched_on_tick` drops nobody
  needs that a queued thread has a frame and is not current. `Context` allows for a CPU
  that has left the stacks in the first switch to a new thread, and for no other way
  off them.
* `PushQueue` and `RotateQueue` are what the run queue's operations do to a sequence
  without repetitions; `TickShape` and `SwitchPlaces` reduce a tick to them.
* From it: `EveryThreadOnce`, `OwnStack`, `PushedAtHome`, `NoLeak`, and the action property
  `NoMigration`, which is why `sched_spawn` may use a CPU it read before it was
  preempted.

`KmallocProofs`, for any alignment, header, pool size and set of pools that satisfy
`KmallocAssumption` (sizes and pools are aligned, as `vmalloc` gives whole pages; pools
do not overlap; NULL is no address in a pool):

* The invariant is a predicate on a heap, `Sound`: `Tiled`, `Listed` and `Marked`, with `Lent`
  for what callers hold. `Tiled` is stronger than `Tiling` in one point that
  induction needs: `next_phys` is NULL exactly at the end of the block's own pool, so
  that two pools that happen to be adjacent are never merged. Each block also keeps its
  magic in step with its free flag, and a stale pointer never leads to a `USED` magic.
* One lemma per helper says what it computes (`InsertIs`, `RemoveIs`, `SplitIs`, `MergeIs`,
  ...), one that it keeps a sound heap sound (`ExpandSound`, `SplitSound`, `TakeSound`,
  `FreeSound`, `MergeSound`); the actions are put together from them.
* From it: `PoolsTiled`, `FreeListIsExact`, `DoubleFreeCaught`, and `ImplementsAllocator`. The
  regions of the abstract allocator (`Regions`) are those of the callers whose size does not
  wrap when it is rounded up; blocks without payload, which the others get, are part of
  the heap that is shown sound.

`KeyboardProofs`, for any CPUs, listeners, scan codes and machines, under
`KeyboardAssumption` (codes are bytes, priorities and GSIs numbers):

* `IInv` joins the types with `LockHeld` (who has `g_kbd_lock`), `OneDue` (at most one
  interrupt is due, and its byte is still in the buffer), the order of the list,
  `PrefixKept` (`g_e0_prefix` is what the keyboard sent before the byte that is to be read,
  whichever CPU read that), and `Calls`: the listeners called so far are a
  prefix of the list, and the next is the handler's. That the list cannot change in
  between is what the lock is for. The start-up steps leave all this alone, whatever
  they find, so the theorems need no assumption on the firmware's tables.
* From it: `KeysReachListeners` (`EventsRight`) and `UnregisterTakesOut`.
* `RouteInv` is the invariant of the I/O APICs, from the first unit masked to the last
  driver's call; `CallInv` is what a call of `x86_ioapic_mask_gsi` that is under way has read,
  which no one changes before it writes since calls do not overlap. `LineIsRouted` is
  `RouteExact` for every state in which `Wired` holds:
  the units the MADT lists are there and share neither addresses nor GSIs, and the
  override of IRQ 1, or the lack of one, tells the truth about the line. The other
  machines of the run are those on which the kernel panics first.
* `PciIsExact` is the conjunct `PciExact` of `InventoryExact`, under `PciAssumption`: the
  firmware has numbered the buses, so every bridge leads to a bus of its own with a
  higher number than its own bus. `ScanInv` is the invariant of the recursion: the
  frames of the scan are at bridges that lead from bus to bus, the functions seen on
  the bus of a frame are those before it, and everything behind a bridge in the list
  has been seen. When bus 0 is done, the buses seen are closed under bridges and none
  of them can be left out, so they are the smallest closed set.

`NvmeProofs`, for any number of threads, sectors, queue depths, register values and page
pools that satisfy `NvmeAssumption`:

* `Started`, `Admin` and `Pages` follow `nvme_init`: how deep the rings are, the one admin
  command that is on its way or answered, and where every page is. `Rings` is about
  the I/O rings: the driver's copy of the submission head is never ahead of the
  controller's, and the phase of each completion entry says whether the writer has
  passed it. `Flight`, `Owners` and `Answers` follow a command: announced, held by the
  controller, posted, or recorded as done, in exactly one of these places, under an
  identifier only its thread has. Distances on a ring (`Span`) replace all case
  distinctions on wrapping; that entries behind the head have the old phase
  (`Pattern`) is what lets a poll tell new completions from old ones.
* `PollAnswers` is the heart: `nvme_poll_completions` consumes entries in a batch and gives
  each waiting thread the outcome of its own command, although identifiers are reused
  as soon as they are released.
* From it: `RingsAreSound` and `ImplementsBlockDevice`, whose mapping shows a caller's
  outcome from the moment the controller performs the command. Of a transfer of two
  pages the abstract device leaves open what it moves; that it is performed once, and in
  the buffer and sector asked for, is proved of it too.

`PagingProofs`, for tables of any `FANOUT`, any boot situation, targets, flags and lengths of
ranges that satisfy `PagingAssumption` (pages and frames are in range; free frames are
behind frame 0 and within the direct map; the kernel image is outside the direct map;
callers leave alone the few pages the direct map has in small pages):

* `Tree` gives every table a *place*, its level and the digits of the page numbers that
  lead to it; places differ, an entry leads to the place below it, and every table but
  the root is led to. That there is such a placing is the inductive form of
  `TablesFormTree`: with it a walk for one page meets the tables of another only where
  their numbers agree (`Digits`), so setting an entry changes the pages below that
  entry and no other. `Booked` keeps tables and free frames apart and counts them,
  `Bare` is empty outside a panic, and `Progress` says which pages `paging_init` has
  mapped so far, and that it has mapped nothing else; the rest of `BootMapKept` follows
  from it.
* Each operator of `PageTables` has a lemma on what it does to the tree and to every page
  (`Keeps`, `Puts`, `Recasts`): a table made on the way is filled before the call ends,
  and a retrofitted entry only adds USER. The loops over ranges are
  recursive functions; what `n` rounds do follows from the least round at which it
  would fail (`Smallest`), not from an induction theorem.
* From it: `TablesAreATree`, `BootMapIsKept`, `UserMapsAreReachable`, and
  `ImplementsAddressSpace`, where the map is empty until the switch.

Only model-checked:

* All liveness (`Progress`, `EventuallyRuns`, `EveryCallReturns`, `PanicHalts`, `ApsJoin`,
  `CallsEnd`, `KeysHandled`): liveness under fairness is outside the prover's reach.
* The MADT's part of `InventoryExact` in `Keyboard`: what the walk collects is a recursive
  function of the table that is compared with `SelectSeq`, of which the prover knows
  nothing. (Its other part, `PciExact`, is proved.)
* `Vmalloc` and `Vfs`. The merging of ranges in `Vmalloc` and the walks over chains and
  directories in `Fat32` are folds over sequences and recursive operators; what they
  compute for every input needs induction over data, and a module with recursive
  operators loses the SMT backend. The refinement of `Vmalloc` goes through these steps
  and stays with TLC as well.

## What is abstracted

Bytes of payloads, text output, statistics that nothing reads (`ticks`,
`mapped_*_pages`), register programming. Page faults and exceptions print and
panic. `interrupt_frame` contents are the vector only. Weak memory: x86 is
strongly ordered and the locks use locked instructions; an instruction is a step.

## What the properties leave out

Where the code does not give a guarantee, the properties do not claim one:

* A shootdown does not wait for its receivers: `StaleCovered` says that the
  invalidation is on its way, not that a frame is reused only after it.
* `AnswersRight` leaves out paths with doubled slashes in front of a mount point
  (`Plain`): the mount is found by comparing characters, so `//d` misses a volume
  mounted at `/d`. `..` of a directory in the root leads to cluster 0:
  `fat32_lookup_path` answers with an I/O error when more of the path follows, and only
  `fat32_read_dir_path` takes it for the root. An I/O error during a lookup
  comes back as "not found", and a failed allocation in `fat32_read_dir` as an I/O
  error; so a wrong answer is excused only by a failure in that very call.
* `fat32_mount` accepts sectors of more than 512 bytes, although the disk is read in units
  of 512. Reads of the FAT then answer BAD, and a read of a cluster fills 512 bytes of
  each sector, so that a scan goes on over memory nothing has written. `AnswersRight`
  leaves these volumes out, and names that overrun the memory of their caller.
* `PanicHalts` excepts CPUs that spin, interrupts off, for a paging lock that does not
  come. `ApsJoin` excepts a CPU that faults on its stack because the boot loader's
  tables, on which it starts, do not map it.
* `Refinement` in `Kmalloc` is about sizes that do not wrap when rounded up. In `Nvme` it says
  of a transfer of two pages no more than who gets which outcome and whose buffer is
  touched. Buffers are taken to lie in the direct map: of others `pmm_virt_to_phys` gives
  an address that is none.
* `RouteExact` takes calls of `x86_ioapic_mask_gsi` not to overlap.
* `CallsEnd` leaves out cyclic chains, which the code follows for ever.
* `KeysHandled` speaks of bytes that arrive once the line is routed: an earlier byte
  stays in the controller, and on an edge-triggered line blocks it. So does one whose
  interrupt comes between the two writes of the route and goes to the wrong CPU. Runs in
  which the lock starves a CPU are excepted.
* `EventuallyRuns` leaves out threads last preempted by RESCHED, and CPUs that have lost
  their stack (see Fairness).

## Not modelled

* Filling of descriptor tables (`gdt.c`, `idt.c`), CPU identification (`vendor.h`) and the
  copies `boot.c` makes of the boot loader's answers: constants written once, in
  straight lines; the answers are inputs of `Pmm`, `Paging`, `Smp` and `Firmware`.
* Formatting and drawing (`printk.c`, `font.h`): output nothing reads back.
* Register values of the local APIC and the arithmetic of its calibration; port I/O
  of PCI configuration space; searches of the PCI list.
* Functions no code calls: single-target IPIs, `virtio_blk_write`, VFS nodes without
  operations.
* The processor's cache of upper page tables, through which a table page that
  `free_empty_tables` has given back might still be walked.
* The bits of an encoded name: a character is a value that takes one, two or three bytes.
* The GPT entry table is one sector instead of 32, with a header that agrees with it.
* Placeholders (`syscall.c`, `exec.c`, `proc.c`, `fb.c`, `tty.c`, `elf64.c`, `hal.c`), and Limine,
  which is third-party.
