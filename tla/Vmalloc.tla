------------------------------- MODULE Vmalloc -------------------------------
(***************************************************************************)
(* mm/vmalloc.c on top of the page tables and the physical allocator: an   *)
(* area of virtual pages, a sorted list of its free ranges, and vmalloc    *)
(* and vfree, which map and unmap a range page by page.                    *)
(*                                                                         *)
(* Both hold g_vmalloc_lock from end to end, so one call is under way at a *)
(* time.  The locks of paging and of the physical allocator are taken for  *)
(* each page, and other users of the physical allocator run in between.    *)
(***************************************************************************)
EXTENDS PageTables, SequencesExt

CONSTANTS
  VMALLOC_DEFAULT_SIZE,   \* in pages, as all sizes here
  VMALLOC_MAX_RANGES,     \* capacity of g_vmalloc_free
  Hhdm,                   \* the pages of the direct map, an interval
  KernelEnds,             \* the first page after the kernel image may be these
  Frames,                 \* frames the physical allocator has at the start
  Sizes,                  \* sizes callers ask for
  FlagSets,               \* flags callers pass
  MaxTaken,               \* bound on the frames other users hold
  NULL

ASSUME VmallocAssumption ==
  /\ VMALLOC_DEFAULT_SIZE \in Nat \ {0} /\ VMALLOC_MAX_RANGES \in Nat \ {0}
  /\ Sizes \subseteq Nat \ {0} /\ MaxTaken \in Nat
  /\ Frames \subseteq Nat \ {0}
  /\ Hhdm # {} /\ Hhdm = Min(Hhdm) .. Max(Hhdm)

VARIABLES
  kernel_end,             \* align_up(__kernel_virtual_end)
  pg,                     \* the page tables and the physical allocator
  g_vmalloc_free,         \* sequence of [start, size]
  g_vmalloc_initialized,
  call,                   \* the call under way, or NULL
  live,                   \* what callers hold: a function from start to size
  taken                   \* frames other users of the allocator hold

vars == <<kernel_end, pg, g_vmalloc_free, g_vmalloc_initialized, call, live, taken>>

-----------------------------------------------------------------------------
(* The area.                                                               *)

\* Mutant: a kernel image inside the direct map is not stepped over.
BaseInside == kernel_end

Base == IF kernel_end \in Hhdm THEN Max(Hhdm) + 1 ELSE kernel_end

AreaSize ==
  IF Base < Min(Hhdm) /\ Base + VMALLOC_DEFAULT_SIZE > Min(Hhdm)
    THEN Min(Hhdm) - Base
    ELSE VMALLOC_DEFAULT_SIZE

Area == Base .. Base + AreaSize - 1

\* The tables after paging_init: here, those of the last page of the kernel.
Booted ==
  LET s == AllocTablePage([root |-> 0, tab |-> [f \in {} |-> EmptyTable], free |-> Frames,
                           tables |-> 0, nx |-> FALSE, panic |-> FALSE])
  IN Map4k([s EXCEPT !.root = Min(Frames)], kernel_end - 1, 0, {"WRITABLE", "GLOBAL"})

Init ==
  /\ kernel_end \in KernelEnds
  /\ pg \in {Booted}
  /\ g_vmalloc_free = <<>>
  /\ g_vmalloc_initialized = FALSE
  /\ call = NULL
  /\ live = [p \in {} |-> 0]
  /\ taken = {}

-----------------------------------------------------------------------------
(* The list of free ranges.                                                *)

RangeEnd(r) == r.start + r.size

\* The list after vmalloc_init_once_locked.
FreeRanges ==
  IF g_vmalloc_initialized THEN g_vmalloc_free ELSE <<[start |-> Base, size |-> AreaSize]>>

\* Mutant: ranges that touch are not joined.
JoinOverlapping(list, r) ==
  IF list # <<>> /\ RangeEnd(Last(list)) > r.start
    THEN [list EXCEPT ![Len(list)].size =
                        Max({RangeEnd(Last(list)), RangeEnd(r)}) - Last(list).start]
    ELSE Append(list, r)

\* One round of the merging loop: r joins the last range before it, if they
\* touch.
Join(list, r) ==
  IF list # <<>> /\ RangeEnd(Last(list)) >= r.start
    THEN [list EXCEPT ![Len(list)].size =
                        Max({RangeEnd(Last(list)), RangeEnd(r)}) - Last(list).start]
    ELSE Append(list, r)

\* vmalloc_free_range, for a list with room.
FreeRange(list, r) ==
  LET at == Cardinality({i \in DOMAIN list : list[i].start < r.start}) + 1
  IN FoldLeft(Join, <<>>, InsertAt(list, at, r))

\* n pages from the front of range i.
Carve(list, i, n) ==
  IF list[i].size = n THEN RemoveAt(list, i)
                      ELSE [list EXCEPT ![i].start = @ + n, ![i].size = @ - n]

-----------------------------------------------------------------------------
\* vmalloc_init.
VmallocInit ==
  /\ call = NULL /\ ~pg.panic
  /\ g_vmalloc_free' = FreeRanges
  /\ g_vmalloc_initialized' = TRUE
  /\ UNCHANGED <<kernel_end, pg, call, live, taken>>

\* vmalloc up to the mapping loop: the first range that is large enough, or
\* NULL.
VmallocCall(n, flags) ==
  /\ call = NULL /\ ~pg.panic
  /\ LET i == SelectInSeq(FreeRanges, LAMBDA r : r.size >= n)
     IN IF i = 0
          THEN g_vmalloc_free' = FreeRanges /\ UNCHANGED call
          ELSE /\ g_vmalloc_free' = Carve(FreeRanges, i, n)
               /\ call' = [kind |-> "map", start |-> FreeRanges[i].start, size |-> n,
                           flags |-> flags, done |-> 0, upto |-> n, frame |-> NULL]
  /\ g_vmalloc_initialized' = TRUE
  /\ UNCHANGED <<kernel_end, pg, live, taken>>

Under(kind) == call # NULL /\ ~pg.panic /\ call.kind = kind

\* Mutant: the last page that was mapped stays mapped.
RollbackShort(c) ==
  [c EXCEPT !.kind = "unmap", !.done = 0, !.upto = IF c.done = 0 THEN 0 ELSE c.done - 1]

\* The mapping loop breaks: the pages it has mapped are to be unmapped.
Rollback(c) == [c EXCEPT !.kind = "unmap", !.done = 0, !.upto = c.done]

\* The loop of vmalloc: a frame for the next page.
VmallocAllocPage ==
  /\ Under("map") /\ call.frame = NULL /\ call.done < call.upto
  /\ IF pg.free = {}
       THEN call' = Rollback(call) /\ UNCHANGED pg
       ELSE /\ call' = [call EXCEPT !.frame = Min(pg.free)]
            /\ pg' = [pg EXCEPT !.free = @ \ {Min(@)}]
  /\ UNCHANGED <<kernel_end, g_vmalloc_free, g_vmalloc_initialized, live, taken>>

\* ... and its mapping, which keeps the frame for FreeFrame when it fails.
VmallocMapPage ==
  /\ Under("map") /\ call.frame # NULL
  /\ LET r == MapPageLocked(pg, call.start + call.done, call.frame, call.flags)
     IN /\ pg' = r.s
        /\ call' = IF r.s.panic THEN call
                   ELSE IF r.ok THEN [call EXCEPT !.frame = NULL, !.done = @ + 1]
                   ELSE Rollback(call)
  /\ UNCHANGED <<kernel_end, g_vmalloc_free, g_vmalloc_initialized, live, taken>>

\* All pages are mapped: vmalloc returns the address.
VmallocReturn ==
  /\ Under("map") /\ call.frame = NULL /\ call.done = call.upto
  /\ live' = [p \in DOMAIN live \cup {call.start} |->
                IF p = call.start THEN call.size ELSE live[p]]
  /\ call' = NULL
  /\ UNCHANGED <<kernel_end, pg, g_vmalloc_free, g_vmalloc_initialized, taken>>

\* The bounds vfree checks.
Accepts(start, n) ==
  /\ start >= Base /\ start < Base + AreaSize
  /\ start <= Base + AreaSize - n

\* vfree up to the unmapping loop, by the caller that holds the range.
VfreeCall(p) ==
  /\ call = NULL /\ ~pg.panic /\ g_vmalloc_initialized
  /\ live' = [q \in DOMAIN live \ {p} |-> live[q]]
  /\ call' = IF ~Accepts(p, live[p]) THEN NULL
             ELSE [kind |-> "unmap", start |-> p, size |-> live[p], flags |-> {},
                   done |-> 0, upto |-> live[p], frame |-> NULL]
  /\ UNCHANGED <<kernel_end, pg, g_vmalloc_free, g_vmalloc_initialized, taken>>

\* The unmapping loops of vfree and of a vmalloc that failed.
UnmapNext ==
  /\ Under("unmap") /\ call.frame = NULL /\ call.done < call.upto
  /\ LET v == call.start + call.done
         r == UnmapPageLocked(pg, v)
     IN /\ pg' = r.s
        /\ call' = [call EXCEPT !.done = @ + 1,
                                !.frame = IF r.ok THEN Translate(pg, v).to ELSE NULL]
  /\ UNCHANGED <<kernel_end, g_vmalloc_free, g_vmalloc_initialized, live, taken>>

\* pmm_free_page_phys for the page just unmapped, or not mapped after all.
FreeFrame ==
  /\ Under("unmap") /\ call.frame # NULL
  /\ pg' = [pg EXCEPT !.free = @ \cup {call.frame}]
  /\ call' = [call EXCEPT !.frame = NULL]
  /\ UNCHANGED <<kernel_end, g_vmalloc_free, g_vmalloc_initialized, live, taken>>

\* The range goes back to the list and the call returns.
ReturnRange ==
  /\ Under("unmap") /\ call.frame = NULL /\ call.done = call.upto
  /\ IF Len(g_vmalloc_free) >= VMALLOC_MAX_RANGES
       THEN pg' = [pg EXCEPT !.panic = TRUE] /\ UNCHANGED <<g_vmalloc_free, call>>
       ELSE /\ g_vmalloc_free' = FreeRange(g_vmalloc_free, [start |-> call.start, size |-> call.size])
            /\ call' = NULL
            /\ UNCHANGED pg
  /\ UNCHANGED <<kernel_end, g_vmalloc_initialized, live, taken>>

\* Other users of the physical allocator (drivers, the heap).
TakeFrame ==
  /\ ~pg.panic /\ pg.free # {} /\ Cardinality(taken) < MaxTaken
  /\ taken' = taken \cup {Min(pg.free)}
  /\ pg' = [pg EXCEPT !.free = @ \ {Min(@)}]
  /\ UNCHANGED <<kernel_end, g_vmalloc_free, g_vmalloc_initialized, call, live>>

GiveFrame(f) ==
  /\ ~pg.panic
  /\ taken' = taken \ {f}
  /\ pg' = [pg EXCEPT !.free = @ \cup {f}]
  /\ UNCHANGED <<kernel_end, g_vmalloc_free, g_vmalloc_initialized, call, live>>

Next ==
  \/ VmallocInit
  \/ \E n \in Sizes, f \in FlagSets : VmallocCall(n, f)
  \/ VmallocAllocPage
  \/ VmallocMapPage
  \/ VmallocReturn
  \/ \E p \in DOMAIN live : VfreeCall(p)
  \/ UnmapNext
  \/ FreeFrame
  \/ ReturnRange
  \/ TakeFrame
  \/ \E f \in taken : GiveFrame(f)

Spec == Init /\ [][Next]_vars

-----------------------------------------------------------------------------
(* Properties.                                                             *)

\* The list fits its array and holds ranges that are not empty.
TypeOK ==
  /\ kernel_end \in KernelEnds /\ g_vmalloc_initialized \in BOOLEAN
  /\ g_vmalloc_free \in Seq([start : VirtualPages, size : VirtualPages \ {0}])
  /\ Len(g_vmalloc_free) <= VMALLOC_MAX_RANGES
  /\ DOMAIN live \subseteq VirtualPages
  /\ taken \subseteq Frames
  /\ call # NULL => /\ call.kind \in {"map", "unmap"}
                    /\ call.done \in 0 .. call.upto /\ call.upto \in 0 .. call.size
                    /\ call.frame \in Frames \cup {NULL}

Run(p, n) == p .. p + n - 1
LivePages == UNION {Run(p, live[p]) : p \in DOMAIN live}

\* The state is well typed and, between calls and after failures, the list has exactly the pages nobody
\* holds, in order, and joined wherever they touch: vfree and a vmalloc that
\* rolls back lose no address space and give none out twice.
FreeRangesExact ==
  /\ TypeOK
  /\ g_vmalloc_initialized =>
    /\ UNION {Run(r.start, r.size) : r \in Range(g_vmalloc_free)}
         = Area \ (LivePages \cup IF call = NULL THEN {} ELSE Run(call.start, call.size))
    /\ \A i \in 1 .. Len(g_vmalloc_free) - 1 :
         RangeEnd(g_vmalloc_free[i]) < g_vmalloc_free[i + 1].start

\* The pages of the area that the callers and the call under way have mapped.
MappedPages ==
  LivePages \cup
    IF call = NULL THEN {}
    ELSE IF call.kind = "map" THEN Run(call.start, call.done)
    ELSE Run(call.start + call.done, call.upto - call.done)

\* Every frame has one owner: the allocator's free list, a page table, one
\* mapped page, the call under way, or another user.  A vmalloc that fails half
\* way, and one that loses the race for the last frames, gives everything back,
\* tables included.
FramesConserved ==
  LET data == {Translate(pg, v).to : v \in MappedPages}
      held == IF call = NULL \/ call.frame = NULL THEN {} ELSE {call.frame}
      owners == <<pg.free, DOMAIN pg.tab, data, held, taken>>
  IN /\ \A v \in Area : Mapped(pg, v) <=> v \in MappedPages
     /\ Cardinality(data) = Cardinality(MappedPages)
     /\ \A i, j \in 1 .. 5 : i # j => owners[i] \cap owners[j] = {}
     /\ UNION Range(owners) = Frames
     /\ MappedPages = {} /\ ~pg.panic => pg.tables = Booted.tables

Allocator ==
  INSTANCE RegionAllocator
    WITH Memory <- VirtualPages \ Hhdm, Align <- 1, regions <- live

\* vmalloc is an allocator of disjoint regions outside the direct map.
Refinement == Allocator!Spec

=============================================================================
