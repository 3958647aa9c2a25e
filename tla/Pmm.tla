-------------------------------- MODULE Pmm --------------------------------
(***************************************************************************)
(* The physical page manager, mm/pmm.c: a bitmap with one bit per physical *)
(* page, two counters and a search hint.                                   *)
(*                                                                         *)
(* Every entry point holds g_pmm_lock from its first read to its last      *)
(* write, so each is one atomic action (module Spinlock is about the       *)
(* lock).  pmm_init runs once, on one CPU with interrupts off; its loop    *)
(* over the memory map is one action per entry.                            *)
(***************************************************************************)
EXTENDS Integers, Sequences, FiniteSets

CONSTANTS
  PAGE,           \* PMM_PAGE_SIZE
  WORD,           \* number of values of a uint64_t; a multiple of PAGE
  MemoryMaps,     \* the memory maps the boot loader may pass
  KernelStart,    \* &__kernel_physical_start
  KernelEnd,      \* &__kernel_physical_end
  SkipStart,      \* reclaim_skip_start: physical window of the boot stack
  SkipEnd,        \* reclaim_skip_end
  Clients,        \* code that allocates and frees pages
  INVALID         \* PMM_INVALID_PHYS_ADDR

ASSUME PageAssumption ==
  /\ PAGE \in Nat \ {0}
  /\ WORD \in Nat \ {0}
  /\ KernelStart \in Nat /\ KernelEnd \in Nat /\ KernelEnd + PAGE <= WORD
  /\ SkipStart \in Nat /\ SkipEnd \in Nat
  /\ INVALID \notin Nat

VARIABLES
  memory_map,     \* sequence of [base, length, type]
  entry,          \* the i of the loop over the map in pmm_init
  pc,             \* "setup", "free", "ready" or "panic"
  g_bitmap,       \* the pages whose bit is 1, i.e. in use
  total_pages, free_pages, used_pages, bitmap_phys_base,   \* g_pmm_info
  g_next_search,
  reclaimed,      \* reclaim_bootloader_reclaimable has run
  held,           \* held[c]: pages client c was given and has not freed
  ret             \* *out_phys_addr of the last pmm_try_alloc_page_phys

pmm_info == <<total_pages, free_pages, used_pages, bitmap_phys_base>>
vars == <<memory_map, entry, pc, g_bitmap, pmm_info, g_next_search,
          reclaimed, held, ret>>

-----------------------------------------------------------------------------
(* Address arithmetic on unsigned words.                                   *)

AlignUp(v)   == (((v + PAGE - 1) % WORD) \div PAGE) * PAGE
AlignDown(v) == (v \div PAGE) * PAGE

\* End of an entry; an end that wraps saturates at UINT64_MAX.
EntryEnd(e) ==
  LET end == (e.base + e.length) % WORD
  IN  IF end < e.base THEN WORD - 1 ELSE end

\* h is what max_physical_end returns.
Ends(map) == {0} \cup {EntryEnd(map[i]) : i \in DOMAIN map}
MaxPhysicalEnd(map, h) == h \in Ends(map) /\ \A end \in Ends(map) : end <= h

\* Pages up to a highest address, and the bytes of a bitmap for them.
PageCount(h)       == AlignUp(h) \div PAGE
BitmapBytes(total) == (total + 7) \div 8

\* find_bitmap_region: entry i has room for the bitmap, the ones before do not.
HasRoom(e, total) ==
  /\ e.type = "USABLE"
  /\ AlignDown(EntryEnd(e)) - AlignUp(e.base) >= AlignUp(BitmapBytes(total))

FindBitmapRegion(map, total, i) ==
  /\ HasRoom(map[i], total)
  /\ \A j \in 1 .. i - 1 : ~HasRoom(map[j], total)

\* The pages wholly inside [start, end) are CeilPage(start) .. FloorPage(end) - 1.
CeilPage(v)  == AlignUp(v) \div PAGE
FloorPage(v) == AlignDown(v) \div PAGE

Pages == 0 .. total_pages - 1

\* Mutant: mark_range_free rounds outwards.
FullPagesOutward(start, end) ==
  {p \in Pages : start < end /\ FloorPage(start) <= p /\ p < CeilPage(end)}

\* The pages mark_range_free frees.
FullPages(start, end) ==
  {p \in Pages : start < end /\ CeilPage(start) <= p /\ p < FloorPage(end)}

\* Mutant: mark_range_used does not clamp to total_pages.
TouchedPagesUnclamped(start, end) ==
  {p \in 0 .. CeilPage(end) : start < end /\ FloorPage(start) <= p /\ p < CeilPage(end)}

\* The pages mark_range_used reserves.
TouchedPages(start, end) ==
  {p \in Pages : start < end /\ FloorPage(start) <= p /\ p < CeilPage(end)}

\* What the boot protocol guarantees of a map: its entries hold addresses, no
\* usable entry shares whole pages with a reclaimable one, and what is
\* reclaimable is neither address 0 nor part of the kernel image.
MemoryMapEntry == [base : 0 .. WORD - 1, length : 0 .. WORD - 1,
                   type : {"USABLE", "RECLAIMABLE", "RESERVED"}]

ASSUME MapsAssumption ==
  \A map \in MemoryMaps :
    /\ map \in Seq(MemoryMapEntry)
    /\ \A i, j \in DOMAIN map :
         map[i].type = "USABLE" /\ map[j].type = "RECLAIMABLE" =>
           \/ FloorPage(EntryEnd(map[i])) <= CeilPage(map[j].base)
           \/ FloorPage(EntryEnd(map[j])) <= CeilPage(map[i].base)
    /\ \A i \in DOMAIN map :
         map[i].type = "RECLAIMABLE" =>
           /\ map[i].base > 0
           /\ \/ map[i].base + map[i].length <= KernelStart
              \/ KernelEnd <= map[i].base

\* mark_page_free on every page of S: only bits that change are counted.
MarkFree(S) ==
  /\ g_bitmap' = g_bitmap \ S
  /\ free_pages' = free_pages + Cardinality(S \cap g_bitmap)
  /\ used_pages' = used_pages - Cardinality(S \cap g_bitmap)

\* Mutant: mark_page_used counts pages that were in use already.
MarkUsedRecounts(S) ==
  /\ g_bitmap' = g_bitmap \cup S
  /\ free_pages' = free_pages - Cardinality(S)
  /\ used_pages' = used_pages + Cardinality(S)

\* mark_page_used on every page of S.
MarkUsed(S) ==
  /\ g_bitmap' = g_bitmap \cup S
  /\ free_pages' = free_pages - Cardinality(S \ g_bitmap)
  /\ used_pages' = used_pages + Cardinality(S \ g_bitmap)

-----------------------------------------------------------------------------
Init ==
  /\ memory_map \in MemoryMaps
  /\ entry = 1
  /\ pc = "setup"
  /\ g_bitmap = {}
  /\ total_pages = 0 /\ free_pages = 0 /\ used_pages = 0
  /\ bitmap_phys_base = 0
  /\ g_next_search = 0
  /\ reclaimed = FALSE
  /\ held = [c \in Clients |-> {}]
  /\ ret = INVALID

g_initialized == pc = "ready"

\* pmm_init refuses the map: empty, no pages, or no room for the bitmap.
PmmInitPanic ==
  /\ pc = "setup"
  /\ \E h \in Ends(memory_map) :
       /\ MaxPhysicalEnd(memory_map, h)
       /\ \/ memory_map = <<>>
          \/ PageCount(h) = 0
          \/ \A i \in DOMAIN memory_map : ~HasRoom(memory_map[i], PageCount(h))
  /\ pc' = "panic"
  /\ UNCHANGED <<memory_map, entry, g_bitmap, pmm_info, g_next_search,
                 reclaimed, held, ret>>

\* pmm_init up to the loop over the map: every bit is set.
PmmInitSetup ==
  /\ pc = "setup"
  /\ \E h \in Ends(memory_map), i \in DOMAIN memory_map :
       /\ MaxPhysicalEnd(memory_map, h)
       /\ PageCount(h) # 0
       /\ FindBitmapRegion(memory_map, PageCount(h), i)
       /\ bitmap_phys_base' = AlignUp(memory_map[i].base)
       /\ total_pages' = PageCount(h)
       /\ used_pages' = PageCount(h)
       /\ g_bitmap' = 0 .. PageCount(h) - 1
  /\ free_pages' = 0
  /\ g_next_search' = 0
  /\ pc' = "free"
  /\ UNCHANGED <<memory_map, entry, reclaimed, held, ret>>

\* Mutant: pmm_init frees boot-loader memory too.
FreedAtInitAll(e) == IF e.type = "RESERVED" THEN {} ELSE FullPages(e.base, EntryEnd(e))

\* The pages pmm_init frees for an entry.
FreedAtInit(e) == IF e.type = "USABLE" THEN FullPages(e.base, EntryEnd(e)) ELSE {}

\* One iteration of the loop that frees the usable entries.
PmmInitEntry ==
  /\ pc = "free"
  /\ entry <= Len(memory_map)
  /\ MarkFree(FreedAtInit(memory_map[entry]))
  /\ entry' = entry + 1
  /\ UNCHANGED <<memory_map, pc, total_pages, bitmap_phys_base, g_next_search,
                 reclaimed, held, ret>>

\* The pages pmm_init takes back: the bitmap, the kernel image and page 0.
InitReserved ==
  TouchedPages(bitmap_phys_base,
               bitmap_phys_base + AlignUp(BitmapBytes(total_pages)))
    \cup TouchedPages(KernelStart, KernelEnd)
    \cup {0}

\* The rest of pmm_init.  Its accounting check panics on a mismatch.
PmmInitReserve ==
  /\ pc = "free"
  /\ entry > Len(memory_map)
  /\ MarkUsed(InitReserved)
  /\ g_next_search' = IF total_pages > 1 THEN 1 ELSE 0
  /\ pc' = IF free_pages' + used_pages' = total_pages THEN "ready" ELSE "panic"
  /\ UNCHANGED <<memory_map, entry, total_pages, bitmap_phys_base, reclaimed,
                 held, ret>>

-----------------------------------------------------------------------------
(* pmm_try_alloc_page_phys.                                                *)

\* Mutant: the search starts one page late.
SearchStartLate == IF g_next_search + 1 >= total_pages THEN 0 ELSE g_next_search + 1

SearchStart == IF g_next_search >= total_pages THEN 0 ELSE g_next_search

\* The page looked at in iteration "scanned" of the circular search.
ScanPage(scanned) ==
  LET page == SearchStart + scanned
  IN  IF page >= total_pages THEN page - total_pages ELSE page

\* Mutant: the page at the hint is taken without testing its bit.
FirstClearUntested(s) == s = 0

\* Iteration s is the first one that meets a clear bit.
FirstClear(s) ==
  /\ ScanPage(s) \notin g_bitmap
  /\ \A t \in 0 .. s - 1 : ScanPage(t) \in g_bitmap

\* g_next_search after handing out a page.
HintAfterAlloc(page) == IF page + 1 >= total_pages THEN 0 ELSE page + 1

\* The call returns false: too early, no page counted free, or no clear bit.
PmmAllocFails ==
  /\ pc \in {"setup", "ready"}
  /\ \/ ~g_initialized
     \/ free_pages = 0
     \/ Pages \subseteq g_bitmap
  /\ ret' = INVALID
  /\ UNCHANGED <<memory_map, entry, pc, g_bitmap, pmm_info, g_next_search,
                 reclaimed, held>>

PmmAllocPage(c) ==
  /\ g_initialized
  /\ free_pages # 0
  /\ \E s \in 0 .. total_pages - 1 :
       LET page == ScanPage(s) IN
       /\ FirstClear(s)
       /\ MarkUsed({page})
       /\ g_next_search' = HintAfterAlloc(page)
       /\ ret' = page * PAGE
       /\ held' = [held EXCEPT ![c] = @ \cup {page}]
  /\ UNCHANGED <<memory_map, entry, pc, total_pages, bitmap_phys_base, reclaimed>>

-----------------------------------------------------------------------------
(* pmm_free_page_phys.                                                     *)

\* Mutant: freeing a page leaves the hint alone.
HintAfterFreeKept(page) == g_next_search

\* g_next_search after freeing a page.
HintAfterFree(page) == IF page < g_next_search THEN page ELSE g_next_search

\* The early returns: too early, unaligned, out of range, or already free.
PmmFreeIgnored(phys) ==
  /\ pc \in {"setup", "ready"}
  /\ \/ ~g_initialized
     \/ phys % PAGE # 0
     \/ phys \div PAGE \notin Pages
     \/ phys \div PAGE \notin g_bitmap
  /\ UNCHANGED vars

\* The page is freed.  A client frees only what it holds.
PmmFreePage(c, phys) ==
  LET page == phys \div PAGE IN
  /\ g_initialized
  /\ phys % PAGE = 0
  /\ page \in Pages
  /\ page \in held[c]
  /\ page \in g_bitmap
  /\ MarkFree({page})
  /\ g_next_search' = HintAfterFree(page)
  /\ held' = [held EXCEPT ![c] = @ \ {page}]
  /\ UNCHANGED <<memory_map, entry, pc, total_pages, bitmap_phys_base, reclaimed, ret>>

\* The pages reclaim_bootloader_reclaimable (mm/paging.c) frees.
ReclaimablePages ==
  {p \in Pages :
     /\ ~(SkipStart <= p * PAGE /\ p * PAGE < SkipEnd)
     /\ \E i \in DOMAIN memory_map :
          /\ memory_map[i].type = "RECLAIMABLE"
          /\ p \in FullPages(memory_map[i].base, EntryEnd(memory_map[i]))}

\* Called once, from paging_init: pmm_free_page_phys on each of those pages.
ReclaimBootloader ==
  LET freed == ReclaimablePages \cap g_bitmap IN
  /\ g_initialized
  /\ ~reclaimed
  /\ reclaimed' = TRUE
  /\ MarkFree(freed)
  /\ \E m \in {g_next_search} \cup freed :
       /\ \A n \in {g_next_search} \cup freed : m <= n
       /\ g_next_search' = m
  /\ UNCHANGED <<memory_map, entry, pc, total_pages, bitmap_phys_base, held, ret>>

-----------------------------------------------------------------------------
Next ==
  \/ PmmInitPanic
  \/ PmmInitSetup
  \/ PmmInitEntry
  \/ PmmInitReserve
  \/ ReclaimBootloader
  \/ PmmAllocFails
  \/ \E c \in Clients : PmmAllocPage(c)
  \/ \E phys \in 0 .. WORD - 1 : PmmFreeIgnored(phys)
  \/ \E c \in Clients, phys \in 0 .. WORD - 1 : PmmFreePage(c, phys)

Spec == Init /\ [][Next]_vars

-----------------------------------------------------------------------------
(* Properties.                                                             *)

\* Every bit of the bitmap is one of a page that exists; the counters, the hint
\* and what clients hold are numbers.
TypeOK ==
  /\ memory_map \in MemoryMaps
  /\ entry \in Nat \ {0}
  /\ pc \in {"setup", "free", "ready", "panic"}
  /\ total_pages \in Nat /\ free_pages \in Int /\ used_pages \in Int
  /\ bitmap_phys_base \in Int
  /\ g_bitmap \subseteq Pages
  /\ g_next_search \in Nat
  /\ reclaimed \in BOOLEAN
  /\ held \in [Clients -> SUBSET Nat]

\* The counters g_pmm_info keeps by increments agree with the bitmap, so the
\* free_pages test of pmm_try_alloc_page_phys decides exactly whether the
\* search can succeed.
Accounting ==
  pc \in {"free", "ready"} =>
    /\ free_pages = Cardinality(Pages \ g_bitmap)
    /\ used_pages = Cardinality(g_bitmap)

\* No free page lies below g_next_search: the "next fit" search of pmm.c is
\* in fact first fit, and its wrap-around never has to find anything.
HintSound == \A p \in Pages : p < g_next_search => p \in g_bitmap

\* The bytes of page p.
Bytes(p) == p * PAGE .. p * PAGE + PAGE - 1

\* A page that can be handed out, or has been, lies byte for byte in memory
\* the map gives to the kernel (usable, or reclaimable once reclaimed), and
\* holds no byte of the kernel image, of the bitmap or of page 0.
OnlyRam ==
  g_initialized =>
    \A p \in (Pages \ g_bitmap) \cup UNION {held[c] : c \in Clients} :
      /\ p # 0
      /\ \A b \in Bytes(p) :
           /\ \E i \in DOMAIN memory_map :
                /\ memory_map[i].type \in
                     {"USABLE"} \cup (IF reclaimed THEN {"RECLAIMABLE"} ELSE {})
                /\ memory_map[i].base <= b
                /\ b < memory_map[i].base + memory_map[i].length
           /\ ~(KernelStart <= b /\ b < KernelEnd)
           /\ ~(bitmap_phys_base <= b
                  /\ b < bitmap_phys_base + BitmapBytes(total_pages))

\* A page is never given to two clients, and a page a client holds is never
\* in the free pool.
OneOwner ==
  /\ \A c \in Clients : held[c] \subseteq g_bitmap
  /\ \A c, d \in Clients : c # d => held[c] \cap held[d] = {}

\* "Keep bootloader-reclaimable regions reserved until a later reclaim step":
\* until reclaim_bootloader_reclaimable runs, no page it will free is in the
\* pool or in the hands of a client, so reclaiming never frees a page in use.
ReclaimSafe ==
  pc \in {"free", "ready"} /\ ~reclaimed =>
    /\ ReclaimablePages \subseteq g_bitmap
    /\ \A c \in Clients : held[c] \cap ReclaimablePages = {}

Abs == INSTANCE PageAllocator WITH
         up    <- g_initialized,
         avail <- IF g_initialized THEN Pages \ g_bitmap ELSE {}

\* The bitmap, counters and hint implement the abstract page allocator: an
\* allocation returns the lowest free page and fails only when none is left.
Refinement == Abs!Spec

=============================================================================
