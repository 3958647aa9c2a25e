----------------------------- MODULE PmmProofs -----------------------------
(***************************************************************************)
(* Proofs about the physical page manager, for every page size, word       *)
(* width, memory map and set of clients that satisfy the assumptions of    *)
(* module Pmm.                                                             *)
(***************************************************************************)
EXTENDS Pmm, FiniteSetTheorems, TLAPS

\* A leaf is for Zenon unless it names another prover.
USE Zenon

-----------------------------------------------------------------------------
(* Counting.                                                               *)

\* Clearing the bits of S moves |S \cap B| pages from used to free: what
\* mark_page_free counts one page at a time.
LEMMA FreeCount ==
  ASSUME NEW P, IsFiniteSet(P), NEW B \in SUBSET P, NEW S \in SUBSET P
  PROVE  /\ Cardinality(P \ (B \ S)) = Cardinality(P \ B) + Cardinality(S \cap B)
         /\ Cardinality(B \ S) = Cardinality(B) - Cardinality(S \cap B)
<1>1. IsFiniteSet(B) /\ IsFiniteSet(P \ B) /\ IsFiniteSet(S \cap B)
  BY FS_Subset, P \ B \in SUBSET P, S \cap B \in SUBSET P
<1>2. P \ (B \ S) = (P \ B) \cup (S \cap B) /\ (P \ B) \cap (S \cap B) = {}
  OBVIOUS
<1>3. Cardinality(P \ B) \in Nat /\ Cardinality(S \cap B) \in Nat
  BY <1>1, FS_CardinalityType
<1>4. Cardinality((P \ B) \cup (S \cap B))
        = Cardinality(P \ B) + Cardinality(S \cap B) - Cardinality({})
  BY <1>1, <1>2, FS_Union, SMT
<1>z. Cardinality({}) = 0
  BY FS_EmptySet
<1>5. Cardinality(P \ (B \ S)) = Cardinality(P \ B) + Cardinality(S \cap B)
  <2>1. Cardinality(P \ (B \ S)) = Cardinality((P \ B) \cup (S \cap B))
    BY <1>2
  <2> QED BY <2>1, <1>3, <1>4, <1>z, SMT
<1>6. B \cap S = S \cap B
  OBVIOUS
<1>7. Cardinality(B \ S) = Cardinality(B) - Cardinality(S \cap B)
  BY <1>1, <1>6, FS_Difference
<1> QED BY <1>5, <1>7

\* Setting the bits of S moves |S \ B| pages from free to used: what
\* mark_page_used counts one page at a time.
LEMMA UseCount ==
  ASSUME NEW P, IsFiniteSet(P), NEW B \in SUBSET P, NEW S \in SUBSET P
  PROVE  /\ Cardinality(P \ (B \cup S)) = Cardinality(P \ B) - Cardinality(S \ B)
         /\ Cardinality(B \cup S) = Cardinality(B) + Cardinality(S \ B)
<1>1. IsFiniteSet(B) /\ IsFiniteSet(P \ B) /\ IsFiniteSet(S \ B)
  BY FS_Subset, P \ B \in SUBSET P, S \ B \in SUBSET P
<1>2. P \ (B \cup S) = (P \ B) \ (S \ B) /\ (P \ B) \cap (S \ B) = S \ B
  OBVIOUS
<1>3. Cardinality((P \ B) \ (S \ B)) = Cardinality(P \ B) - Cardinality(S \ B)
  BY <1>1, <1>2, FS_Difference, SMT
<1>4. B \cup S = B \cup (S \ B) /\ B \cap (S \ B) = {}
  OBVIOUS
<1>5. Cardinality(B) \in Nat /\ Cardinality(S \ B) \in Nat
  BY <1>1, FS_CardinalityType
<1>6. Cardinality(B \cup (S \ B)) = Cardinality(B) + Cardinality(S \ B) - Cardinality({})
  BY <1>1, <1>4, FS_Union
<1>z. Cardinality({}) = 0
  BY FS_EmptySet
<1>7. /\ Cardinality(P \ (B \cup S)) = Cardinality((P \ B) \ (S \ B))
      /\ Cardinality(B \cup S) = Cardinality(B \cup (S \ B))
  BY <1>2, <1>4
<1> QED BY <1>3, <1>5, <1>6, <1>7, <1>z, SMT

-----------------------------------------------------------------------------
(* Address arithmetic.                                                     *)

\* align_up of an address is an address, and its page number a natural.
LEMMA AlignUpType ==
  ASSUME NEW v \in Nat
  PROVE  AlignUp(v) \in Nat /\ AlignUp(v) \div PAGE \in Nat
<1> DEFINE w == (v + PAGE - 1) % WORD
           q == w \div PAGE
<1>1. w \in Nat
  BY PageAssumption, SMT
<1> HIDE DEF w
<1>2. q \in Nat
  BY <1>1, PageAssumption, SMT
<1> HIDE DEF q
<1>3. q * PAGE \in Nat
  BY <1>2, PageAssumption, SMT
<1>4. AlignUp(v) = q * PAGE
  BY DEF AlignUp, q, w
<1>5. \A x \in Nat : x \div PAGE \in Nat
  BY PageAssumption, SMT
<1> QED BY <1>3, <1>4, <1>5

\* The same for align_down.
LEMMA AlignDownType ==
  ASSUME NEW v \in Nat
  PROVE  AlignDown(v) \in Nat /\ AlignDown(v) \div PAGE \in Nat
<1> DEFINE q == v \div PAGE
<1>2. q \in Nat
  BY PageAssumption, SMT
<1> HIDE DEF q
<1>3. q * PAGE \in Nat
  BY <1>2, PageAssumption, SMT
<1>4. AlignDown(v) = q * PAGE
  BY DEF AlignDown, q
<1>5. \A x \in Nat : x \div PAGE \in Nat
  BY PageAssumption, SMT
<1> QED BY <1>3, <1>4, <1>5

\* The end of an entry, wrapped or not, is an address.
LEMMA EntryType ==
  ASSUME NEW map \in MemoryMaps, NEW i \in DOMAIN map
  PROVE  /\ map[i].base \in Nat /\ EntryEnd(map[i]) \in Nat
         /\ CeilPage(map[i].base) \in Nat
         /\ FloorPage(EntryEnd(map[i])) \in Nat
<1>1. map \in Seq(MemoryMapEntry)
  BY MapsAssumption
<1>2. map[i].base \in Nat /\ map[i].length \in Nat
  <2>1. map[i] \in MemoryMapEntry
    BY <1>1, SMT
  <2> QED BY <2>1, PageAssumption, SMT DEF MemoryMapEntry
<1>3. /\ \A n \in Nat : n % WORD \in Nat
      /\ map[i].base + map[i].length \in Nat
      /\ WORD - 1 \in Nat
  BY <1>2, PageAssumption, SMT
<1>4. EntryEnd(map[i]) \in Nat
  <2>1. (map[i].base + map[i].length) % WORD \in Nat
    BY <1>3
  <2> QED BY <2>1, <1>3 DEF EntryEnd
<1> QED BY <1>2, <1>4, AlignUpType, AlignDownType DEF CeilPage, FloorPage

\* No whole page belongs both to a usable and to a reclaimable entry.
LEMMA UsableNotReclaimable ==
  ASSUME memory_map \in MemoryMaps, total_pages \in Nat,
         NEW i \in DOMAIN memory_map, memory_map[i].type = "USABLE"
  PROVE  FullPages(memory_map[i].base, EntryEnd(memory_map[i]))
           \cap ReclaimablePages = {}
<1> SUFFICES ASSUME NEW p \in Pages, NEW j \in DOMAIN memory_map,
                    memory_map[j].type = "RECLAIMABLE",
                    p \in FullPages(memory_map[i].base, EntryEnd(memory_map[i])),
                    p \in FullPages(memory_map[j].base, EntryEnd(memory_map[j]))
             PROVE  FALSE
  BY DEF ReclaimablePages
<1>1. p \in Nat
  BY SMT DEF Pages
<1>2. /\ CeilPage(memory_map[i].base) <= p /\ p < FloorPage(EntryEnd(memory_map[i]))
      /\ CeilPage(memory_map[j].base) <= p /\ p < FloorPage(EntryEnd(memory_map[j]))
  BY DEF FullPages
<1>3. \/ FloorPage(EntryEnd(memory_map[i])) <= CeilPage(memory_map[j].base)
      \/ FloorPage(EntryEnd(memory_map[j])) <= CeilPage(memory_map[i].base)
  BY MapsAssumption
<1> QED BY <1>1, <1>2, <1>3, EntryType, SMT

-----------------------------------------------------------------------------
(* The inductive invariant: the properties together with what is known     *)
(* while pmm_init runs.                                                    *)

BootState ==
  /\ pc # "ready" => held = [c \in Clients |-> {}] /\ reclaimed = FALSE
  /\ pc = "free" => total_pages > 0 /\ g_next_search = 0
  /\ pc = "ready" => total_pages > 0

IInv == TypeOK /\ Accounting /\ HintSound /\ OneOwner /\ ReclaimSafe /\ BootState

\* The empty allocator satisfies the invariant.
LEMMA InitIInv == Init => IInv
<1> SUFFICES ASSUME Init PROVE IInv
  OBVIOUS
<1>1. TypeOK
  <2>1. held \in [Clients -> SUBSET Nat] /\ reclaimed \in BOOLEAN
    BY DEF Init
  <2> QED BY <2>1, SMT DEF Init, TypeOK, Pages
<1>2. Accounting /\ ReclaimSafe
  BY DEF Init, Accounting, ReclaimSafe
<1>3. HintSound
  BY SMT DEF Init, HintSound, Pages
<1>4. OneOwner /\ BootState
  BY DEF Init, OneOwner, BootState
<1> QED BY <1>1, <1>2, <1>3, <1>4 DEF IInv

\* Freeing a set of used pages keeps the counters exact.
LEMMA MarkFreeAccounting ==
  ASSUME total_pages \in Nat, g_bitmap \subseteq Pages, Accounting,
         pc \in {"free", "ready"}, pc' \in {"free", "ready"},
         total_pages' = total_pages,
         NEW S \in SUBSET Pages, MarkFree(S)
  PROVE  /\ Accounting'
         /\ free_pages' \in Int /\ used_pages' \in Int
         /\ g_bitmap' \subseteq Pages'
<1>1. IsFiniteSet(Pages)
  BY FS_Interval, SMT DEF Pages
<1>2. Pages' = Pages
  BY DEF Pages
<1>3. /\ Cardinality(Pages \ (g_bitmap \ S))
           = Cardinality(Pages \ g_bitmap) + Cardinality(S \cap g_bitmap)
      /\ Cardinality(g_bitmap \ S)
           = Cardinality(g_bitmap) - Cardinality(S \cap g_bitmap)
  BY <1>1, FreeCount
<1>4. /\ Cardinality(Pages \ g_bitmap) \in Nat
      /\ Cardinality(g_bitmap) \in Nat
      /\ Cardinality(S \cap g_bitmap) \in Nat
  BY <1>1, FS_CardinalityType, FS_Subset, Pages \ g_bitmap \in SUBSET Pages,
     S \cap g_bitmap \in SUBSET Pages
<1>5. /\ free_pages = Cardinality(Pages \ g_bitmap)
      /\ used_pages = Cardinality(g_bitmap)
  BY DEF Accounting
<1>6. /\ g_bitmap' = g_bitmap \ S
      /\ free_pages' = free_pages + Cardinality(S \cap g_bitmap)
      /\ used_pages' = used_pages - Cardinality(S \cap g_bitmap)
  BY DEF MarkFree
<1>7. /\ free_pages' = Cardinality(Pages \ (g_bitmap \ S))
      /\ used_pages' = Cardinality(g_bitmap \ S)
  BY <1>3, <1>5, <1>6
<1>8. Accounting'
  BY <1>2, <1>6, <1>7 DEF Accounting
<1> QED BY <1>2, <1>4, <1>5, <1>6, <1>8, SMT

\* Taking a set of pages keeps the counters exact.
LEMMA MarkUsedAccounting ==
  ASSUME total_pages \in Nat, g_bitmap \subseteq Pages, Accounting,
         pc \in {"free", "ready"},
         total_pages' = total_pages,
         NEW S \in SUBSET Pages, MarkUsed(S)
  PROVE  /\ Accounting'
         /\ free_pages' \in Int /\ used_pages' \in Int
         /\ g_bitmap' \subseteq Pages'
<1>1. IsFiniteSet(Pages)
  BY FS_Interval, SMT DEF Pages
<1>2. Pages' = Pages
  BY DEF Pages
<1>3. /\ Cardinality(Pages \ (g_bitmap \cup S))
           = Cardinality(Pages \ g_bitmap) - Cardinality(S \ g_bitmap)
      /\ Cardinality(g_bitmap \cup S)
           = Cardinality(g_bitmap) + Cardinality(S \ g_bitmap)
  BY <1>1, UseCount
<1>4. /\ Cardinality(Pages \ g_bitmap) \in Nat
      /\ Cardinality(g_bitmap) \in Nat
      /\ Cardinality(S \ g_bitmap) \in Nat
  BY <1>1, FS_CardinalityType, FS_Subset, Pages \ g_bitmap \in SUBSET Pages,
     S \ g_bitmap \in SUBSET Pages
<1>5. /\ free_pages = Cardinality(Pages \ g_bitmap)
      /\ used_pages = Cardinality(g_bitmap)
  BY DEF Accounting
<1>6. /\ g_bitmap' = g_bitmap \cup S
      /\ free_pages' = free_pages - Cardinality(S \ g_bitmap)
      /\ used_pages' = used_pages + Cardinality(S \ g_bitmap)
  BY DEF MarkUsed
<1>7. /\ free_pages' = Cardinality(Pages \ (g_bitmap \cup S))
      /\ used_pages' = Cardinality(g_bitmap \cup S)
  BY <1>3, <1>5, <1>6
<1>8. Accounting'
  BY <1>2, <1>6, <1>7 DEF Accounting
<1> QED BY <1>2, <1>4, <1>5, <1>6, <1>8, SMT

-----------------------------------------------------------------------------
(* Every step preserves the invariant: one lemma per action.               *)

\* pmm_init's set-up: all bits set, all pages counted used.
LEMMA SetupStep == IInv /\ PmmInitSetup => IInv'
<1> SUFFICES ASSUME IInv, PmmInitSetup PROVE IInv'
  OBVIOUS
<1> USE DEF IInv
<1>1. PICK h \in Ends(memory_map), i \in DOMAIN memory_map :
        /\ PageCount(h) # 0
        /\ bitmap_phys_base' = AlignUp(memory_map[i].base)
        /\ total_pages' = PageCount(h)
        /\ used_pages' = PageCount(h)
        /\ g_bitmap' = 0 .. PageCount(h) - 1
  BY DEF PmmInitSetup
<1>2. h \in Nat
  BY EntryType, SMT DEF Ends, TypeOK
<1>3. PageCount(h) \in Nat /\ PageCount(h) > 0 /\ bitmap_phys_base' \in Int
  <2>1. PageCount(h) \in Nat
    BY <1>2, AlignUpType DEF PageCount
  <2>2. memory_map[i].base \in Nat
    BY EntryType DEF TypeOK
  <2>3. AlignUp(memory_map[i].base) \in Nat
    BY <2>2, AlignUpType
  <2> QED BY <1>1, <2>1, <2>3, SMT
<1>4. Pages' = 0 .. PageCount(h) - 1 /\ g_bitmap' = Pages'
  BY <1>1 DEF Pages
<1>5. /\ free_pages' = 0 /\ g_next_search' = 0 /\ pc = "setup" /\ pc' = "free"
      /\ UNCHANGED <<memory_map, entry, reclaimed, held, ret>>
  BY DEF PmmInitSetup
<1>6. TypeOK'
  BY <1>1, <1>3, <1>4, <1>5, SMT DEF TypeOK
<1>7. Accounting'
  <2>1. Cardinality(0 .. PageCount(h) - 1) = PageCount(h)
    BY <1>3, FS_Interval, SMT
  <2>2. Pages' \ g_bitmap' = {}
    BY <1>4
  <2>3. Cardinality(Pages' \ g_bitmap') = 0
    BY <2>2, FS_EmptySet
  <2> QED BY <1>1, <1>5, <2>1, <2>3 DEF Accounting
<1>8. HintSound'
  BY <1>4 DEF HintSound
<1>9. held = [c \in Clients |-> {}] /\ reclaimed = FALSE
  BY <1>5 DEF BootState
<1>10. OneOwner' /\ BootState'
  BY <1>1, <1>3, <1>5, <1>9 DEF OneOwner, BootState
<1>11. ReclaimSafe'
  <2>1. ReclaimablePages' \subseteq Pages'
    BY DEF ReclaimablePages
  <2>2. \A c \in Clients : held'[c] = {}
    BY <1>5, <1>9
  <2> QED BY <1>4, <2>1, <2>2 DEF ReclaimSafe
<1> QED BY <1>6, <1>7, <1>8, <1>10, <1>11

\* The set of pages the reclaim will free depends on the map and the number
\* of pages only.
LEMMA ReclaimableUnchanged ==
  ASSUME UNCHANGED <<memory_map, total_pages>>
  PROVE  ReclaimablePages' = ReclaimablePages /\ Pages' = Pages
BY DEF ReclaimablePages, Pages, FullPages

\* pmm_init frees the pages of one entry, none of them reclaimable.
LEMMA EntryStep == IInv /\ PmmInitEntry => IInv'
<1> SUFFICES ASSUME IInv, PmmInitEntry PROVE IInv'
  OBVIOUS
<1> USE DEF IInv
<1> DEFINE S == FreedAtInit(memory_map[entry])
<1>1. /\ pc = "free" /\ entry <= Len(memory_map) /\ MarkFree(S)
      /\ entry' = entry + 1
      /\ UNCHANGED <<memory_map, pc, total_pages, bitmap_phys_base, g_next_search,
                     reclaimed, held, ret>>
  BY DEF PmmInitEntry
<1>2. S \in SUBSET Pages
  BY DEF FreedAtInit, FullPages
<1>3. /\ Accounting' /\ free_pages' \in Int /\ used_pages' \in Int
      /\ g_bitmap' \subseteq Pages'
  BY <1>1, <1>2, MarkFreeAccounting DEF TypeOK
<1>4. TypeOK'
  BY <1>1, <1>3, SMT DEF TypeOK
<1>5. HintSound'
  BY <1>1, SMT DEF HintSound, BootState, TypeOK, Pages
<1>6. held = [c \in Clients |-> {}] /\ reclaimed = FALSE
  BY <1>1 DEF BootState
<1>7. OneOwner' /\ BootState'
  BY <1>1, <1>6 DEF OneOwner, BootState
<1>8. S \cap ReclaimablePages = {}
  <2>1. entry \in DOMAIN memory_map
    <3>1. memory_map \in Seq(MemoryMapEntry) /\ entry \in Nat \ {0}
      BY MapsAssumption DEF TypeOK
    <3> QED BY <1>1, <3>1, SMT
  <2> QED BY <2>1, UsableNotReclaimable DEF FreedAtInit, TypeOK
<1>9. ReclaimSafe'
  <2>1. ReclaimablePages \subseteq g_bitmap
    BY <1>1, <1>6 DEF ReclaimSafe
  <2>2. ReclaimablePages' = ReclaimablePages
    BY <1>1, ReclaimableUnchanged
  <2>3. g_bitmap' = g_bitmap \ S
    BY <1>1 DEF MarkFree
  <2>4. \A c \in Clients : held'[c] = {}
    BY <1>1, <1>6
  <2> HIDE DEF S
  <2> QED BY <1>8, <2>1, <2>2, <2>3, <2>4 DEF ReclaimSafe
<1> QED BY <1>3, <1>4, <1>5, <1>7, <1>9

\* pmm_init takes back the bitmap, the kernel and page 0, so the hint 1 is sound.
LEMMA ReserveStep == IInv /\ PmmInitReserve => IInv'
<1> SUFFICES ASSUME IInv, PmmInitReserve PROVE IInv'
  OBVIOUS
<1> USE DEF IInv
<1> DEFINE S == InitReserved
<1>1. /\ pc = "free" /\ MarkUsed(S)
      /\ g_next_search' = (IF total_pages > 1 THEN 1 ELSE 0)
      /\ pc' \in {"ready", "panic"}
      /\ UNCHANGED <<memory_map, entry, total_pages, bitmap_phys_base, reclaimed,
                     held, ret>>
  BY DEF PmmInitReserve
<1>2. total_pages > 0 /\ 0 \in Pages /\ 0 \in S
  BY <1>1, SMT DEF BootState, TypeOK, Pages, InitReserved
<1>3. S \in SUBSET Pages
  BY <1>2 DEF InitReserved, TouchedPages
<1>4. /\ Accounting' /\ free_pages' \in Int /\ used_pages' \in Int
      /\ g_bitmap' \subseteq Pages'
  BY <1>1, <1>3, MarkUsedAccounting DEF TypeOK
<1>5. TypeOK'
  BY <1>1, <1>4 DEF TypeOK
<1>6. g_bitmap' = g_bitmap \cup S /\ Pages' = Pages
  BY <1>1 DEF MarkUsed, Pages
<1>7. HintSound'
  <2> HIDE DEF S
  <2>1. \A p \in Pages : p < g_next_search' => p = 0
    BY <1>1, SMT DEF Pages, TypeOK
  <2> QED BY <1>2, <1>6, <2>1 DEF HintSound
<1>8. held = [c \in Clients |-> {}] /\ reclaimed = FALSE
  BY <1>1 DEF BootState
<1>9. OneOwner' /\ BootState'
  BY <1>1, <1>2, <1>8 DEF OneOwner, BootState
<1>10. ReclaimSafe'
  <2>1. ReclaimablePages \subseteq g_bitmap
    BY <1>1, <1>8 DEF ReclaimSafe
  <2>2. ReclaimablePages' = ReclaimablePages
    BY <1>1, ReclaimableUnchanged
  <2>3. \A c \in Clients : held'[c] = {}
    BY <1>1, <1>8
  <2> HIDE DEF S
  <2> QED BY <1>6, <2>1, <2>2, <2>3 DEF ReclaimSafe
<1> QED BY <1>4, <1>5, <1>7, <1>9, <1>10

\* The page the circular search stops at is a free page, and the lowest one.
LEMMA LowestFree ==
  ASSUME TypeOK, HintSound,
         NEW s \in 0 .. total_pages - 1, FirstClear(s)
  PROVE  /\ ScanPage(s) \in Pages \ g_bitmap
         /\ \A q \in Pages \ g_bitmap : ScanPage(s) <= q
<1> USE DEF TypeOK
<1>1. SearchStart \in Nat /\ SearchStart < total_pages
  BY SMT DEF SearchStart
<1>2. ScanPage(s) \in Pages
  BY <1>1, SMT DEF ScanPage, Pages
<1>3. ScanPage(s) \notin g_bitmap
  BY DEF FirstClear
<1>4. ~(ScanPage(s) < g_next_search)
  BY <1>2, <1>3 DEF HintSound
<1>5. g_next_search < total_pages /\ SearchStart = g_next_search
  BY <1>2, <1>4, SMT DEF SearchStart, Pages
<1>6. ScanPage(s) = g_next_search + s
  BY <1>4, <1>5, SMT DEF ScanPage
<1>7. ASSUME NEW q \in Pages \ g_bitmap, q < ScanPage(s)
      PROVE  FALSE
  <2>1. q \in Nat /\ q < total_pages /\ ~(q < g_next_search)
    BY SMT DEF HintSound, Pages
  <2>2. q - g_next_search \in 0 .. s - 1
    BY <1>6, <1>7, <2>1, SMT
  <2>3. ScanPage(q - g_next_search) = q
    BY <1>5, <2>1, <2>2, SMT DEF ScanPage
  <2> QED BY <2>2, <2>3 DEF FirstClear
<1>8. \A q \in Pages : q \in Nat
  BY SMT DEF Pages
<1> QED BY <1>2, <1>3, <1>7, <1>8, SMT

\* pmm_try_alloc_page_phys hands out one free page and moves the hint past it.
LEMMA AllocStep ==
  ASSUME IInv, NEW c \in Clients, PmmAllocPage(c)
  PROVE  IInv'
<1> USE DEF IInv
<1>1. PICK s \in 0 .. total_pages - 1 :
        /\ FirstClear(s)
        /\ MarkUsed({ScanPage(s)})
        /\ g_next_search' = HintAfterAlloc(ScanPage(s))
        /\ held' = [held EXCEPT ![c] = @ \cup {ScanPage(s)}]
  BY DEF PmmAllocPage
<1> DEFINE page == ScanPage(s)
<1>2. /\ pc = "ready"
      /\ UNCHANGED <<memory_map, entry, pc, total_pages, bitmap_phys_base, reclaimed>>
  BY DEF PmmAllocPage, g_initialized
<1>3. /\ page \in Pages /\ page \notin g_bitmap
      /\ \A q \in Pages \ g_bitmap : page <= q
  BY <1>1, LowestFree
<1>4. g_bitmap' = g_bitmap \cup {page}
  BY <1>1 DEF MarkUsed
<1>5. /\ Accounting' /\ free_pages' \in Int /\ used_pages' \in Int
      /\ g_bitmap' \subseteq Pages'
  BY <1>1, <1>2, <1>3, {page} \in SUBSET Pages, MarkUsedAccounting DEF TypeOK
<1> HIDE DEF page
<1>6. page \in Nat
  BY <1>3, SMT DEF Pages
<1>7. Pages' = Pages /\ ReclaimablePages' = ReclaimablePages
  BY <1>2, ReclaimableUnchanged
<1>8. held' = [held EXCEPT ![c] = @ \cup {page}] /\ g_next_search' = HintAfterAlloc(page)
  BY <1>1 DEF page
<1>9. TypeOK'
  <2>1. held' \in [Clients -> SUBSET Nat] /\ g_next_search' \in Nat
    BY <1>6, <1>8, SMT DEF TypeOK, HintAfterAlloc
  <2> QED BY <1>2, <1>5, <2>1 DEF TypeOK
<1>10. HintSound'
  <2> SUFFICES ASSUME NEW p \in Pages, p < g_next_search', p \notin g_bitmap
               PROVE  p = page
    BY <1>4, <1>7 DEF HintSound
  <2>1. page <= p /\ p \in Nat
    BY <1>3, SMT DEF Pages
  <2> QED BY <1>6, <1>8, <2>1, SMT DEF HintAfterAlloc
<1>11. \A d \in Clients : held'[d] = IF d = c THEN held[d] \cup {page} ELSE held[d]
  BY <1>8 DEF TypeOK
<1>12. OneOwner'
  <2>1. \A d \in Clients : held[d] \subseteq g_bitmap /\ page \notin held[d]
    BY <1>3 DEF OneOwner
  <2>2. \A d, e \in Clients : d # e => held[d] \cap held[e] = {}
    BY DEF OneOwner
  <2>3. \A d \in Clients : held'[d] \subseteq g_bitmap'
    BY <1>4, <1>11, <2>1
  <2>4. \A d, e \in Clients : d # e => held'[d] \cap held'[e] = {}
    <3> SUFFICES ASSUME NEW d \in Clients, NEW e \in Clients, d # e
                 PROVE  held'[d] \cap held'[e] = {}
      OBVIOUS
    <3>1. CASE d = c
      BY <3>1, <1>11, <2>1, <2>2
    <3>2. CASE e = c
      BY <3>2, <1>11, <2>1, <2>2
    <3>3. CASE d # c /\ e # c
      BY <3>3, <1>11, <2>2
    <3> QED BY <3>1, <3>2, <3>3
  <2> QED BY <2>3, <2>4 DEF OneOwner
<1>13. ReclaimSafe'
  BY <1>2, <1>3, <1>4, <1>7, <1>11 DEF ReclaimSafe
<1>14. BootState'
  BY <1>2 DEF BootState
<1> QED BY <1>5, <1>9, <1>10, <1>12, <1>13, <1>14

\* pmm_free_page_phys returns one page of a client and lowers the hint to it.
LEMMA FreeStep ==
  ASSUME IInv, NEW c \in Clients, NEW phys \in 0 .. WORD - 1, PmmFreePage(c, phys)
  PROVE  IInv'
<1> USE DEF IInv
<1> DEFINE page == phys \div PAGE
<1>1. /\ pc = "ready" /\ page \in Pages /\ page \in held[c] /\ page \in g_bitmap
      /\ MarkFree({page})
      /\ g_next_search' = HintAfterFree(page)
      /\ held' = [held EXCEPT ![c] = @ \ {page}]
      /\ UNCHANGED <<memory_map, entry, pc, total_pages, bitmap_phys_base, reclaimed, ret>>
  BY DEF PmmFreePage, g_initialized
<1> HIDE DEF page
<1>2. g_bitmap' = g_bitmap \ {page}
  BY <1>1 DEF MarkFree
<1>3. /\ Accounting' /\ free_pages' \in Int /\ used_pages' \in Int
      /\ g_bitmap' \subseteq Pages'
  BY <1>1, {page} \in SUBSET Pages, MarkFreeAccounting DEF TypeOK
<1>4. page \in Nat
  BY <1>1, SMT DEF Pages
<1>5. Pages' = Pages /\ ReclaimablePages' = ReclaimablePages
  BY <1>1, ReclaimableUnchanged
<1>6. TypeOK'
  <2>1. held' \in [Clients -> SUBSET Nat] /\ g_next_search' \in Nat
    BY <1>1, <1>4 DEF TypeOK, HintAfterFree
  <2> QED BY <1>1, <1>3, <2>1 DEF TypeOK
<1>7. HintSound'
  <2> SUFFICES ASSUME NEW p \in Pages, p < g_next_search'
               PROVE  p \in g_bitmap /\ p # page
    BY <1>2, <1>5 DEF HintSound
  <2>1. p \in Nat /\ g_next_search \in Nat
    BY SMT DEF Pages, TypeOK
  <2>2. p < g_next_search /\ p < page
    BY <1>1, <1>4, <2>1, SMT DEF HintAfterFree
  <2> QED BY <1>4, <2>1, <2>2, SMT DEF HintSound
<1>8. \A d \in Clients : held'[d] = IF d = c THEN held[d] \ {page} ELSE held[d]
  BY <1>1 DEF TypeOK
<1>9. OneOwner'
  <2>1. \A d \in Clients : held[d] \subseteq g_bitmap
    BY DEF OneOwner
  <2>2. \A d, e \in Clients : d # e => held[d] \cap held[e] = {}
    BY DEF OneOwner
  <2>3. \A d \in Clients : d # c => page \notin held[d]
    BY <1>1, <2>2
  <2>4. \A d \in Clients : held'[d] \subseteq g_bitmap'
    BY <1>2, <1>8, <2>1, <2>3
  <2>5. \A d, e \in Clients : d # e => held'[d] \cap held'[e] = {}
    BY <1>8, <2>2
  <2> QED BY <2>4, <2>5 DEF OneOwner
<1>10. ReclaimSafe'
  BY <1>1, <1>2, <1>5, <1>8, SMT DEF ReclaimSafe
<1>11. BootState'
  BY <1>1 DEF BootState
<1> QED BY <1>3, <1>6, <1>7, <1>9, <1>10, <1>11

\* reclaim_bootloader_reclaimable frees pages nobody holds.
LEMMA ReclaimStep == IInv /\ ReclaimBootloader => IInv'
<1> SUFFICES ASSUME IInv, ReclaimBootloader PROVE IInv'
  OBVIOUS
<1> USE DEF IInv
<1> DEFINE freed == ReclaimablePages \cap g_bitmap
<1>1. /\ pc = "ready" /\ reclaimed = FALSE /\ reclaimed' = TRUE /\ MarkFree(freed)
      /\ UNCHANGED <<memory_map, entry, pc, total_pages, bitmap_phys_base, held, ret>>
  BY DEF ReclaimBootloader, g_initialized, TypeOK
<1>2. PICK m \in {g_next_search} \cup freed :
        /\ \A n \in {g_next_search} \cup freed : m <= n
        /\ g_next_search' = m
  BY DEF ReclaimBootloader
<1>3. freed \in SUBSET Pages
  BY DEF TypeOK
<1>4. /\ Accounting' /\ free_pages' \in Int /\ used_pages' \in Int
      /\ g_bitmap' \subseteq Pages'
  BY <1>1, <1>3, MarkFreeAccounting DEF TypeOK
<1>5. g_bitmap' = g_bitmap \ freed /\ Pages' = Pages
  BY <1>1 DEF MarkFree, Pages
<1>6. \A c \in Clients : held[c] \cap freed = {}
  BY <1>1 DEF ReclaimSafe
<1> HIDE DEF freed
<1>7. \A p \in Pages : p \in Nat
  BY SMT DEF Pages
<1>8. TypeOK'
  <2>1. g_next_search' \in Nat
    BY <1>2, <1>3, <1>7 DEF TypeOK
  <2> QED BY <1>1, <1>4, <2>1 DEF TypeOK
<1>9. HintSound'
  <2> SUFFICES ASSUME NEW p \in Pages, p < m
               PROVE  p \in g_bitmap /\ p \notin freed
    BY <1>2, <1>5 DEF HintSound
  <2>1. p \in Nat /\ m \in Nat /\ g_next_search \in Nat /\ m <= g_next_search
    BY <1>2, <1>3, <1>7 DEF TypeOK
  <2>2. p < g_next_search
    BY <2>1, SMT
  <2>3. p \in g_bitmap
    BY <2>2 DEF HintSound
  <2>4. p \notin freed
    BY <1>2, <2>1, SMT
  <2> QED BY <2>3, <2>4
<1>10. OneOwner'
  BY <1>1, <1>5, <1>6 DEF OneOwner
<1>11. ReclaimSafe' /\ BootState'
  BY <1>1 DEF ReclaimSafe, BootState
<1> QED BY <1>4, <1>8, <1>9, <1>10, <1>11

\* Steps that change nothing the invariant speaks of.
LEMMA QuietStep ==
  ASSUME IInv,
         UNCHANGED <<memory_map, entry, g_bitmap, pmm_info, g_next_search,
                     reclaimed, held>>,
         \/ pc' = pc
         \/ pc = "setup" /\ pc' = "panic"
  PROVE  IInv'
<1> USE DEF IInv, pmm_info
<1>1. Pages' = Pages /\ ReclaimablePages' = ReclaimablePages
  BY ReclaimableUnchanged
<1>2. TypeOK'
  BY <1>1 DEF TypeOK
<1>3. Accounting'
  BY <1>1 DEF Accounting
<1>4. HintSound' /\ OneOwner' /\ BootState'
  BY <1>1 DEF HintSound, OneOwner, BootState
<1>5. ReclaimSafe'
  BY <1>1 DEF ReclaimSafe
<1> QED BY <1>2, <1>3, <1>4, <1>5

\* The invariant is inductive.
LEMMA NextIInv == IInv /\ [Next]_vars => IInv'
<1> SUFFICES ASSUME IInv, [Next]_vars PROVE IInv'
  OBVIOUS
<1>1. CASE PmmInitPanic
  BY <1>1, QuietStep DEF PmmInitPanic
<1>2. CASE PmmInitSetup
  BY <1>2, SetupStep
<1>3. CASE PmmInitEntry
  BY <1>3, EntryStep
<1>4. CASE PmmInitReserve
  BY <1>4, ReserveStep
<1>5. CASE ReclaimBootloader
  BY <1>5, ReclaimStep
<1>6. CASE PmmAllocFails
  BY <1>6, QuietStep DEF PmmAllocFails
<1>7. CASE \E c \in Clients : PmmAllocPage(c)
  BY <1>7, AllocStep
<1>8. CASE \E phys \in 0 .. WORD - 1 : PmmFreeIgnored(phys)
  BY <1>8, QuietStep DEF PmmFreeIgnored, vars
<1>9. CASE \E c \in Clients, phys \in 0 .. WORD - 1 : PmmFreePage(c, phys)
  BY <1>9, FreeStep
<1>10. CASE UNCHANGED vars
  BY <1>10, QuietStep DEF vars
<1> QED BY <1>1, <1>2, <1>3, <1>4, <1>5, <1>6, <1>7, <1>8, <1>9, <1>10 DEF Next

\* The invariant holds in every reachable state.
THEOREM Invariance == Spec => []IInv
BY InitIInv, NextIInv, PTL DEF Spec

\* Every variable of the page manager keeps its type.
THEOREM TypeCorrect == Spec => []TypeOK
<1>1. IInv => TypeOK
  BY DEF IInv
<1> QED BY <1>1, Invariance, PTL

\* The counters of g_pmm_info always agree with the bitmap.
THEOREM CountersExact == Spec => []Accounting
<1>1. IInv => Accounting
  BY DEF IInv
<1> QED BY <1>1, Invariance, PTL

\* No free page is ever below g_next_search.
THEOREM HintCorrect == Spec => []HintSound
<1>1. IInv => HintSound
  BY DEF IInv
<1> QED BY <1>1, Invariance, PTL

\* No page is ever handed to two clients or free while held.
THEOREM SingleOwner == Spec => []OneOwner
<1>1. IInv => OneOwner
  BY DEF IInv
<1> QED BY <1>1, Invariance, PTL

\* Boot-loader memory is neither free nor held before it is reclaimed.
THEOREM ReclaimIsSafe == Spec => []ReclaimSafe
<1>1. IInv => ReclaimSafe
  BY DEF IInv
<1> QED BY <1>1, Invariance, PTL

-----------------------------------------------------------------------------
(* Pages and bytes: what rounding to pages does to an address.             *)

\* Division by the page size.
LEMMA PageDiv ==
  ASSUME NEW v \in Nat
  PROVE  /\ v \div PAGE \in Nat
         /\ (v \div PAGE) * PAGE <= v
         /\ v < (v \div PAGE) * PAGE + PAGE
BY PageAssumption, SMT

\* The order of page numbers is the order of the addresses they start at.
LEMMA PageOrder ==
  ASSUME NEW p \in Nat, NEW q \in Nat
  PROVE  /\ p * PAGE \in Nat
         /\ p < q <=> p * PAGE + PAGE <= q * PAGE
         /\ p <= q <=> p * PAGE <= q * PAGE
         /\ p < q <=> p * PAGE < q * PAGE
BY PageAssumption, SMT

\* The page that starts at p * PAGE is p.
LEMMA PageOfStart ==
  ASSUME NEW p \in Nat
  PROVE  (p * PAGE) \div PAGE = p
BY PageAssumption, SMT

\* Rounding down: page p is below the end v exactly if all its bytes are.
LEMMA FloorIs ==
  ASSUME NEW v \in Nat, NEW p \in Nat
  PROVE  /\ FloorPage(v) \in Nat
         /\ AlignDown(v) = FloorPage(v) * PAGE
         /\ AlignDown(v) <= v
         /\ p < FloorPage(v) <=> p * PAGE + PAGE <= v
<1> DEFINE q == v \div PAGE
<1>1. q \in Nat /\ q * PAGE <= v /\ v < q * PAGE + PAGE
  BY PageDiv
<1>2. AlignDown(v) = q * PAGE
  BY DEF AlignDown
<1> HIDE DEF q
<1>3. FloorPage(v) = q
  BY <1>1, <1>2, PageOfStart DEF FloorPage
<1>4. p < q <=> p * PAGE + PAGE <= v
  <2>1. /\ p < q <=> p * PAGE + PAGE <= q * PAGE
        /\ p * PAGE \in Nat /\ q * PAGE \in Nat
    BY <1>1, PageOrder
  <2>2. CASE p < q
    BY <1>1, <2>1, <2>2, PageAssumption, SMT
  <2>3. CASE ~(p < q)
    <3>1. q * PAGE <= p * PAGE
      BY <1>1, <2>3, PageOrder, SMT
    <3> QED BY <1>1, <2>1, <2>3, <3>1, PageAssumption, SMT
  <2> QED BY <2>2, <2>3
<1> QED BY <1>1, <1>2, <1>3, <1>4

\* Rounding up an address below the last page: page p is at or above the
\* start v exactly if all its bytes are.
LEMMA CeilIs ==
  ASSUME NEW v \in Nat, v + PAGE <= WORD, NEW p \in Nat
  PROVE  /\ CeilPage(v) \in Nat
         /\ AlignUp(v) = CeilPage(v) * PAGE
         /\ v <= AlignUp(v) /\ AlignUp(v) < v + PAGE
         /\ CeilPage(v) <= p <=> v <= p * PAGE
<1> DEFINE w == v + PAGE - 1
           q == w \div PAGE
<1>1. w \in Nat /\ w < WORD
  BY PageAssumption, SMT
<1>2. w % WORD = w
  BY <1>1, PageAssumption, SMT
<1>3. AlignUp(v) = q * PAGE
  BY <1>2 DEF AlignUp
<1>4. w = v + PAGE - 1
  OBVIOUS
<1> HIDE DEF w
<1>5. q \in Nat /\ q * PAGE <= w /\ w < q * PAGE + PAGE
  BY <1>1, PageDiv
<1> HIDE DEF q
<1>6. CeilPage(v) = q
  BY <1>3, <1>5, PageOfStart DEF CeilPage
<1>7. q <= p <=> v <= p * PAGE
  <2>1. q * PAGE \in Nat /\ p * PAGE \in Nat
    BY <1>5, PageOrder
  <2>2. CASE q <= p
    <3>1. q * PAGE <= p * PAGE
      BY <1>5, <2>2, PageOrder
    <3> QED BY <1>4, <1>5, <2>1, <2>2, <3>1, PageAssumption, SMT
  <2>3. CASE p < q
    <3>1. p * PAGE + PAGE <= q * PAGE
      BY <1>5, <2>3, PageOrder
    <3> QED BY <1>4, <1>5, <2>1, <2>3, <3>1, PageAssumption, SMT
  <2> QED BY <1>5, <2>2, <2>3, SMT
<1>8. v <= q * PAGE /\ q * PAGE < v + PAGE
  BY <1>4, <1>5, PageOrder, PageAssumption, SMT
<1> QED BY <1>3, <1>5, <1>6, <1>7, <1>8

\* An address in the last page rounds up to 0: the page count pmm_init
\* computes from it is 0, and it panics.
LEMMA CeilWraps ==
  ASSUME NEW v \in Nat, v < WORD, WORD < v + PAGE
  PROVE  CeilPage(v) = 0
<1> DEFINE w == (v + PAGE - 1) % WORD
<1>1. w \in Nat /\ w < PAGE
  BY PageAssumption, SMT
<1>2. AlignUp(v) = (w \div PAGE) * PAGE
  BY DEF AlignUp
<1> HIDE DEF w
<1>3. w \div PAGE = 0
  BY <1>1, PageAssumption, SMT
<1>4. AlignUp(v) = 0
  BY <1>2, <1>3, PageAssumption, SMT
<1> QED BY <1>4, PageAssumption, SMT DEF CeilPage

\* An entry ends where base plus length says, or earlier when that wraps.
LEMMA EntryEndIs ==
  ASSUME NEW map \in MemoryMaps, NEW i \in DOMAIN map
  PROVE  /\ map[i].base \in Nat /\ map[i].length \in Nat
         /\ EntryEnd(map[i]) \in Nat /\ EntryEnd(map[i]) < WORD
         /\ map[i].base <= EntryEnd(map[i])
         /\ EntryEnd(map[i]) <= map[i].base + map[i].length
<1> DEFINE b == map[i].base
           l == map[i].length
<1>1. b \in 0 .. WORD - 1 /\ l \in 0 .. WORD - 1
  <2>1. map \in Seq(MemoryMapEntry)
    BY MapsAssumption
  <2>2. map[i] \in MemoryMapEntry
    BY <2>1, SMT
  <2> QED BY <2>2 DEF MemoryMapEntry
<1>2. EntryEnd(map[i]) = IF (b + l) % WORD < b THEN WORD - 1 ELSE (b + l) % WORD
  BY DEF EntryEnd
<1> HIDE DEF b, l
<1>3. CASE b + l < WORD
  <2>1. (b + l) % WORD = b + l
    BY <1>1, <1>3, PageAssumption, SMT
  <2> QED BY <1>1, <1>2, <1>3, <2>1, PageAssumption, SMT DEF b, l
<1>4. CASE b + l >= WORD
  <2>1. (b + l) % WORD = b + l - WORD
    BY <1>1, <1>4, PageAssumption, SMT
  <2> QED BY <1>1, <1>2, <1>4, <2>1, PageAssumption, SMT DEF b, l
<1> QED BY <1>1, <1>3, <1>4, PageAssumption, SMT DEF b, l

-----------------------------------------------------------------------------
(* Which pages are in circulation.                                         *)

\* The pages that can be handed out or have been.
Pool == (Pages \ g_bitmap) \cup UNION {held[c] : c \in Clients}

\* Page p lies wholly inside an entry of one of the types T.
Backed(p, T) ==
  \E i \in DOMAIN memory_map :
    /\ memory_map[i].type \in T
    /\ p \in FullPages(memory_map[i].base, EntryEnd(memory_map[i]))

\* The types of memory the kernel may use by now.
Granted == {"USABLE"} \cup (IF reclaimed THEN {"RECLAIMABLE"} ELSE {})

\* No entry ends in the last page of the address space: no rounding wraps.
NoWrap == \A i \in DOMAIN memory_map : EntryEnd(memory_map[i]) + PAGE <= WORD

\* The bitmap lies in whole pages of a usable entry.
BitmapPlaced ==
  /\ 0 < total_pages /\ total_pages * PAGE < WORD
  /\ \E i \in DOMAIN memory_map :
       /\ memory_map[i].type = "USABLE"
       /\ bitmap_phys_base = AlignUp(memory_map[i].base)
       /\ bitmap_phys_base + AlignUp(BitmapBytes(total_pages))
            <= AlignDown(EntryEnd(memory_map[i]))

\* What makes OnlyRam inductive: in terms of pages, not bytes, and already
\* while pmm_init frees the usable entries one by one.
RamInv ==
  /\ pc \in {"free", "ready"} => NoWrap /\ BitmapPlaced
  /\ pc = "free" => \A p \in Pages \ g_bitmap : Backed(p, {"USABLE"})
  /\ pc = "ready" => \A p \in Pool : Backed(p, Granted) /\ p \notin InitReserved

\* The bitmap's size in bytes, rounded up to pages, is not smaller than itself.
LEMMA BitmapFits ==
  ASSUME total_pages \in Nat, 0 < total_pages, total_pages * PAGE < WORD
  PROVE  /\ BitmapBytes(total_pages) \in Nat
         /\ AlignUp(BitmapBytes(total_pages)) \in Nat
         /\ BitmapBytes(total_pages) <= AlignUp(BitmapBytes(total_pages))
<1> DEFINE n == BitmapBytes(total_pages)
<1>1. n \in Nat /\ n <= total_pages
  BY SMT DEF BitmapBytes
<1> HIDE DEF n
<1>2. total_pages + PAGE - 1 <= total_pages * PAGE
  <2>1. \A a, b \in Nat : a * b \in Nat
    BY SMT
  <2>2. total_pages - 1 \in Nat /\ PAGE - 1 \in Nat
    BY PageAssumption, SMT
  <2>3. (total_pages - 1) * (PAGE - 1) \in Nat
    BY <2>1, <2>2
  <2>4. (total_pages - 1) * (PAGE - 1) = total_pages * PAGE - total_pages - PAGE + 1
    BY PageAssumption, SMT
  <2>5. total_pages * PAGE \in Nat
    BY PageAssumption, SMT
  <2> QED BY <2>3, <2>4, <2>5, PageAssumption, SMT
<1>3. total_pages * PAGE \in Nat
  BY PageAssumption, SMT
<1>4. n + PAGE <= WORD
  BY <1>1, <1>2, <1>3, PageAssumption, SMT
<1>5. n <= AlignUp(n) /\ AlignUp(n) \in Nat
  BY <1>1, <1>4, CeilIs, AlignUpType
<1> QED BY <1>1, <1>5 DEF n

\* What RamInv says of pages, OnlyRam says of bytes.
LEMMA RamInvOnlyRam == IInv /\ RamInv => OnlyRam
<1> SUFFICES ASSUME IInv, RamInv, pc = "ready", NEW p \in Pool
             PROVE  /\ p # 0
                    /\ \A b \in Bytes(p) :
                         /\ \E i \in DOMAIN memory_map :
                              /\ memory_map[i].type \in Granted
                              /\ memory_map[i].base <= b
                              /\ b < memory_map[i].base + memory_map[i].length
                         /\ ~(KernelStart <= b /\ b < KernelEnd)
                         /\ ~(bitmap_phys_base <= b
                                /\ b < bitmap_phys_base + BitmapBytes(total_pages))
  BY DEF OnlyRam, g_initialized, Pool, Granted
<1>1. /\ memory_map \in MemoryMaps /\ total_pages \in Nat
      /\ NoWrap /\ BitmapPlaced /\ Backed(p, Granted) /\ p \notin InitReserved
  BY DEF IInv, TypeOK, RamInv
<1>2. PICK i \in DOMAIN memory_map :
        /\ memory_map[i].type \in Granted
        /\ p \in FullPages(memory_map[i].base, EntryEnd(memory_map[i]))
  BY <1>1 DEF Backed
<1> DEFINE base == memory_map[i].base
           end  == EntryEnd(memory_map[i])
<1>3. /\ p \in Pages /\ p \in Nat
      /\ CeilPage(base) <= p /\ p < FloorPage(end)
  BY <1>2, SMT DEF FullPages, Pages
<1>4. /\ base \in Nat /\ end \in Nat /\ base <= end /\ end + PAGE <= WORD
      /\ end <= base + memory_map[i].length
      /\ memory_map[i].length \in Nat
  BY <1>1, EntryEndIs DEF NoWrap
<1> HIDE DEF base, end
<1>5. base <= p * PAGE /\ p * PAGE + PAGE <= end /\ p * PAGE \in Nat
  <2>1. base + PAGE <= WORD
    BY <1>4, PageAssumption, SMT
  <2> QED BY <1>3, <1>4, <2>1, CeilIs, FloorIs, PageOrder
<1>6. p # 0 /\ p \notin TouchedPages(KernelStart, KernelEnd)
  BY <1>1 DEF InitReserved
<1>7. ASSUME NEW b \in Bytes(p)
      PROVE  /\ b \in Nat /\ p * PAGE <= b /\ b < p * PAGE + PAGE
             /\ base <= b /\ b < base + memory_map[i].length
  BY <1>4, <1>5, PageAssumption, SMT DEF Bytes
<1>8. ASSUME NEW b \in Bytes(p), KernelStart <= b, b < KernelEnd
      PROVE  FALSE
  <2>1. KernelStart < KernelEnd
    BY <1>7, <1>8, PageAssumption, SMT
  <2>2. FloorPage(KernelStart) <= p
    <3>1. ~(p * PAGE + PAGE <= KernelStart)
      BY <1>5, <1>7, <1>8, PageAssumption, SMT
    <3> QED BY <1>3, <3>1, FloorIs, PageAssumption, SMT
  <2>3. p < CeilPage(KernelEnd)
    <3>1. ~(KernelEnd <= p * PAGE)
      BY <1>5, <1>7, <1>8, PageAssumption, SMT
    <3> QED BY <1>3, <3>1, CeilIs, PageAssumption, SMT
  <2> QED BY <1>3, <1>6, <2>1, <2>2, <2>3 DEF TouchedPages
<1>9. ASSUME NEW b \in Bytes(p), bitmap_phys_base <= b,
             b < bitmap_phys_base + BitmapBytes(total_pages)
      PROVE  FALSE
  <2> DEFINE span == AlignUp(BitmapBytes(total_pages))
             stop == bitmap_phys_base + span
  <2>1. PICK j \in DOMAIN memory_map :
          /\ bitmap_phys_base = AlignUp(memory_map[j].base)
          /\ stop <= AlignDown(EntryEnd(memory_map[j]))
    BY <1>1 DEF BitmapPlaced
  <2>2. BitmapBytes(total_pages) \in Nat /\ span \in Nat
        /\ BitmapBytes(total_pages) <= span
    BY <1>1, BitmapFits DEF BitmapPlaced
  <2>3. bitmap_phys_base \in Nat
    BY <1>1, <2>1, EntryEndIs, AlignUpType
  <2>4. stop + PAGE <= WORD /\ stop \in Nat
    <3>1. /\ EntryEnd(memory_map[j]) \in Nat
          /\ EntryEnd(memory_map[j]) + PAGE <= WORD
      BY <1>1, EntryEndIs DEF NoWrap
    <3>2. AlignDown(EntryEnd(memory_map[j])) <= EntryEnd(memory_map[j])
      BY <3>1, FloorIs
    <3>3. AlignDown(EntryEnd(memory_map[j])) \in Nat
      BY <3>1, AlignDownType
    <3> HIDE DEF span
    <3> QED BY <2>1, <2>2, <2>3, <3>1, <3>2, <3>3, PageAssumption, SMT
  <2>5. b < stop
    <3> HIDE DEF span
    <3> QED BY <1>7, <1>9, <2>2, <2>3, SMT
  <2>6. p \notin TouchedPages(bitmap_phys_base, stop)
    BY <1>1 DEF InitReserved
  <2> HIDE DEF stop
  <2>7. bitmap_phys_base < stop
    BY <1>7, <1>9, <2>3, <2>4, <2>5, SMT
  <2>8. FloorPage(bitmap_phys_base) <= p
    <3>1. ~(p * PAGE + PAGE <= bitmap_phys_base)
      BY <1>5, <1>7, <1>9, <2>3, PageAssumption, SMT
    <3> QED BY <1>3, <2>3, <3>1, FloorIs, SMT
  <2>9. p < CeilPage(stop)
    <3>1. ~(stop <= p * PAGE)
      BY <1>5, <1>7, <2>4, <2>5, SMT
    <3> QED BY <1>3, <2>4, <3>1, CeilIs, SMT
  <2> QED BY <1>3, <2>6, <2>7, <2>8, <2>9 DEF TouchedPages
<1> QED BY <1>2, <1>6, <1>7, <1>8, <1>9 DEF base

\* The set-up of pmm_init chooses a place for the bitmap; a map that reaches
\* into the last page never gets here, because its page count is 0.
LEMMA SetupRam == IInv /\ RamInv /\ PmmInitSetup => RamInv'
<1> SUFFICES ASSUME IInv, RamInv, PmmInitSetup PROVE RamInv'
  OBVIOUS
<1>1. PICK h \in Ends(memory_map), i \in DOMAIN memory_map :
        /\ MaxPhysicalEnd(memory_map, h)
        /\ PageCount(h) # 0
        /\ FindBitmapRegion(memory_map, PageCount(h), i)
        /\ bitmap_phys_base' = AlignUp(memory_map[i].base)
        /\ total_pages' = PageCount(h)
        /\ g_bitmap' = 0 .. PageCount(h) - 1
  BY DEF PmmInitSetup
<1>2. memory_map' = memory_map /\ pc' = "free"
  BY DEF PmmInitSetup
<1>3. memory_map \in MemoryMaps
  BY DEF IInv, TypeOK
<1>4. h \in Nat /\ h < WORD
  BY <1>3, EntryEndIs, PageAssumption, SMT DEF Ends
<1>5. h + PAGE <= WORD
  <2>1. CeilPage(h) # 0
    BY <1>1 DEF PageCount, CeilPage
  <2> QED BY <1>4, <2>1, CeilWraps, PageAssumption, SMT
<1>6. NoWrap
  <2> SUFFICES ASSUME NEW j \in DOMAIN memory_map
               PROVE  EntryEnd(memory_map[j]) + PAGE <= WORD
    BY DEF NoWrap
  <2>1. EntryEnd(memory_map[j]) <= h /\ EntryEnd(memory_map[j]) \in Nat
    BY <1>1, <1>3, EntryEndIs DEF MaxPhysicalEnd, Ends
  <2> QED BY <1>4, <1>5, <2>1, PageAssumption, SMT
<1>7. NoWrap'
  BY <1>2, <1>6 DEF NoWrap, EntryEnd
<1>8. total_pages' \in Nat /\ 0 < total_pages' /\ total_pages' * PAGE < WORD
  <2> DEFINE n == CeilPage(h)
  <2>1. n \in Nat /\ AlignUp(h) = n * PAGE /\ AlignUp(h) < h + PAGE
    BY <1>4, <1>5, CeilIs
  <2>2. total_pages' = n /\ n # 0
    BY <1>1 DEF PageCount, CeilPage
  <2> HIDE DEF n
  <2>3. n * PAGE \in Nat
    BY <2>1, PageOrder
  <2> QED BY <1>4, <1>5, <2>1, <2>2, <2>3, PageAssumption, SMT
<1>9. BitmapPlaced'
  <2>1. /\ memory_map[i].type = "USABLE"
        /\ AlignDown(EntryEnd(memory_map[i])) - AlignUp(memory_map[i].base)
             >= AlignUp(BitmapBytes(total_pages'))
    BY <1>1 DEF FindBitmapRegion, HasRoom
  <2>2. /\ AlignDown(EntryEnd(memory_map[i])) \in Nat
        /\ AlignUp(memory_map[i].base) \in Nat
    BY <1>3, EntryEndIs, AlignUpType, AlignDownType
  <2>3. AlignUp(BitmapBytes(total_pages')) \in Nat
    <3>1. \A n \in Nat : BitmapBytes(n) \in Nat
      BY SMT DEF BitmapBytes
    <3> QED BY <1>8, <3>1, AlignUpType
  <2>4. AlignUp(memory_map[i].base) + AlignUp(BitmapBytes(total_pages'))
          <= AlignDown(EntryEnd(memory_map[i]))
    BY <2>1, <2>2, <2>3, SMT
  <2>5. BitmapBytes(total_pages)' = BitmapBytes(total_pages')
    BY DEF BitmapBytes
  <2> QED BY <1>1, <1>2, <1>8, <2>1, <2>4, <2>5
       DEF BitmapPlaced, EntryEnd, AlignDown, AlignUp
<1>10. Pages' \ g_bitmap' = {}
  BY <1>1 DEF Pages
<1> QED BY <1>2, <1>7, <1>9, <1>10 DEF RamInv

\* Everything RamInv says of a page depends on four variables only.
LEMMA SameMap ==
  ASSUME UNCHANGED <<memory_map, total_pages, bitmap_phys_base>>
  PROVE  /\ Pages' = Pages /\ NoWrap' = NoWrap /\ BitmapPlaced' = BitmapPlaced
         /\ InitReserved' = InitReserved
         /\ \A p, T : Backed(p, T)' <=> Backed(p, T)
BY DEF Pages, NoWrap, BitmapPlaced, InitReserved, Backed, FullPages, TouchedPages

\* The loop over the usable entries.
LEMMA EntryRam == IInv /\ RamInv /\ PmmInitEntry => RamInv'
<1> SUFFICES ASSUME IInv, RamInv, PmmInitEntry PROVE RamInv'
  OBVIOUS
<1> DEFINE S == FreedAtInit(memory_map[entry])
<1>1. /\ pc = "free" /\ entry <= Len(memory_map) /\ g_bitmap' = g_bitmap \ S
      /\ UNCHANGED <<memory_map, pc, total_pages, bitmap_phys_base, reclaimed, held>>
  BY DEF PmmInitEntry, MarkFree
<1>2. entry \in DOMAIN memory_map
  <2>1. memory_map \in Seq(MemoryMapEntry) /\ entry \in Nat \ {0}
    BY MapsAssumption DEF IInv, TypeOK
  <2> QED BY <1>1, <2>1, SMT
<1>3. \A p \in S : Backed(p, {"USABLE"})
  BY <1>2 DEF FreedAtInit, Backed
<1> HIDE DEF S
<1>4. \A p \in Pages' \ g_bitmap' : Backed(p, {"USABLE"})
  BY <1>1, <1>3, SameMap DEF RamInv
<1>5. \A p \in Pages' \ g_bitmap' : Backed(p, {"USABLE"})'
  BY <1>1, <1>4, SameMap
<1> QED BY <1>1, <1>5, SameMap DEF RamInv

\* What pmm_init takes back at the end leaves the pool for good.
LEMMA ReserveRam == IInv /\ RamInv /\ PmmInitReserve => RamInv'
<1> SUFFICES ASSUME IInv, RamInv, PmmInitReserve PROVE RamInv'
  OBVIOUS
<1>1. /\ pc = "free" /\ g_bitmap' = g_bitmap \cup InitReserved
      /\ pc' \in {"ready", "panic"}
      /\ UNCHANGED <<memory_map, total_pages, bitmap_phys_base, reclaimed, held>>
  BY DEF PmmInitReserve, MarkUsed
<1>2. held = [c \in Clients |-> {}] /\ reclaimed = FALSE
  BY <1>1 DEF IInv, BootState
<1>3. Pool' = (Pages \ g_bitmap) \ InitReserved
  <2>1. UNION {held'[c] : c \in Clients} = {}
    BY <1>1, <1>2
  <2> QED BY <1>1, <2>1, SameMap DEF Pool
<1>4. \A p \in Pool' : Backed(p, {"USABLE"})' /\ p \notin InitReserved'
  BY <1>1, <1>3, SameMap DEF RamInv
<1>5. \A p : Backed(p, {"USABLE"})' => Backed(p, Granted)'
  BY DEF Backed, Granted
<1> QED BY <1>1, <1>4, <1>5, SameMap DEF RamInv

\* A page that moves between the free pool and a client stays in circulation.
LEMMA CirculateRam ==
  ASSUME IInv, RamInv, pc = "ready", NEW page,
         UNCHANGED <<memory_map, pc, total_pages, bitmap_phys_base, reclaimed>>,
         page \in Pool, Pool' \subseteq Pool \cup {page}
  PROVE  RamInv'
<1>1. \A p \in Pool' : Backed(p, Granted) /\ p \notin InitReserved
  BY DEF RamInv
<1>2. Granted' = Granted
  BY DEF Granted
<1>3. \A p : Backed(p, Granted)' <=> Backed(p, Granted)
  BY <1>2 DEF Backed, FullPages, Pages
<1>4. NoWrap' /\ BitmapPlaced' /\ InitReserved' = InitReserved
  BY SameMap DEF RamInv
<1> QED BY <1>1, <1>3, <1>4 DEF RamInv

\* An allocation.
LEMMA AllocRam ==
  ASSUME IInv, RamInv, NEW c \in Clients, PmmAllocPage(c)
  PROVE  RamInv'
<1>1. PICK s \in 0 .. total_pages - 1 :
        /\ FirstClear(s)
        /\ MarkUsed({ScanPage(s)})
        /\ g_next_search' = HintAfterAlloc(ScanPage(s))
        /\ held' = [held EXCEPT ![c] = @ \cup {ScanPage(s)}]
  BY DEF PmmAllocPage
<1> DEFINE page == ScanPage(s)
<1>2. /\ pc = "ready"
      /\ UNCHANGED <<memory_map, pc, total_pages, bitmap_phys_base, reclaimed>>
  BY DEF PmmAllocPage, g_initialized
<1>3. page \in Pages /\ page \notin g_bitmap
  BY <1>1, LowestFree DEF IInv
<1>4. g_bitmap' = g_bitmap \cup {page} /\ Pages' = Pages
  BY <1>1, <1>2 DEF MarkUsed, Pages
<1>5. held' = [held EXCEPT ![c] = @ \cup {page}]
  BY <1>1
<1> HIDE DEF page
<1>6. \A d \in Clients : held'[d] \subseteq held[d] \cup {page}
  BY <1>5 DEF IInv, TypeOK
<1>7. page \in Pool /\ Pool' \subseteq Pool \cup {page}
  BY <1>3, <1>4, <1>6 DEF Pool
<1> QED BY <1>2, <1>7, CirculateRam

\* A page freed by the client that holds it.
LEMMA FreeRam ==
  ASSUME IInv, RamInv, NEW c \in Clients, NEW phys \in 0 .. WORD - 1,
         PmmFreePage(c, phys)
  PROVE  RamInv'
<1> DEFINE page == phys \div PAGE
<1>1. /\ pc = "ready" /\ page \in held[c]
      /\ g_bitmap' = g_bitmap \ {page}
      /\ held' = [held EXCEPT ![c] = @ \ {page}]
      /\ UNCHANGED <<memory_map, pc, total_pages, bitmap_phys_base, reclaimed>>
  BY DEF PmmFreePage, g_initialized, MarkFree
<1> HIDE DEF page
<1>2. \A d \in Clients : held'[d] \subseteq held[d]
  BY <1>1 DEF IInv, TypeOK
<1>3. Pages' = Pages
  BY <1>1 DEF Pages
<1>4. page \in Pool /\ Pool' \subseteq Pool \cup {page}
  BY <1>1, <1>2, <1>3, SMT DEF Pool
<1> QED BY <1>1, <1>4, CirculateRam

\* A page of a reclaimable entry is none of those pmm_init reserved: it is not
\* page 0, no page of the kernel, and no page of the usable entry that holds
\* the bitmap.
LEMMA ReclaimableNotReserved ==
  ASSUME IInv, NoWrap, BitmapPlaced, NEW p \in ReclaimablePages
  PROVE  p \notin InitReserved
<1>1. memory_map \in MemoryMaps /\ total_pages \in Nat /\ bitmap_phys_base \in Int
  BY DEF IInv, TypeOK
<1>2. PICK i \in DOMAIN memory_map :
        /\ memory_map[i].type = "RECLAIMABLE"
        /\ p \in FullPages(memory_map[i].base, EntryEnd(memory_map[i]))
  BY DEF ReclaimablePages
<1> DEFINE base == memory_map[i].base
           end  == EntryEnd(memory_map[i])
<1>3. p \in Nat /\ CeilPage(base) <= p /\ p < FloorPage(end)
  BY <1>2, SMT DEF FullPages, Pages
<1>4. /\ base \in Nat /\ end \in Nat /\ base <= end /\ end + PAGE <= WORD
      /\ end <= base + memory_map[i].length
      /\ memory_map[i].length \in Nat
  BY <1>1, EntryEndIs DEF NoWrap
<1>5. /\ base > 0
      /\ base + memory_map[i].length <= KernelStart \/ KernelEnd <= base
  BY <1>1, <1>2, MapsAssumption
<1> HIDE DEF base, end
<1>6. base <= p * PAGE /\ p * PAGE + PAGE <= end /\ p * PAGE \in Nat
  <2>1. base + PAGE <= WORD
    BY <1>4, PageAssumption, SMT
  <2> QED BY <1>3, <1>4, <2>1, CeilIs, FloorIs, PageOrder
<1>7. p # 0
  BY <1>4, <1>5, <1>6, PageAssumption, SMT
<1>8. p \notin TouchedPages(KernelStart, KernelEnd)
  <2>1. CASE base + memory_map[i].length <= KernelStart
    <3>1. p * PAGE + PAGE <= KernelStart
      BY <1>4, <1>6, <2>1, PageAssumption, SMT
    <3>2. p < FloorPage(KernelStart) /\ FloorPage(KernelStart) \in Nat
      BY <1>3, <3>1, FloorIs, PageAssumption
    <3> QED BY <1>3, <3>2, SMT DEF TouchedPages
  <2>2. CASE KernelEnd <= base
    <3>1. KernelEnd <= p * PAGE
      BY <1>4, <1>6, <2>2, PageAssumption, SMT
    <3>2. CeilPage(KernelEnd) <= p /\ CeilPage(KernelEnd) \in Nat
      BY <1>3, <3>1, CeilIs, PageAssumption
    <3> QED BY <1>3, <3>2, SMT DEF TouchedPages
  <2> QED BY <1>5, <2>1, <2>2
<1>9. p \notin TouchedPages(bitmap_phys_base,
                            bitmap_phys_base + AlignUp(BitmapBytes(total_pages)))
  <2> DEFINE stop == bitmap_phys_base + AlignUp(BitmapBytes(total_pages))
  <2>1. PICK j \in DOMAIN memory_map :
          /\ memory_map[j].type = "USABLE"
          /\ bitmap_phys_base = AlignUp(memory_map[j].base)
          /\ stop <= AlignDown(EntryEnd(memory_map[j]))
    BY DEF BitmapPlaced
  <2> DEFINE ubase == memory_map[j].base
             uend  == EntryEnd(memory_map[j])
  <2>2. p \notin FullPages(ubase, uend)
    BY <1>1, <1>2, <2>1, UsableNotReclaimable
  <2>3. ubase \in Nat /\ uend \in Nat /\ ubase <= uend /\ uend + PAGE <= WORD
    BY <1>1, EntryEndIs DEF NoWrap
  <2>4. stop \in Int
    <3>1. AlignUp(BitmapBytes(total_pages)) \in Nat
      BY <1>1, BitmapFits DEF BitmapPlaced
    <3> QED BY <1>1, <3>1, SMT
  <2> SUFFICES ASSUME p \in TouchedPages(bitmap_phys_base, stop)
               PROVE  FALSE
    OBVIOUS
  <2> HIDE DEF stop, ubase, uend
  <2>5. /\ p \in Pages /\ bitmap_phys_base < stop
        /\ FloorPage(bitmap_phys_base) <= p /\ p < CeilPage(stop)
    BY DEF TouchedPages
  <2>6. /\ AlignUp(ubase) = CeilPage(ubase) * PAGE /\ CeilPage(ubase) \in Nat
        /\ AlignDown(uend) = FloorPage(uend) * PAGE /\ FloorPage(uend) \in Nat
        /\ AlignDown(uend) <= uend
        /\ ubase <= AlignUp(ubase)
    <3>1. ubase + PAGE <= WORD
      BY <2>3, PageAssumption, SMT
    <3> QED BY <1>3, <2>3, <3>1, CeilIs, FloorIs
  <2>7. bitmap_phys_base = CeilPage(ubase) * PAGE /\ stop <= FloorPage(uend) * PAGE
    BY <2>1, <2>6 DEF ubase, uend
  <2>8. CeilPage(ubase) <= p
    BY <2>5, <2>6, <2>7, PageOfStart DEF FloorPage, AlignDown
  <2>9. p < FloorPage(uend)
    <3>1. /\ CeilPage(ubase) * PAGE \in Nat /\ FloorPage(uend) * PAGE \in Nat
          /\ p * PAGE \in Nat
      BY <1>3, <2>6, PageOrder
    <3>2. stop \in Nat /\ stop + PAGE <= WORD
      BY <2>3, <2>4, <2>5, <2>6, <2>7, <3>1, PageAssumption, SMT
    <3>3. ~(stop <= p * PAGE)
      BY <1>3, <2>5, <3>2, CeilIs, SMT
    <3>4. p * PAGE < FloorPage(uend) * PAGE
      BY <2>4, <2>7, <3>1, <3>3, SMT
    <3> QED BY <1>3, <2>6, <3>4, PageOrder
  <2>10. ubase < uend
    BY <2>3, <2>4, <2>5, <2>6, <2>7, PageOrder, SMT
  <2> QED BY <2>2, <2>5, <2>8, <2>9, <2>10 DEF FullPages
<1> QED BY <1>7, <1>8, <1>9 DEF InitReserved

\* Reclaiming adds pages of reclaimable entries to the pool.
LEMMA ReclaimRam == IInv /\ RamInv /\ ReclaimBootloader => RamInv'
<1> SUFFICES ASSUME IInv, RamInv, ReclaimBootloader PROVE RamInv'
  OBVIOUS
<1>1. /\ pc = "ready" /\ reclaimed' = TRUE
      /\ g_bitmap' = g_bitmap \ (ReclaimablePages \cap g_bitmap)
      /\ UNCHANGED <<memory_map, pc, total_pages, bitmap_phys_base, held>>
  BY DEF ReclaimBootloader, g_initialized, MarkFree
<1>2. NoWrap /\ BitmapPlaced
  BY <1>1 DEF RamInv
<1>3. ASSUME NEW p \in Pool'
      PROVE  Backed(p, {"USABLE", "RECLAIMABLE"}) /\ p \notin InitReserved
  <2>1. p \in Pool \/ p \in ReclaimablePages
    BY <1>1, <1>3, SameMap DEF Pool
  <2>2. CASE p \in Pool
    BY <1>1, <2>2 DEF RamInv, Backed, Granted
  <2>3. CASE p \in ReclaimablePages
    <3>1. Backed(p, {"USABLE", "RECLAIMABLE"})
      BY <2>3 DEF ReclaimablePages, Backed
    <3> QED BY <1>2, <2>3, <3>1, ReclaimableNotReserved
  <2> QED BY <2>1, <2>2, <2>3
<1>4. Granted' = {"USABLE", "RECLAIMABLE"}
  BY <1>1 DEF Granted
<1>5. \A p : Backed(p, Granted)' <=> Backed(p, {"USABLE", "RECLAIMABLE"})
  BY <1>1, <1>4 DEF Backed, FullPages, Pages
<1> QED BY <1>1, <1>2, <1>3, <1>5, SameMap DEF RamInv

\* Steps that change nothing RamInv speaks of.
LEMMA QuietRam ==
  ASSUME RamInv,
         UNCHANGED <<memory_map, g_bitmap, total_pages, bitmap_phys_base,
                     reclaimed, held>>,
         pc' = pc \/ pc' = "panic"
  PROVE  RamInv'
<1>1. Pool' = Pool /\ Granted' = Granted
  BY DEF Pool, Granted, Pages
<1>2. \A p : Backed(p, Granted)' <=> Backed(p, Granted)
  BY <1>1 DEF Backed, FullPages, Pages
<1> QED BY <1>1, <1>2, SameMap DEF RamInv

\* RamInv is inductive relative to IInv.
LEMMA NextRam == IInv /\ RamInv /\ [Next]_vars => RamInv'
<1> SUFFICES ASSUME IInv, RamInv, [Next]_vars PROVE RamInv'
  OBVIOUS
<1>1. CASE PmmInitPanic
  BY <1>1, QuietRam DEF PmmInitPanic, pmm_info
<1>2. CASE PmmInitSetup
  BY <1>2, SetupRam
<1>3. CASE PmmInitEntry
  BY <1>3, EntryRam
<1>4. CASE PmmInitReserve
  BY <1>4, ReserveRam
<1>5. CASE ReclaimBootloader
  BY <1>5, ReclaimRam
<1>6. CASE PmmAllocFails
  BY <1>6, QuietRam DEF PmmAllocFails, pmm_info
<1>7. CASE \E c \in Clients : PmmAllocPage(c)
  BY <1>7, AllocRam
<1>8. CASE \E phys \in 0 .. WORD - 1 : PmmFreeIgnored(phys)
  BY <1>8, QuietRam DEF PmmFreeIgnored, vars, pmm_info
<1>9. CASE \E c \in Clients, phys \in 0 .. WORD - 1 : PmmFreePage(c, phys)
  BY <1>9, FreeRam
<1>10. CASE UNCHANGED vars
  BY <1>10, QuietRam DEF vars, pmm_info
<1> QED BY <1>1, <1>2, <1>3, <1>4, <1>5, <1>6, <1>7, <1>8, <1>9, <1>10 DEF Next

\* Every page the allocator can hand out, or has, is memory the boot loader
\* gave to the kernel, free of the kernel image, the bitmap and page 0.
THEOREM PoolIsRam == Spec => []OnlyRam
<1>1. Init => RamInv
  BY DEF Init, RamInv
<1>2. Spec => []RamInv
  BY <1>1, NextRam, Invariance, PTL DEF Spec
<1> QED BY <1>2, Invariance, RamInvOnlyRam, PTL

-----------------------------------------------------------------------------
(* The page manager implements the abstract page allocator.                *)

\* The pool as the abstract specification sees it.
Avail == IF g_initialized THEN Pages \ g_bitmap ELSE {}

\* Bitmap, counters, hint and search implement module PageAllocator: every
\* request gets the lowest available page and is refused only if there is none.
THEOREM ImplementsPageAllocator == Spec => Refinement
<1>1. Init => Abs!Init
  BY DEF Init, Abs!Init, g_initialized
<1>2. IInv /\ [Next]_vars => [Abs!Next]_(Abs!vars)
  <2> SUFFICES ASSUME IInv, [Next]_vars PROVE [Abs!Next]_(Abs!vars)
    OBVIOUS
  <2> USE DEF IInv
  <2>1. CASE PmmInitPanic
    <3>1. ~g_initialized /\ ~g_initialized' /\ UNCHANGED <<held, ret>>
      BY <2>1 DEF PmmInitPanic, g_initialized
    <3> QED BY <3>1 DEF Abs!vars, g_initialized
  <2>2. CASE PmmInitSetup
    <3>1. ~g_initialized /\ ~g_initialized' /\ UNCHANGED <<held, ret>>
      BY <2>2 DEF PmmInitSetup, g_initialized
    <3> QED BY <3>1 DEF Abs!vars, g_initialized
  <2>3. CASE PmmInitEntry
    <3>1. ~g_initialized /\ ~g_initialized' /\ UNCHANGED <<held, ret>>
      BY <2>3 DEF PmmInitEntry, g_initialized
    <3> QED BY <3>1 DEF Abs!vars, g_initialized
  <2>4. CASE PmmInitReserve
    <3>1. ~g_initialized /\ UNCHANGED <<held, ret, total_pages>>
      BY <2>4 DEF PmmInitReserve, g_initialized
    <3>2. CASE g_initialized'
      <4>1. Pages' \ g_bitmap' \in SUBSET Nat
        BY <3>1, SMT DEF Pages, TypeOK
      <4>2. Abs!Start
        BY <3>1, <3>2, <4>1 DEF Abs!Start
      <4> QED BY <4>2 DEF Abs!Next
    <3>3. CASE ~g_initialized'
      BY <3>1, <3>3 DEF Abs!vars, g_initialized
    <3> QED BY <3>2, <3>3
  <2>5. CASE ReclaimBootloader
    <3>1. /\ g_initialized /\ g_initialized' /\ ~reclaimed
          /\ UNCHANGED <<held, ret, total_pages>>
          /\ g_bitmap' = g_bitmap \ (ReclaimablePages \cap g_bitmap)
      BY <2>5 DEF ReclaimBootloader, g_initialized, MarkFree
    <3>2. Pages' = Pages
      BY <3>1 DEF Pages
    <3>3. /\ Pages \ g_bitmap \subseteq Pages' \ g_bitmap'
          /\ Pages' \ g_bitmap' \in SUBSET Nat
      BY <3>1, <3>2, SMT DEF Pages, TypeOK
    <3>4. \A c \in Clients : (Pages' \ g_bitmap') \cap held[c] = {}
      BY <3>1, <3>2 DEF OneOwner, ReclaimSafe, g_initialized
    <3>5. Abs!Donate
      BY <3>1, <3>3, <3>4 DEF Abs!Donate
    <3> QED BY <3>5 DEF Abs!Next
  <2>6. CASE PmmAllocFails
    <3>1. /\ ret' = INVALID
          /\ UNCHANGED <<pc, total_pages, g_bitmap, held>>
      BY <2>6 DEF PmmAllocFails, pmm_info
    <3>2. g_initialized => Pages \ g_bitmap = {}
      <4> SUFFICES ASSUME pc = "ready" PROVE Pages \ g_bitmap = {}
        BY DEF g_initialized
      <4>1. CASE free_pages = 0
        <5>1. Cardinality(Pages \ g_bitmap) = 0
          BY <4>1 DEF Accounting
        <5>2. IsFiniteSet(Pages \ g_bitmap)
          <6>1. IsFiniteSet(Pages)
            BY FS_Interval, SMT DEF Pages, TypeOK
          <6> QED BY <6>1, FS_Difference
        <5> QED BY <5>1, <5>2, FS_EmptySet
      <4>2. CASE Pages \subseteq g_bitmap
        BY <4>2
      <4> QED BY <2>6, <4>1, <4>2 DEF PmmAllocFails, g_initialized
    <3>3. Avail = {} /\ Avail' = Avail /\ g_initialized' = g_initialized
      BY <3>1, <3>2 DEF Avail, g_initialized, Pages
    <3>4. Abs!Refuse
      BY <3>1, <3>3 DEF Abs!Refuse, Avail
    <3> QED BY <3>4 DEF Abs!Next
  <2>7. CASE \E c \in Clients : PmmAllocPage(c)
    <3>1. PICK c \in Clients : PmmAllocPage(c)
      BY <2>7
    <3>2. PICK s \in 0 .. total_pages - 1 :
            /\ FirstClear(s)
            /\ MarkUsed({ScanPage(s)})
            /\ ret' = ScanPage(s) * PAGE
            /\ held' = [held EXCEPT ![c] = @ \cup {ScanPage(s)}]
      BY <3>1 DEF PmmAllocPage
    <3>3. g_initialized /\ g_initialized' /\ Pages' = Pages
      BY <3>1 DEF PmmAllocPage, g_initialized, Pages
    <3>4. /\ ScanPage(s) \in Pages \ g_bitmap
          /\ \A q \in Pages \ g_bitmap : ScanPage(s) <= q
      BY <3>2, LowestFree
    <3>5. Pages' \ g_bitmap' = (Pages \ g_bitmap) \ {ScanPage(s)}
      BY <3>2, <3>3 DEF MarkUsed
    <3>6. Abs!Allocate(c)
      BY <3>2, <3>3, <3>4, <3>5 DEF Abs!Allocate
    <3> QED BY <3>6 DEF Abs!Next
  <2>8. CASE \E phys \in 0 .. WORD - 1 : PmmFreeIgnored(phys)
    BY <2>8 DEF PmmFreeIgnored, vars, pmm_info, Abs!vars, g_initialized, Pages
  <2>9. CASE \E c \in Clients, phys \in 0 .. WORD - 1 : PmmFreePage(c, phys)
    <3>1. PICK c \in Clients, phys \in 0 .. WORD - 1 : PmmFreePage(c, phys)
      BY <2>9
    <3> DEFINE page == phys \div PAGE
    <3>2. /\ g_initialized /\ g_initialized' /\ Pages' = Pages
          /\ page \in Pages /\ page \in held[c]
          /\ MarkFree({page})
          /\ held' = [held EXCEPT ![c] = @ \ {page}]
          /\ ret' = ret
      BY <3>1 DEF PmmFreePage, g_initialized, Pages
    <3> HIDE DEF page
    <3>3. Pages' \ g_bitmap' = (Pages \ g_bitmap) \cup {page}
      BY <3>2 DEF MarkFree
    <3>4. Abs!Release(c)
      BY <3>2, <3>3 DEF Abs!Release
    <3> QED BY <3>4 DEF Abs!Next
  <2>10. CASE UNCHANGED vars
    BY <2>10 DEF vars, pmm_info, Abs!vars, g_initialized, Pages
  <2> QED BY <2>1, <2>2, <2>3, <2>4, <2>5, <2>6, <2>7, <2>8, <2>9, <2>10 DEF Next
<1> QED BY <1>1, <1>2, Invariance, PTL DEF Spec, Refinement, Abs!Spec

=============================================================================
