------------------------------ MODULE Kmalloc ------------------------------
(***************************************************************************)
(* The kernel heap of mm/kmalloc.c: block headers inside the pools, the    *)
(* unordered free list, first fit with splitting, the magic numbers that   *)
(* kfree checks, and forward coalescing.                                   *)
(*                                                                         *)
(* A block is known by the address of its header.  The list links are a    *)
(* sequence.  Every call runs under g_kmalloc_lock; kfree's loop is one    *)
(* step per block it absorbs, with the lock held in between.               *)
(***************************************************************************)
EXTENDS Integers, Sequences, FiniteSets, SequencesExt

CONSTANTS
  SIZE_WORD,          \* SIZE_MAX + 1
  KMALLOC_ALIGN,      \* 16
  HEADER,             \* sizeof(kmalloc_block_t), 48
  KMALLOC_POOL_SIZE,
  PoolBases,          \* where vmalloc may place pools
  Sizes,              \* sizes callers ask for
  NULL

ASSUME KmallocAssumption ==
  /\ KMALLOC_ALIGN \in Nat \ {0} /\ HEADER \in Nat \ {0} /\ KMALLOC_POOL_SIZE \in Nat
  /\ HEADER % KMALLOC_ALIGN = 0
  /\ KMALLOC_POOL_SIZE % KMALLOC_ALIGN = 0 /\ KMALLOC_POOL_SIZE > HEADER
  /\ PoolBases \subseteq Nat
  /\ \A b \in PoolBases :
       b % KMALLOC_ALIGN = 0 /\ NULL \notin b .. b + KMALLOC_POOL_SIZE - 1
  /\ \A b, c \in PoolBases : b < c => b + KMALLOC_POOL_SIZE <= c
  /\ SIZE_WORD \in Nat \ {0} /\ Sizes \subseteq 1 .. SIZE_WORD - 1

VARIABLES
  g_initialized,
  pools,          \* the pools expand_pool has got
  block,          \* block[a]: size, next_phys and free of the header at a
  magic,          \* magic[a]: what kfree would read as the magic of a header at a
  g_free_list,    \* the free list, from its head
  merging,        \* the block kfree is coalescing, or NULL
  owned,          \* owned[p]: the size asked for, for every live pointer p
  stale           \* pointers that were freed and whose header bytes no caller
                  \*   has been given since

vars == <<g_initialized, pools, block, magic, g_free_list, merging, owned, stale>>

FREE  == "FREE"     \* KMALLOC_MAGIC_FREE
USED  == "USED"     \* KMALLOC_MAGIC_USED
Other == "other"    \* zero, or any other content

KMALLOC_MIN_SPLIT == HEADER + KMALLOC_ALIGN

\* The addresses a header can have.
Slots == {a \in UNION {b .. b + KMALLOC_POOL_SIZE - 1 : b \in PoolBases} : a % KMALLOC_ALIGN = 0}

\* The sum is a size_t: it wraps for the last a - 1 sizes, which become 0.
align_up_sz(v, a) == (((v + a - 1) % SIZE_WORD) \div a) * a

Wraps(n) == n + KMALLOC_ALIGN - 1 >= SIZE_WORD

Init ==
  /\ g_initialized = FALSE
  /\ pools = {}
  /\ block = [a \in {} |-> NULL]
  /\ magic = [a \in Slots |-> Other]
  /\ g_free_list = <<>>
  /\ merging = NULL
  /\ owned = [p \in {} |-> 0]
  /\ stale = {}

-----------------------------------------------------------------------------
(* The heap as a record [init, pools, block, magic, list], and the          *)
(* functions of kmalloc.c as operators on it.                              *)

Heap == [init |-> g_initialized, pools |-> pools, block |-> block,
         magic |-> magic, list |-> g_free_list]

\* Mutant: the magic is left as it was.
FreeListInsertKeepsMagic(h, a) ==
  [h EXCEPT !.block[a].free = TRUE, !.list = <<a>> \o @]

FreeListInsert(h, a) ==
  [h EXCEPT !.block[a].free = TRUE, !.magic[a] = FREE, !.list = <<a>> \o @]

\* Mutant: the list is cut at the block instead of relinked around it.
FreeListRemoveCuts(h, a) ==
  [h EXCEPT !.list = SubSeq(@, 1, CHOOSE i \in 1 .. Len(@) + 1 : i > Len(@) \/ @[i] = a)]

FreeListRemove(h, a) ==
  [h EXCEPT !.list = RemoveAt(@, CHOOSE i \in 1 .. Len(@) : @[i] = a)]

\* A new header at a.  Whatever was in its bytes is gone.
WriteHeader(h, a, size, next) ==
  [h EXCEPT !.block = [x \in DOMAIN @ \cup {a} |->
                         IF x = a THEN [size |-> size, next_phys |-> next, free |-> TRUE]
                                  ELSE @[x]],
            !.magic = [x \in Slots |-> IF x \in a .. a + HEADER - 1 THEN Other ELSE @[x]]]

\* expand_pool, when vmalloc returns b.
ExpandPool(h, b) ==
  FreeListInsert(
    [WriteHeader(h, b, KMALLOC_POOL_SIZE - HEADER, NULL) EXCEPT !.pools = @ \cup {b}], b)

\* What expand_pool may do; nothing if vmalloc fails, which it may at any time.
Expansions(h) == {ExpandPool(h, b) : b \in PoolBases \ h.pools}

\* kmalloc_init_locked, where it returns true.
Initialised(h) ==
  IF h.init THEN {h} ELSE {[e EXCEPT !.init = TRUE] : e \in Expansions(h)}

\* Mutant: the header is counted as room for the payload.
FitsWithHeader(h, size) ==
  {i \in 1 .. Len(h.list) : h.block[h.list[i]].size + HEADER >= size}

\* The positions of the blocks in the free list that are large enough.
Fits(h, size) == {i \in 1 .. Len(h.list) : h.block[h.list[i]].size >= size}

\* b is the first block of the list that is large enough.
FirstFit(h, size, b) ==
  \E i \in Fits(h, size) : (\A j \in Fits(h, size) : i <= j) /\ b = h.list[i]

Splits(h, b, size) == h.block[b].size - size >= KMALLOC_MIN_SPLIT

\* The split of block b after size bytes of payload.
Split(h, b, size) ==
  LET s == b + HEADER + size
      w == WriteHeader(h, s, h.block[b].size - size - HEADER, h.block[b].next_phys)
  IN FreeListInsert([w EXCEPT !.block[b].size = size, !.block[b].next_phys = s], s)

\* Block b is handed out.
HandOut(h, b, size) ==
  LET h1 == IF Splits(h, b, size) THEN Split(h, b, size) ELSE h
      h2 == FreeListRemove(h1, b)
  IN [h2 EXCEPT !.block[b].free = FALSE, !.magic[b] = USED]

Becomes(h) ==
  /\ g_initialized' = h.init
  /\ pools' = h.pools
  /\ block' = h.block
  /\ magic' = h.magic
  /\ g_free_list' = h.list

-----------------------------------------------------------------------------
Unlocked == merging = NULL

\* The heaps the second attempt of kmalloc may search.
Retries(h) == Expansions(h) \cup {h}

\* kmalloc(n) returns a block, of the first attempt or of the second.
KmallocOk(n) ==
  /\ Unlocked
  /\ LET size == align_up_sz(n, KMALLOC_ALIGN)
     IN \E h \in Initialised(Heap) :
        \E g \in IF Fits(h, size) # {} THEN {h} ELSE Retries(h) :
        \E b \in ToSet(g.list) :
          /\ FirstFit(g, size, b)
          /\ LET p == b + HEADER
                 h2 == HandOut(g, b, size)
                 given == p .. p + h2.block[b].size - 1
             IN /\ Becomes(h2)
                /\ owned' = [q \in DOMAIN owned \cup {p} |-> IF q = p THEN n ELSE owned[q]]
                /\ stale' = {q \in stale \ {p} : (q - HEADER .. q - 1) \cap given = {}}
  /\ UNCHANGED merging

\* kmalloc(n) returns NULL; a pool it added to try again stays.
KmallocNull(n) ==
  /\ Unlocked
  /\ LET size == align_up_sz(n, KMALLOC_ALIGN)
     IN \E h \in Initialised(Heap) :
          /\ Fits(h, size) = {}
          /\ \E g \in Retries(h) : Fits(g, size) = {} /\ Becomes(g)
  /\ UNCHANGED <<merging, owned, stale>>

\* kmalloc_init.
KmallocInit ==
  /\ Unlocked
  /\ ~g_initialized
  /\ \E h \in Initialised(Heap) : Becomes(h)
  /\ UNCHANGED <<merging, owned, stale>>

\* The integrity checks of kfree on the header at b.
Accepts(b) == magic[b] = USED /\ ~block[b].free

\* kfree(p), for a p it accepts: the block goes to the front of the free list.
\* Otherwise kfree logs the mistake and leaves the heap alone.
Kfree(p) ==
  /\ Unlocked
  /\ Accepts(p - HEADER)
  /\ Becomes(FreeListInsert(Heap, p - HEADER))
  /\ merging' = p - HEADER
  /\ owned' = [q \in DOMAIN owned \ {p} |-> owned[q]]
  /\ stale' = stale \cup {p}

NextFree(b) == block[b].next_phys # NULL /\ block[block[b].next_phys].free

\* Mutant: only the payload of the absorbed block is added.
MergedSizeNoHeader(b, next) == block[b].size + block[next].size

MergedSize(b, next) == block[b].size + HEADER + block[next].size

\* One round of kfree's loop: the next block is absorbed.
Absorb ==
  /\ merging # NULL
  /\ NextFree(merging)
  /\ LET next == block[merging].next_phys
         h1 == FreeListRemove(Heap, next)
         grown == [block[merging] EXCEPT !.size = MergedSize(merging, next),
                                         !.next_phys = block[next].next_phys]
     IN Becomes([h1 EXCEPT
                   !.block = [a \in DOMAIN @ \ {next} |-> IF a = merging THEN grown ELSE @[a]],
                   !.magic[next] = Other])
  /\ UNCHANGED <<merging, owned, stale>>

\* The loop ends, and the lock is released.
KfreeReturns ==
  /\ merging # NULL
  /\ ~NextFree(merging)
  /\ merging' = NULL
  /\ UNCHANGED <<g_initialized, pools, block, magic, g_free_list, owned, stale>>

Next ==
  \/ KmallocInit
  \/ \E n \in Sizes : KmallocOk(n) \/ KmallocNull(n)
  \/ \E p \in DOMAIN owned \cup stale : Kfree(p)
  \/ Absorb
  \/ KfreeReturns

Spec == Init /\ [][Next]_vars

-----------------------------------------------------------------------------
(* Properties.                                                             *)

\* No pointer of the heap dangles: next_phys, the free list and the pointers
\* callers hold all lead to block headers that exist.
TypeOK ==
  /\ g_initialized \in BOOLEAN
  /\ pools \subseteq PoolBases
  /\ DOMAIN block \subseteq Slots
  /\ \A a \in DOMAIN block :
       /\ block[a].size \in Nat /\ block[a].size % KMALLOC_ALIGN = 0
       /\ block[a].next_phys \in DOMAIN block \cup {NULL}
       /\ block[a].free \in BOOLEAN
  /\ magic \in [Slots -> {FREE, USED, Other}]
  /\ g_free_list \in Seq(DOMAIN block)
  /\ merging \in DOMAIN block \cup {NULL}
  /\ DOMAIN owned \subseteq {a + HEADER : a \in DOMAIN block}
  /\ \A p \in DOMAIN owned : owned[p] \in Sizes

End(a) == a + HEADER + block[a].size

\* The state is well typed and the blocks tile every pool: each ends where the next one in memory starts,
\* and the last one at the end of its pool.  No split or merge loses a byte
\* or lets two blocks overlap.
Tiling ==
  /\ TypeOK
  /\ pools \subseteq DOMAIN block
  /\ \A a \in DOMAIN block :
       \E b \in pools :
         /\ b <= a /\ End(a) <= b + KMALLOC_POOL_SIZE
         /\ IF block[a].next_phys = NULL THEN End(a) = b + KMALLOC_POOL_SIZE
                                         ELSE block[a].next_phys = End(a)
  /\ \A a, c \in DOMAIN block : a < c => End(a) <= c

\* The free list holds exactly the free blocks, each once; a block is free or
\* has a live pointer, and its magic says which.
FreeListExact ==
  /\ ToSet(g_free_list) = {a \in DOMAIN block : block[a].free}
  /\ Len(g_free_list) = Cardinality(ToSet(g_free_list))
  /\ \A a \in DOMAIN block :
       /\ block[a].free <=> a + HEADER \notin DOMAIN owned
       /\ magic[a] = IF block[a].free THEN FREE ELSE USED

\* "Lets kfree() catch the most common corruption / double-free mistakes" and
\* "Invalidate the absorbed header so stale pointers are caught": kfree of a
\* pointer that was freed before is rejected as long as the bytes of its
\* header have not been handed out, wherever splits and merges have since
\* written headers.
StaleCaught == \A p \in stale : magic[p - HEADER] # USED

\* The regions of the callers whose size kmalloc has rounded up.  The others,
\* who asked for one of the last KMALLOC_ALIGN - 1 sizes, hold a block with no
\* room they can count on where NULL would be right.
Regions == [p \in {q \in DOMAIN owned : ~Wraps(owned[q])} |-> owned[p]]

Allocator ==
  INSTANCE RegionAllocator
    WITH Memory <- UNION {b .. b + KMALLOC_POOL_SIZE - 1 : b \in PoolBases},
         Align <- KMALLOC_ALIGN, regions <- Regions

\* Callers whose size does not wrap see an allocator of disjoint aligned
\* regions, whatever blocks kmalloc makes for the callers whose size does.
Refinement == Allocator!Spec

=============================================================================
