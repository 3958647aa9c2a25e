------------------------------- MODULE Paging -------------------------------
(***************************************************************************)
(* mm/paging.c: paging_init, which builds the kernel's own page tables     *)
(* from the boot loader's and switches to them, and the calls that map,    *)
(* unmap and protect pages.  Every call runs under g_paging_lock and is    *)
(* one step; paging_init, which holds it throughout, takes a step per page *)
(* it maps.  A state in which panic() was called is final.                 *)
(***************************************************************************)
EXTENDS PageTables

CONSTANTS
  Boots,            \* what the boot loader may hand over, see boot
  Targets,          \* frames callers map pages to
  FlagSets,         \* sets of flags callers pass
  Lengths           \* lengths of the ranges callers pass

TwoMibLimit(b) == IF b.hhdm % FANOUT = 0 THEN b.span - (b.span % FANOUT) ELSE 0

\* The kernel image is outside the direct map, and callers leave alone what
\* the direct map has in small pages.
ASSUME PagingAssumption ==
  /\ Targets \subseteq Nat /\ Lengths \subseteq Nat \ {0}
  /\ \A b \in Boots :
       /\ DOMAIN b.old \cup b.kernel \cup b.preserved \cup b.pages \subseteq VirtualPages
       /\ \A v \in DOMAIN b.old : b.old[v] \in Nat
       /\ b.hhdm \in Nat /\ b.span \in Nat
       /\ b.hhdm .. b.hhdm + b.span - 1 \subseteq VirtualPages
       /\ b.kernel \cap (b.hhdm .. b.hhdm + b.span - 1) = {}
       /\ b.pages \cap (b.hhdm + TwoMibLimit(b) .. b.hhdm + b.span - 1) = {}
       /\ b.free \cup b.reclaimed \subseteq 1 .. b.span - 1
       /\ b.free \cap b.reclaimed = {}

VARIABLES
  boot,           \* old: the boot loader's map, a function from pages to
                  \*   frames; kernel: the pages of the kernel image; hhdm and
                  \*   span: first page and length of the direct map;
                  \*   preserved: pages of the stack window and the frame
                  \*   buffer; free: frames the allocator has; reclaimed:
                  \*   frames the reclaiming gives it; pages: what callers map
  pg,             \* the page tables, see PageTables
  todo,           \* what paging_init has still to map
  ready           \* g_paging_initialized

vars == <<boot, pg, todo, ready>>

KernelFlags == {"WRITABLE", "GLOBAL"}

\* Mutant: an existing mapping is not looked at.
EnsurePageMappingBlind(s, v, p) == Map4k(s, v, p, KernelFlags)

\* ensure_page_mapping.
EnsurePageMapping(s, v, p) ==
  IF Mapped(s, v)
    THEN [s EXCEPT !.panic = Translate(s, v).to # p]
    ELSE Map4k(s, v, p, KernelFlags)

-----------------------------------------------------------------------------
Init ==
  /\ boot \in Boots
  /\ pg = [root |-> 0, tab |-> [f \in {} |-> EmptyTable], free |-> boot.free,
           tables |-> 0, nx |-> FALSE, panic |-> FALSE]
  /\ todo = {}
  /\ ready = FALSE

Each(kind, S) == {[kind |-> kind, page |-> v] : v \in S}

\* What paging_init maps: the kernel, the direct map with large pages as far as
\* they fit and then with small ones, the stack window and the frame buffer.
Work ==
  LET limit == TwoMibLimit(boot)
      hhdm(P) == {boot.hhdm + p : p \in P}
  IN Each("kernel", boot.kernel)
       \cup Each("large", hhdm({p \in 0 .. limit - 1 : p % FANOUT = 0}))
       \cup Each("small", hhdm(limit .. boot.span - 1))
       \cup Each("preserve", boot.preserved)

\* The order of its loops: one after the other, and upwards in each.
Rank(w) ==
  CASE w.kind = "kernel" -> 1 [] w.kind = "large" -> 2
    [] w.kind = "small" -> 3 [] w.kind = "preserve" -> 4
NotAfter(w, x) == Rank(w) < Rank(x) \/ (Rank(w) = Rank(x) /\ w.page <= x.page)

\* paging_init up to the new root.
PagingInit ==
  /\ ~ready /\ ~pg.panic /\ pg.root = 0
  /\ LET s == AllocTablePage(pg)
     IN pg' = IF s.panic THEN s ELSE [s EXCEPT !.root = Min(pg.free)]
  /\ todo' = Work
  /\ UNCHANGED <<boot, ready>>

\* These pages are mapped as they were; that they were not is a panic.
MissingInOld(w) == w.kind \in {"kernel", "preserve"} /\ w.page \notin DOMAIN boot.old

\* One round of the loops of map_kernel_range_from_old_cr3, map_hhdm_range and
\* map_range_from_old_cr3.
PagingInitMap ==
  /\ ~ready /\ ~pg.panic
  /\ \E w \in todo :
       /\ \A x \in todo : NotAfter(w, x)
       /\ LET v == w.page
          IN pg' = CASE MissingInOld(w) -> [pg EXCEPT !.panic = TRUE]
                     [] w.kind = "kernel" /\ ~MissingInOld(w) ->
                          Map4k(pg, v, boot.old[v], KernelFlags)
                     [] w.kind = "large" -> Map2m(pg, v, v - boot.hhdm, KernelFlags)
                     [] w.kind = "small" -> Map4k(pg, v, v - boot.hhdm, KernelFlags)
                     [] w.kind = "preserve" /\ ~MissingInOld(w) ->
                          EnsurePageMapping(pg, v, boot.old[v])
       /\ todo' = todo \ {w}
  /\ UNCHANGED <<boot, ready>>

\* The rest of paging_init: the switch to the new tables and the reclaiming of
\* the boot loader's memory.
PagingInitSwitch ==
  /\ ~ready /\ ~pg.panic /\ pg.root # 0 /\ todo = {}
  /\ pg' = [pg EXCEPT !.free = @ \cup boot.reclaimed]
  /\ ready' = TRUE
  /\ UNCHANGED <<boot, todo>>

\* paging_set_nx_enabled.
SetNx(on) ==
  /\ ready /\ ~pg.panic
  /\ pg' = [pg EXCEPT !.nx = on]
  /\ UNCHANGED <<boot, todo, ready>>

-----------------------------------------------------------------------------
\* The call is over and leaves the tables as r says.
Returns(r) ==
  /\ ready /\ ~pg.panic
  /\ pg' = r.s
  /\ UNCHANGED <<boot, todo, ready>>

MapPage(v, p, flags) == Returns(MapPageLocked(pg, v, p, flags))
MapRange(v, p, n, flags) == Returns(MapRangeLocked(pg, v, p, n, flags))
UnmapPage(v) == Returns(UnmapPageLocked(pg, v))
ProtectPage(v, flags) == Returns(ProtectPageLocked(pg, v, flags))
ProtectRange(v, n, flags) == Returns(ProtectRangeLocked(pg, v, n, flags))

\* The first pages of the ranges of n pages callers own.
RangesOf(n) == {v \in boot.pages : v .. v + n - 1 \subseteq boot.pages}

Next ==
  \/ PagingInit
  \/ PagingInitMap
  \/ PagingInitSwitch
  \/ \E on \in BOOLEAN : SetNx(on)
  \/ \E v \in boot.pages, p \in Targets, f \in FlagSets : MapPage(v, p, f)
  \/ \E n \in Lengths, p \in Targets, f \in FlagSets :
       \E v \in RangesOf(n) : MapRange(v, p, n, f)
  \/ \E v \in boot.pages : UnmapPage(v)
  \/ \E v \in boot.pages, f \in FlagSets : ProtectPage(v, f)
  \/ \E n \in Lengths, f \in FlagSets : \E v \in RangesOf(n) : ProtectRange(v, n, f)

Spec == Init /\ [][Next]_vars

-----------------------------------------------------------------------------
(* Properties.                                                             *)

\* The tables hold entries, the allocator has frames it was given.
TypeOK ==
  /\ boot \in Boots /\ ready \in BOOLEAN
  /\ pg.root \in DOMAIN pg.tab \cup {0}
  /\ pg.free \subseteq boot.free \cup boot.reclaimed
  /\ pg.tables \in Nat /\ pg.nx \in BOOLEAN /\ pg.panic \in BOOLEAN
  /\ \A t \in DOMAIN pg.tab :
       /\ DOMAIN pg.tab[t] = 0 .. FANOUT - 1
       /\ \A i \in 0 .. FANOUT - 1 :
            LET e == pg.tab[t][i]
            IN e.to \in Nat /\ e.ps \in BOOLEAN /\ (e = ZERO \/ Present(e))

\* The entries of the tables T that point to tables, as pairs of a table and
\* an index, and the tables they point to.
Links(T) ==
  {x \in T \X (0 .. FANOUT - 1) : Present(pg.tab[x[1]][x[2]]) /\ ~pg.tab[x[1]][x[2]].ps}
Children(T) == {pg.tab[x[1]][x[2]].to : x \in Links(T)}

\* Those of the upper three levels.
TableEntries ==
  LET l4 == {pg.root}
      l3 == Children(l4)
      l2 == Children(l3)
  IN Links(l4 \cup l3 \cup l2)

\* The state is well typed and the tables form a tree below the root, after any history of calls: every
\* table has one parent entry and a use, none of them is free for others,
\* no entry points to a page that was freed, no frame is lost between tables
\* and allocator, and table_pages_allocated counts the tables.
TablesFormTree ==
  /\ TypeOK
  /\ ready =>
    /\ \A d \in TableEntries : pg.tab[d[1]][d[2]].to \in DOMAIN pg.tab \ {pg.root}
    /\ \A t \in DOMAIN pg.tab \ {pg.root} :
         /\ Cardinality({d \in TableEntries : pg.tab[d[1]][d[2]].to = t}) = 1
         /\ pg.panic \/ ~IsTableEmpty(pg, t)
    /\ DOMAIN pg.tab \cap pg.free = {}
    /\ DOMAIN pg.tab \cup pg.free = boot.free \cup boot.reclaimed
    /\ pg.tables = Cardinality(DOMAIN pg.tab)

\* After paging_init switched tables, the kernel, its stack and the frame
\* buffer are where the boot loader had them and the direct map shows every
\* frame at its offset; no later call for other pages changes that.
BootMapKept ==
  ready =>
    /\ \A v \in (boot.kernel \cup boot.preserved) \ boot.pages :
         Translate(pg, v).to = boot.old[v]
    /\ \A p \in 0 .. boot.span - 1 :
         Mapped(pg, boot.hhdm + p) /\ Translate(pg, boot.hhdm + p).to = p

\* User code can reach v: PAGE_USER on every level.
UserReaches(s, v) ==
  /\ Mapped(s, v)
  /\ \A e \in {Pml4e(s, v), Pdpte(s, v), Pde(s, v), Translate(s, v)} : "USER" \in e.flags

\* A page that paging_map_page or paging_map_range maps for the user is
\* reachable at once, although kernel mappings may have made its tables, and
\* stays so until it is unmapped or protected from the user, whatever happens to
\* the pages that share its tables.  A page that has PAGE_USER and is out of
\* reach is one that was mapped for the kernel and that paging_protect_page,
\* which walks to the PTE with user = false, has given to the user.
UserMapsReachable ==
  [][ready => \A v \in boot.pages :
       LET was == Translate(pg, v)
           now == Translate(pg', v)
       IN "USER" \in now.flags /\ ~UserReaches(pg', v)
            => \/ Mapped(pg, v) /\ "USER" \notin was.flags /\ now.to = was.to
               \/ "USER" \in was.flags /\ ~UserReaches(pg, v)]_vars

AddressMap ==
  LET T == [v \in VirtualPages |-> Translate(pg, v)]
  IN [v \in {u \in VirtualPages : Present(T[u])} |-> T[v]]

\* Before the switch of paging_init the kernel's tables are not in use.
Visible == IF ready THEN AddressMap ELSE [v \in {} |-> Unmapped]

Space == INSTANCE AddressSpace WITH space <- Visible

\* Callers see a partial map: allocating and freeing tables, retrofitting
\* flags in shared tables, and failing half way through a range never change
\* the translation of a page that was not asked about.
Refinement == Space!Spec

\* "GLOBAL and USER are mutually exclusive" (paging_map_page_locked).
GlobalNotUser ==
  ready => \A v \in boot.pages : ~({"GLOBAL", "USER"} \subseteq Translate(pg, v).flags)

=============================================================================
