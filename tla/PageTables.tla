----------------------------- MODULE PageTables -----------------------------
(***************************************************************************)
(* The four-level page tables of mm/paging.c as data: the walk, mapping,   *)
(* unmapping and protecting of 4 KiB pages, with tables allocated on the   *)
(* way down and freed when they become empty.                              *)
(*                                                                         *)
(* Addresses are page numbers, virtual ones and physical ones (frames).  A *)
(* table has FANOUT entries, 512 in the code.  The operators work on a     *)
(* state s: root (root_pml4_phys), tab (the tables by frame), free (the    *)
(* frames the physical allocator has), tables (table_pages_allocated), nx  *)
(* (g_nx_enabled) and panic.  The physical allocator returns the lowest    *)
(* free frame, as Pmm shows it does.                                       *)
(***************************************************************************)
EXTENDS Integers, FiniteSetsExt

CONSTANT FANOUT

ASSUME FanoutAssumption == FANOUT \in Nat \ {0, 1}

VirtualPages == 0 .. FANOUT * FANOUT * FANOUT * FANOUT - 1

\* An entry; "PRESENT" is one of its flags, ps is PAGE_PS.
ZERO == [to |-> 0, ps |-> FALSE, flags |-> {}]
Present(e) == "PRESENT" \in e.flags

EmptyTable == [i \in 0 .. FANOUT - 1 |-> ZERO]

Index(v, level) ==
  CASE level = 4 -> (v \div (FANOUT * FANOUT * FANOUT)) % FANOUT
    [] level = 3 -> (v \div (FANOUT * FANOUT)) % FANOUT
    [] level = 2 -> (v \div FANOUT) % FANOUT
    [] level = 1 -> v % FANOUT

Pml4e(s, v) == s.tab[s.root][Index(v, 4)]
Pdpte(s, v) == s.tab[Pml4e(s, v).to][Index(v, 3)]
Pde(s, v)   == s.tab[Pdpte(s, v).to][Index(v, 2)]
Pte(s, v)   == s.tab[Pde(s, v).to][Index(v, 1)]

Unmapped == [to |-> 0, flags |-> {}]

\* translate_with_cr3, with the flags of the entry it ends at.  The kernel's
\* tables have no 1 GiB pages.
Translate(s, v) ==
  LET e4 == Pml4e(s, v)
      e3 == s.tab[e4.to][Index(v, 3)]
      e2 == s.tab[e3.to][Index(v, 2)]
      e1 == s.tab[e2.to][Index(v, 1)]
  IN IF ~Present(e4) \/ ~Present(e3) \/ ~Present(e2) THEN Unmapped
     ELSE IF e2.ps THEN [to |-> e2.to + Index(v, 1), flags |-> e2.flags]
     ELSE [to |-> e1.to, flags |-> e1.flags]

Mapped(s, v) == Present(Translate(s, v))

-----------------------------------------------------------------------------
(* Tables.  A state with panic set is final: the machine halts.            *)

SetEntry(s, t, i, e) == [s EXCEPT !.tab[t][i] = e]

\* Mutant: PAGE_USER is set only in entries that are created.
RetrofitNever(s, t, i, user) == s

\* A present entry on the way to a user mapping gets PAGE_USER.
Retrofit(s, t, i, user) ==
  IF user THEN [s EXCEPT !.tab[t][i].flags = @ \cup {"USER"}] ELSE s

\* alloc_table_page: the lowest free frame becomes an empty table.
AllocTablePage(s) ==
  IF s.free = {} THEN [s EXCEPT !.panic = TRUE]
  ELSE [s EXCEPT !.free = @ \ {Min(s.free)},
                 !.tables = @ + 1,
                 !.tab = [t \in DOMAIN @ \cup {Min(s.free)} |->
                            IF t = Min(s.free) THEN EmptyTable ELSE @[t]]]

TableEntry(t, user) ==
  [to |-> t, ps |-> FALSE,
   flags |-> {"PRESENT", "WRITABLE"} \cup (IF user THEN {"USER"} ELSE {})]

\* get_or_create_table(parent t, index i).
GetOrCreate(s, t, i, user) ==
  LET e == s.tab[t][i]
      s1 == AllocTablePage(s)
  IN IF Present(e)
       THEN IF e.ps THEN [s EXCEPT !.panic = TRUE] ELSE Retrofit(s, t, i, user)
       ELSE IF s1.panic THEN s1 ELSE SetEntry(s1, t, i, TableEntry(Min(s.free), user))

\* The upper two levels of the walk, and all three, creating what is missing.
WalkToPd(s, v, user) ==
  LET s1 == GetOrCreate(s, s.root, Index(v, 4), user)
  IN IF s1.panic THEN s1 ELSE GetOrCreate(s1, Pml4e(s1, v).to, Index(v, 3), user)

WalkToPt(s, v, user) ==
  LET s1 == WalkToPd(s, v, user)
  IN IF s1.panic THEN s1 ELSE GetOrCreate(s1, Pdpte(s1, v).to, Index(v, 2), user)

\* paging_flags_to_hw, with PAGE_PRESENT.
FlagsToHw(s, flags) ==
  (flags \ {"EXEC"}) \cup (IF "EXEC" \notin flags /\ s.nx THEN {"NX"} ELSE {}) \cup {"PRESENT"}

\* map_page_4k of paging_init.
Map4k(s, v, p, hw) ==
  LET s1 == WalkToPt(s, v, FALSE)
  IN IF s1.panic THEN s1
     ELSE SetEntry(s1, Pde(s1, v).to, Index(v, 1),
                   [to |-> p, ps |-> FALSE, flags |-> hw \cup {"PRESENT"}])

\* map_page_2m.
Map2m(s, v, p, hw) ==
  LET s1 == WalkToPd(s, v, FALSE)
  IN IF v % FANOUT # 0 \/ p % FANOUT # 0 THEN [s EXCEPT !.panic = TRUE]
     ELSE IF s1.panic THEN s1
     ELSE SetEntry(s1, Pdpte(s1, v).to, Index(v, 2),
                   [to |-> p, ps |-> TRUE, flags |-> hw \cup {"PRESENT"}])

-----------------------------------------------------------------------------
(* Mapping, unmapping and protecting one page: the new state and whether   *)
(* the call returned true.                                                 *)

Fails(s) == [s |-> s, ok |-> FALSE]
Works(s) == [s |-> s, ok |-> TRUE]

\* The early returns of paging_map_page_locked.
Refuses(s, v, flags) == {"GLOBAL", "USER"} \subseteq flags \/ Mapped(s, v)

\* paging_map_page_locked.
MapPageLocked(s, v, p, flags) ==
  IF Refuses(s, v, flags) THEN Fails(s)
  ELSE LET s1 == WalkToPt(s, v, "USER" \in flags)
       IN IF s1.panic THEN Fails(s1)
          ELSE Works(SetEntry(s1, Pde(s1, v).to, Index(v, 1),
                              [to |-> p, ps |-> FALSE, flags |-> FlagsToHw(s, flags)]))

\* walk_to_pte without creating, and the test that the page is present.
HasPte(s, v) == Mapped(s, v) /\ ~Pde(s, v).ps

\* is_table_empty.
IsTableEmpty(s, t) == s.tab[t] = EmptyTable

\* The table t goes back to the allocator and its parent's entry is cleared.
FreeTable(s, t, parent, i) ==
  [s EXCEPT !.free = @ \cup {t},
            !.tables = @ - 1,
            !.tab = [x \in DOMAIN @ \ {t} |->
                       IF x = parent THEN [@[x] EXCEPT ![i] = ZERO] ELSE @[x]]]

\* Mutant: only the lowest level is freed.
FreeEmptyTablesLowest(s, v) ==
  IF IsTableEmpty(s, Pde(s, v).to)
    THEN FreeTable(s, Pde(s, v).to, Pdpte(s, v).to, Index(v, 2)) ELSE s

\* Mutant: a directory is freed with its last table, empty or not.
FreeEmptyTablesEager(s, v) ==
  LET pdpt == Pml4e(s, v).to
      pd == Pdpte(s, v).to
      pt == Pde(s, v).to
  IN IF ~IsTableEmpty(s, pt) THEN s
     ELSE FreeTable(FreeTable(s, pt, pd, Index(v, 2)), pd, pdpt, Index(v, 3))

\* free_empty_tables.
FreeEmptyTables(s, v) ==
  LET pdpt == Pml4e(s, v).to
      pd == Pdpte(s, v).to
      pt == Pde(s, v).to
      s1 == FreeTable(s, pt, pd, Index(v, 2))
      s2 == FreeTable(s1, pd, pdpt, Index(v, 3))
      s3 == FreeTable(s2, pdpt, s.root, Index(v, 4))
  IN IF ~IsTableEmpty(s, pt) THEN s
     ELSE IF ~IsTableEmpty(s1, pd) THEN s1
     ELSE IF ~IsTableEmpty(s2, pdpt) THEN s2
     ELSE s3

\* paging_unmap_page_locked.
UnmapPageLocked(s, v) ==
  IF ~HasPte(s, v) THEN Fails(s)
  ELSE Works(FreeEmptyTables(SetEntry(s, Pde(s, v).to, Index(v, 1), ZERO), v))

\* paging_protect_page_locked.
ProtectPageLocked(s, v, flags) ==
  IF ~HasPte(s, v) THEN Fails(s)
  ELSE Works(SetEntry(s, Pde(s, v).to, Index(v, 1),
                      [Pte(s, v) EXCEPT !.flags = FlagsToHw(s, flags)]))

\* The loop of paging_map_range stops at the first failure and leaves what it
\* has mapped.
MapRangeLocked(s, v, p, n, flags) ==
  LET done[i \in 0 .. n] ==
        IF i = 0 THEN Works(s)
        ELSE IF done[i - 1].ok
          THEN MapPageLocked(done[i - 1].s, v + i - 1, p + i - 1, flags)
          ELSE done[i - 1]
  IN done[n]

\* The loop of paging_protect_range goes on.
ProtectRangeLocked(s, v, n, flags) ==
  LET done[i \in 0 .. n] ==
        IF i = 0 THEN Works(s)
        ELSE LET r == ProtectPageLocked(done[i - 1].s, v + i - 1, flags)
             IN [s |-> r.s, ok |-> done[i - 1].ok /\ r.ok]
  IN done[n]

=============================================================================
