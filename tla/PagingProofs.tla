---------------------------- MODULE PagingProofs ----------------------------
(***************************************************************************)
(* Proofs about the page tables, for tables of any size, any boot          *)
(* situation and any calls: the tables stay a tree, the boot mappings stay *)
(* in place, user pages stay reachable, and callers see a partial map.     *)
(***************************************************************************)
EXTENDS Paging, FiniteSetTheorems, WellFoundedInduction, TLAPS

\* A leaf is for Zenon unless it names another prover.
USE Zenon

-----------------------------------------------------------------------------
(* Numbers.                                                                *)

\* A set of natural numbers that is not empty has a smallest element.
LEMMA Smallest ==
  ASSUME NEW T, T \subseteq Nat, T # {}
  PROVE  \E x \in T : \A y \in T : x <= y
<1>1. IsWellFoundedOn(OpToRel(<,Nat), Nat)
  BY NatLessThanWellFounded
<1>2. \E x \in T : \A y \in T : ~(<<y, x>> \in OpToRel(<,Nat))
  BY <1>1, WFMin
<1>3. \A x, y \in Nat : y < x => <<y, x>> \in OpToRel(<,Nat)
  BY DEF OpToRel
<1>4. \E x \in T : \A y \in T : ~(y < x)
  BY <1>2, <1>3
<1> QED BY <1>4, SMT

\* Min, of a set of frames.
LEMMA MinIs ==
  ASSUME NEW T, T \subseteq Nat, T # {}
  PROVE  Min(T) \in T
<1>1. \E x \in T : \A y \in T : x <= y
  BY Smallest
<1> QED BY <1>1 DEF Min

\* Division with remainder, by any divisor.
LEMMA Division ==
  ASSUME NEW m \in Nat \ {0}, NEW a \in Nat
  PROVE  a \div m \in Nat /\ a % m \in 0 .. m - 1 /\ a = (a \div m) * m + (a % m)
BY SMT

LEMMA OneQuotient ==
  ASSUME NEW m \in Nat \ {0}, NEW k \in Nat, NEW n \in Nat,
         NEW i \in 0 .. m - 1, NEW j \in 0 .. m - 1, k * m + i = n * m + j
  PROVE  k = n /\ i = j
<1>1. ASSUME NEW x \in Nat, NEW y \in Nat, NEW p \in 0 .. m - 1, NEW q \in 0 .. m - 1,
             x < y
      PROVE  x * m + p < y * m + q
  <2>1. PICK d \in Nat : y = x + 1 + d
    BY <1>1, SMT
  <2>2. y * m = x * m + m + d * m
    BY <2>1, SMT
  <2>3. d * m \in Nat /\ x * m \in Nat
    BY SMT
  <2> QED BY <2>2, <2>3, SMT
<1>2. k * m + i \in Nat /\ n * m + j \in Nat
  BY SMT
<1>3. ~(k < n) /\ ~(n < k)
  BY <1>1, <1>2, SMT
<1> QED BY <1>3, SMT

LEMMA Quotient ==
  ASSUME NEW m \in Nat \ {0}, NEW k \in Nat, NEW i \in 0 .. m - 1
  PROVE  (k * m + i) \div m = k /\ (k * m + i) % m = i
<1> DEFINE a == k * m + i
<1>1. a \in Nat
  BY SMT
<1>2. a \div m \in Nat /\ a % m \in 0 .. m - 1 /\ k * m + i = (a \div m) * m + (a % m)
  BY <1>1, Division
<1> HIDE DEF a
<1>3. k = a \div m /\ i = a % m
  BY <1>2, OneQuotient, SMT
<1> QED BY <1>3 DEF a

\* Dividing by m * n is dividing twice.
LEMMA TwoDivisions ==
  ASSUME NEW m \in Nat \ {0}, NEW n \in Nat \ {0}, NEW a \in Nat
  PROVE  a \div (m * n) = (a \div m) \div n
<1> DEFINE q == a \div m
           i == a % m
           b == q \div n
           j == q % n
<1>1. q \in Nat /\ i \in 0 .. m - 1 /\ a = q * m + i
  BY Division
<1> HIDE DEF q, i
<1>2. b \in Nat /\ j \in 0 .. n - 1 /\ q = b * n + j
  BY <1>1, Division
<1> HIDE DEF b, j
<1>3. a = b * (m * n) + (j * m + i)
  <2>1. q * m = (b * n) * m + j * m
    BY <1>2, SMT
  <2>2. (b * n) * m = b * (m * n)
    BY <1>2, SMT
  <2> QED BY <1>1, <1>2, <2>1, <2>2, SMT
<1>4. m * n \in Nat \ {0} /\ j * m + i \in 0 .. (m * n) - 1
  <2>1. PICK d \in Nat : n = j + 1 + d
    BY <1>2, SMT
  <2>2. m * n = j * m + m + d * m
    BY <2>1, <1>2, SMT
  <2>3. d * m \in Nat /\ j * m \in Nat
    BY <2>1, <1>2, SMT
  <2> QED BY <2>2, <2>3, <1>1, SMT
<1>5. (b * (m * n) + (j * m + i)) \div (m * n) = b
  BY <1>2, <1>4, Quotient
<1> QED BY <1>3, <1>5 DEF b, q

-----------------------------------------------------------------------------
(* A virtual page number is a sequence of four indices.                    *)

Indices == 0 .. FANOUT - 1

\* The number made of k and one more digit i.
Slot(k, i) == k * FANOUT + i

\* The page number without its last l digits.
Pre(v, l) ==
  CASE l = 0 -> v
    [] l = 1 -> v \div FANOUT
    [] l = 2 -> v \div (FANOUT * FANOUT)
    [] l = 3 -> v \div (FANOUT * FANOUT * FANOUT)
    [] l = 4 -> 0

LEMMA OneSlot ==
  ASSUME NEW k \in Nat, NEW n \in Nat, NEW i \in Indices, NEW j \in Indices,
         Slot(k, i) = Slot(n, j)
  PROVE  k = n /\ i = j
BY OneQuotient, FanoutAssumption, SMT DEF Slot, Indices

LEMMA SlotNumber ==
  ASSUME NEW k \in Nat, NEW i \in Indices
  PROVE  Slot(k, i) \in Nat
BY FanoutAssumption, SMT DEF Slot, Indices

LEMMA Digits ==
  ASSUME NEW v \in VirtualPages
  PROVE  /\ Pre(v, 0) = v /\ Pre(v, 4) = 0
         /\ Pre(v, 0) \in Nat /\ Pre(v, 1) \in Nat /\ Pre(v, 2) \in Nat
         /\ Pre(v, 3) \in Nat /\ Pre(v, 4) \in Nat
         /\ Index(v, 1) \in Indices /\ Index(v, 2) \in Indices
         /\ Index(v, 3) \in Indices /\ Index(v, 4) \in Indices
         /\ Pre(v, 0) = Slot(Pre(v, 1), Index(v, 1))
         /\ Pre(v, 1) = Slot(Pre(v, 2), Index(v, 2))
         /\ Pre(v, 2) = Slot(Pre(v, 3), Index(v, 3))
         /\ Pre(v, 3) = Slot(Pre(v, 4), Index(v, 4))
<1> DEFINE F == FANOUT
           a == v \div F
           b == v \div (F * F)
           c == v \div (F * F * F)
<1>0. F \in Nat \ {0, 1} /\ F \in Nat \ {0} /\ F * F \in Nat \ {0} /\ (F * F) * F \in Nat \ {0}
  BY FanoutAssumption, SMT
<1>1. v \in Nat /\ v < ((F * F) * F) * F
  BY <1>0, SMT DEF VirtualPages
<1>2. b = a \div F
  BY <1>0, <1>1, TwoDivisions
<1>3. c = b \div F
  BY <1>0, <1>1, TwoDivisions
<1>4. a \in Nat /\ v % F \in 0 .. F - 1 /\ v = a * F + (v % F)
  BY <1>0, <1>1, Division
<1>5. b \in Nat /\ a % F \in 0 .. F - 1 /\ a = b * F + (a % F)
  BY <1>0, <1>4, <1>2, Division
<1>6. c \in Nat /\ b % F \in 0 .. F - 1 /\ b = c * F + (b % F)
  BY <1>0, <1>5, <1>3, Division
<1>7. c \in 0 .. F - 1
  <2> DEFINE G == (F * F) * F
             r == v % G
  <2>1. G \in Nat \ {0} /\ c = v \div G
    BY <1>0
  <2>2. r \in 0 .. G - 1 /\ v = c * G + r
    BY <2>1, <1>1, Division
  <2>3. v < G * F
    BY <1>1
  <2> HIDE DEF G, r
  <2>4. ASSUME F <= c PROVE FALSE
    <3>1. PICK d \in Nat : c = F + d
      BY <2>4, <1>0, <1>6, SMT
    <3>2. c * G = G * F + d * G
      BY <3>1, <2>1, <1>0, SMT
    <3>3. d * G \in Nat /\ G * F \in Nat
      BY <3>1, <2>1, <1>0, SMT
    <3> QED BY <3>2, <3>3, <2>2, <2>3, <1>1, <2>1, SMT
  <2> QED BY <2>4, <1>0, <1>6, SMT
<1>8. c % F = c
  <2>1. (0 * F + c) % F = c
    BY <1>0, <1>7, Quotient
  <2>2. 0 * F + c = c
    BY <1>0, <1>6, SMT
  <2> QED BY <2>1, <2>2
<1>9. /\ Pre(v, 0) = v /\ Pre(v, 1) = a /\ Pre(v, 2) = b /\ Pre(v, 3) = c /\ Pre(v, 4) = 0
  BY SMT DEF Pre
<1>10. /\ Index(v, 1) = v % F /\ Index(v, 2) = a % F /\ Index(v, 3) = b % F /\ Index(v, 4) = c % F
  BY SMT DEF Index
<1> HIDE DEF a, b, c
<1>11. c = 0 * F + c
  BY <1>0, <1>6, SMT
<1> QED BY <1>0, <1>1, <1>4, <1>5, <1>6, <1>7, <1>8, <1>9, <1>10, <1>11, SMT DEF Slot, Indices

\* Pages that agree on all but the last digit share everything above it.
LEMMA Neighbours ==
  ASSUME NEW u \in VirtualPages, NEW v \in VirtualPages, Pre(u, 1) = Pre(v, 1)
  PROVE  /\ Pre(u, 2) = Pre(v, 2) /\ Pre(u, 3) = Pre(v, 3)
         /\ Index(u, 2) = Index(v, 2) /\ Index(u, 3) = Index(v, 3) /\ Index(u, 4) = Index(v, 4)
<1>1. Pre(u, 2) = Pre(v, 2) /\ Index(u, 2) = Index(v, 2)
  BY Digits, OneSlot, SMT
<1>2. Pre(u, 3) = Pre(v, 3) /\ Index(u, 3) = Index(v, 3)
  BY <1>1, Digits, OneSlot, SMT
<1>3. Pre(u, 4) = Pre(v, 4) /\ Index(u, 4) = Index(v, 4)
  BY <1>2, Digits, OneSlot, SMT
<1> QED BY <1>1, <1>2, <1>3

\* The page that differs from v in its last digit, which is i.
LEMMA Neighbour ==
  ASSUME NEW v \in VirtualPages, NEW i \in Indices
  PROVE  \E u \in VirtualPages : Pre(u, 1) = Pre(v, 1) /\ Index(u, 1) = i
<1> DEFINE F == FANOUT
           G == (F * F) * F
           a == Pre(v, 1)
           u == Slot(a, i)
<1>0. F \in Nat \ {0, 1} /\ G \in Nat
  BY FanoutAssumption, SMT
<1>1. a \in Nat /\ Index(v, 1) \in 0 .. F - 1 /\ v = a * F + Index(v, 1)
  BY Digits DEF Slot, Indices
<1>2. v \in Nat /\ v < G * F
  BY <1>0, SMT DEF VirtualPages
<1> HIDE DEF G, a
<1>3. a < G
  <2>1. ASSUME G <= a PROVE FALSE
    <3>1. PICK d \in Nat : a = G + d
      BY <2>1, <1>0, <1>1, SMT
    <3>2. a * F = G * F + d * F
      BY <3>1, <1>0, SMT
    <3>3. d * F \in Nat /\ G * F \in Nat
      BY <3>1, <1>0, SMT
    <3> QED BY <3>2, <3>3, <1>1, <1>2, SMT
  <2> QED BY <2>1, <1>0, <1>1, SMT
<1>4. a * F + i \in Nat /\ a * F + i < G * F
  <2>1. PICK d \in Nat : G = a + 1 + d
    BY <1>3, <1>0, <1>1, SMT
  <2>2. G * F = a * F + F + d * F
    BY <2>1, <1>0, <1>1, SMT
  <2>3. d * F \in Nat /\ a * F \in Nat
    BY <2>1, <1>0, <1>1, SMT
  <2> QED BY <2>2, <2>3, <1>0, SMT DEF Indices
<1>5. u \in VirtualPages
  BY <1>0, <1>4, SMT DEF VirtualPages, Slot, G
<1>6. Pre(u, 0) = Slot(Pre(u, 1), Index(u, 1)) /\ Pre(u, 0) = u
      /\ Pre(u, 1) \in Nat /\ Index(u, 1) \in Indices
  BY <1>5, Digits
<1> HIDE DEF u
<1>7. Slot(Pre(u, 1), Index(u, 1)) = Slot(a, i)
  BY <1>6 DEF u
<1>8. Pre(u, 1) = a /\ Index(u, 1) = i
  BY <1>6, <1>7, <1>1, OneSlot, SMT
<1> QED BY <1>5, <1>8 DEF a

-----------------------------------------------------------------------------
(* The tree.                                                               *)

AllFlags == (UNION FlagSets) \cup {"PRESENT", "WRITABLE", "GLOBAL", "USER", "NX"}
Frames == Nat \ {0}

Entries ==
  {e \in [to : Nat, ps : BOOLEAN, flags : SUBSET AllFlags] : e = ZERO \/ Present(e)}
Tables == [Indices -> Entries]
TableSets == UNION {[D -> Tables] : D \in SUBSET Frames}

States ==
  [root : Nat, tab : TableSets, free : SUBSET Frames, tables : Nat,
   nx : BOOLEAN, panic : BOOLEAN]

\* A table is no free frame, and the counter counts the tables.
Booked(s) ==
  /\ s \in States
  /\ IsFiniteSet(DOMAIN s.tab) /\ s.tables = Cardinality(DOMAIN s.tab)
  /\ DOMAIN s.tab \cap s.free = {}

\* An entry that points to a table, if it is not in a table of level 1.
Points(e) == Present(e) /\ ~e.ps

\* The place of a table: its level, and the digits that lead to it.
Below(place, i) == <<place[1] - 1, Slot(place[2], i)>>

\* Every table has a place of its own, its entries lead to the places below,
\* and all but the root are led to.
Tree(s, at) ==
  /\ at \in [DOMAIN s.tab -> (1 .. 4) \X Nat]
  /\ s.root \in DOMAIN s.tab /\ at[s.root] = <<4, 0>>
  /\ \A t, u \in DOMAIN s.tab : at[t] = at[u] => t = u
  /\ \A t \in DOMAIN s.tab, i \in Indices :
       /\ s.tab[t][i].ps => at[t][1] = 2
       /\ Points(s.tab[t][i]) /\ at[t][1] # 1 =>
            s.tab[t][i].to \in DOMAIN s.tab /\ at[s.tab[t][i].to] = Below(at[t], i)
  /\ \A t \in DOMAIN s.tab \ {s.root} : \E p \in DOMAIN s.tab, i \in Indices :
       Points(s.tab[p][i]) /\ at[p][1] # 1 /\ s.tab[p][i].to = t

Sound(s) == Booked(s) /\ \E at : Tree(s, at)

\* The tables other than the root that are empty.
Bare(s) == {t \in DOMAIN s.tab \ {s.root} : IsTableEmpty(s, t)}

\* All frames of tables and allocator.
FramesOf(s) == DOMAIN s.tab \cup s.free

\* The table and the entry of level l on the way to page v, and whether the
\* walk gets there.
Tb(s, v, l) ==
  CASE l = 4 -> s.root
    [] l = 3 -> Pml4e(s, v).to
    [] l = 2 -> Pdpte(s, v).to
    [] l = 1 -> Pde(s, v).to
En(s, v, l) == s.tab[Tb(s, v, l)][Index(v, l)]
Gets(s, v, l) ==
  /\ l <= 3 => Present(Pml4e(s, v))
  /\ l <= 2 => Present(Pdpte(s, v))
  /\ l = 1 => Points(Pde(s, v))

\* Page v is part of a large page.
Large(s, v) == Gets(s, v, 2) /\ Present(Pde(s, v)) /\ Pde(s, v).ps

\* Page v is as it was, and no less reachable for the user.
Keeps(s, r, v) ==
  /\ Translate(r, v) = Translate(s, v)
  /\ UserReaches(s, v) => UserReaches(r, v)
  /\ Large(s, v) => Large(r, v)

-----------------------------------------------------------------------------
(* The inductive invariant.                                                *)

\* Page v is one of those that the work w of paging_init maps.
Covers(w, v) == v = w.page \/ (w.kind = "large" /\ Pre(v, 1) = Pre(w.page, 1))

\* The work w has been done, and callers have not undone it.
Placed(w) ==
  CASE w.kind = "large" ->
         \A v \in VirtualPages : Covers(w, v) =>
           Large(pg, v) /\ Mapped(pg, v) /\ Translate(pg, v).to = v - boot.hhdm
    [] w.kind = "small" -> Mapped(pg, w.page) /\ Translate(pg, w.page).to = w.page - boot.hhdm
    [] w.kind \in {"kernel", "preserve"} ->
         \/ ready /\ w.page \in boot.pages
         \/ Mapped(pg, w.page) /\ Translate(pg, w.page).to = boot.old[w.page]

\* What paging_init has mapped so far, in the order of its loops: nothing
\* else is mapped until it is done.
Progress ==
  /\ \A w \in Work \ todo : Placed(w)
  /\ \A w \in Work \ todo, x \in todo : NotAfter(w, x)
  /\ ~ready => \A v \in VirtualPages : Mapped(pg, v) => \E w \in Work \ todo : Covers(w, v)

IInv ==
  /\ boot \in Boots /\ ready \in BOOLEAN /\ todo \subseteq Work
  /\ Booked(pg)
  /\ FramesOf(pg) = boot.free \cup (IF ready THEN boot.reclaimed ELSE {})
  /\ pg.root = 0 => DOMAIN pg.tab = {} /\ ~ready /\ (pg.panic \/ todo = {})
  /\ pg.root # 0 => Sound(pg)
  /\ pg.panic \/ Bare(pg) = {}
  /\ ready => todo = {}
  /\ pg.root # 0 /\ (pg.panic => ready) => Progress

-----------------------------------------------------------------------------
(* Walks.                                                                  *)

LEMMA TableIs ==
  ASSUME NEW s \in States
  PROVE  /\ DOMAIN s.tab \subseteq Frames /\ s.tab \in [DOMAIN s.tab -> Tables]
         /\ \A t \in DOMAIN s.tab, i \in Indices :
              /\ s.tab[t][i] \in Entries
              /\ s.tab[t][i].to \in Nat /\ s.tab[t][i].ps \in BOOLEAN
              /\ s.tab[t][i].flags \subseteq AllFlags
<1>1. s.tab \in TableSets
  BY DEF States
<1>2. PICK D \in SUBSET Frames : s.tab \in [D -> Tables]
  BY <1>1 DEF TableSets
<1>3. DOMAIN s.tab \subseteq Frames /\ s.tab \in [DOMAIN s.tab -> Tables]
  BY <1>2
<1>4. ASSUME NEW t \in DOMAIN s.tab, NEW i \in Indices
      PROVE  s.tab[t][i] \in Entries
  BY <1>3 DEF Tables
<1> QED BY <1>3, <1>4 DEF Entries

\* The place below another, and what places say of the tables.
LEMMA BelowIs ==
  ASSUME NEW x, NEW place, NEW i, x = Below(place, i)
  PROVE  x[1] = place[1] - 1
BY SMT DEF Below

LEMMA RootPlace ==
  ASSUME NEW s, NEW at, Tree(s, at)
  PROVE  s.root \in DOMAIN s.tab /\ at[s.root] = <<4, 0>> /\ at[s.root][1] = 4
<1>1. s.root \in DOMAIN s.tab /\ at[s.root] = <<4, 0>>
  BY DEF Tree
<1>2. <<4, 0>>[1] = 4
  BY SMT
<1> QED BY <1>1, <1>2

LEMMA LevelIs ==
  ASSUME NEW s, NEW v
  PROVE  /\ Tb(s, v, 4) = s.root /\ Tb(s, v, 3) = Pml4e(s, v).to
         /\ Tb(s, v, 2) = Pdpte(s, v).to /\ Tb(s, v, 1) = Pde(s, v).to
         /\ En(s, v, 4) = Pml4e(s, v) /\ En(s, v, 3) = Pdpte(s, v)
         /\ En(s, v, 2) = Pde(s, v) /\ En(s, v, 1) = Pte(s, v)
         /\ Gets(s, v, 4)
         /\ Gets(s, v, 3) <=> Present(Pml4e(s, v))
         /\ Gets(s, v, 2) <=> Present(Pml4e(s, v)) /\ Present(Pdpte(s, v))
         /\ Gets(s, v, 1) <=> Gets(s, v, 2) /\ Points(Pde(s, v))
<1>1. /\ Tb(s, v, 4) = s.root /\ Tb(s, v, 3) = Pml4e(s, v).to
      /\ Tb(s, v, 2) = Pdpte(s, v).to /\ Tb(s, v, 1) = Pde(s, v).to
  BY SMT DEF Tb
<1>2. /\ En(s, v, 4) = Pml4e(s, v) /\ En(s, v, 3) = Pdpte(s, v)
      /\ En(s, v, 2) = Pde(s, v) /\ En(s, v, 1) = Pte(s, v)
  BY <1>1 DEF En, Pml4e, Pdpte, Pde, Pte
<1>3. /\ Gets(s, v, 4)
      /\ Gets(s, v, 3) <=> Present(Pml4e(s, v))
      /\ Gets(s, v, 2) <=> Present(Pml4e(s, v)) /\ Present(Pdpte(s, v))
      /\ Gets(s, v, 1) <=> Gets(s, v, 2) /\ Points(Pde(s, v))
  BY SMT DEF Gets
<1> QED BY <1>1, <1>2, <1>3

\* The tables on the way to v are tables of the tree, at the places that its
\* digits say.
LEMMA OnTheWay ==
  ASSUME NEW s \in States, NEW at, Tree(s, at), NEW v \in VirtualPages
  PROVE  \A l \in 1 .. 4 : Gets(s, v, l) =>
           Tb(s, v, l) \in DOMAIN s.tab /\ at[Tb(s, v, l)] = <<l, Pre(v, l)>>
<1> DEFINE At(l) == Gets(s, v, l) =>
             Tb(s, v, l) \in DOMAIN s.tab /\ at[Tb(s, v, l)] = <<l, Pre(v, l)>>
<1>1. At(4)
  BY LevelIs, Digits, SMT DEF Tree
<1>2. ASSUME NEW t \in DOMAIN s.tab, NEW l \in 2 .. 4, at[t] = <<l, Pre(v, l)>>,
             Points(s.tab[t][Index(v, l)])
      PROVE  /\ s.tab[t][Index(v, l)].to \in DOMAIN s.tab
             /\ at[s.tab[t][Index(v, l)].to] = <<l - 1, Pre(v, l - 1)>>
  <2>1. Index(v, l) \in Indices /\ Slot(Pre(v, l), Index(v, l)) = Pre(v, l - 1)
    <3>1. l = 2 \/ l = 3 \/ l = 4
      BY SMT
    <3> QED BY <3>1, Digits, SMT
  <2>2. at[t][1] = l /\ at[t][2] = Pre(v, l) /\ at[t][1] # 1
    BY <1>2, SMT
  <2>3. Below(at[t], Index(v, l)) = <<l - 1, Pre(v, l - 1)>>
    BY <2>1, <2>2 DEF Below
  <2>4. /\ s.tab[t][Index(v, l)].to \in DOMAIN s.tab
        /\ at[s.tab[t][Index(v, l)].to] = Below(at[t], Index(v, l))
    BY <1>2, <2>1, <2>2, ZenonT(30) DEF Tree
  <2> QED BY <2>3, <2>4
<1>3. ASSUME NEW t \in DOMAIN s.tab, NEW l \in 3 .. 4, at[t] = <<l, Pre(v, l)>>,
             Present(s.tab[t][Index(v, l)])
      PROVE  Points(s.tab[t][Index(v, l)])
  <2>1. Index(v, l) \in Indices
    <3>1. l = 3 \/ l = 4
      BY SMT
    <3> QED BY <3>1, Digits
  <2>2. at[t][1] # 2
    BY <1>3, SMT
  <2> QED BY <1>3, <2>1, <2>2 DEF Tree, Points
<1>4. At(3)
  <2>1. SUFFICES ASSUME Present(Pml4e(s, v))
                 PROVE  Pml4e(s, v).to \in DOMAIN s.tab /\ at[Pml4e(s, v).to] = <<3, Pre(v, 3)>>
    BY LevelIs
  <2>2. s.root \in DOMAIN s.tab /\ at[s.root] = <<4, Pre(v, 4)>>
    BY <1>1, LevelIs
  <2>3. Points(s.tab[s.root][Index(v, 4)])
    BY <2>1, <2>2, <1>3, SMT DEF Pml4e
  <2>4. 4 \in 2 .. 4 /\ 4 - 1 = 3
    BY SMT
  <2> QED BY <2>2, <2>3, <2>4, <1>2 DEF Pml4e
<1>5. At(2)
  <2>1. SUFFICES ASSUME Present(Pml4e(s, v)), Present(Pdpte(s, v))
                 PROVE  Pdpte(s, v).to \in DOMAIN s.tab /\ at[Pdpte(s, v).to] = <<2, Pre(v, 2)>>
    BY LevelIs
  <2>2. Pml4e(s, v).to \in DOMAIN s.tab /\ at[Pml4e(s, v).to] = <<3, Pre(v, 3)>>
    BY <1>4, <2>1, LevelIs
  <2>3. Points(s.tab[Pml4e(s, v).to][Index(v, 3)])
    BY <2>1, <2>2, <1>3, SMT DEF Pdpte
  <2>4. 3 \in 2 .. 4 /\ 3 - 1 = 2
    BY SMT
  <2> QED BY <2>2, <2>3, <2>4, <1>2 DEF Pdpte
<1>6. At(1)
  <2>1. SUFFICES ASSUME Gets(s, v, 2), Points(Pde(s, v))
                 PROVE  Pde(s, v).to \in DOMAIN s.tab /\ at[Pde(s, v).to] = <<1, Pre(v, 1)>>
    BY LevelIs
  <2>2. Pdpte(s, v).to \in DOMAIN s.tab /\ at[Pdpte(s, v).to] = <<2, Pre(v, 2)>>
    BY <1>5, <2>1, LevelIs
  <2>3. 2 \in 2 .. 4 /\ 2 - 1 = 1
    BY SMT
  <2> QED BY <2>1, <2>2, <2>3, <1>2 DEF Pde
<1>7. \A l \in 1 .. 4 : l = 1 \/ l = 2 \/ l = 3 \/ l = 4
  BY SMT
<1> HIDE DEF At
<1>8. \A l \in 1 .. 4 : At(l)
  BY <1>1, <1>4, <1>5, <1>6, <1>7
<1> QED BY <1>8 DEF At

\* The result of the walk.
LEMMA TranslateIs ==
  ASSUME NEW s, NEW v
  PROVE  /\ ~Gets(s, v, 2) \/ ~Present(Pde(s, v)) => Translate(s, v) = Unmapped
         /\ Large(s, v) => Translate(s, v) = [to |-> Pde(s, v).to + Index(v, 1),
                                              flags |-> Pde(s, v).flags]
         /\ Gets(s, v, 1) => Translate(s, v) = [to |-> Pte(s, v).to, flags |-> Pte(s, v).flags]
BY LevelIs DEF Translate, Pml4e, Pdpte, Pde, Pte, Large, Points

\* Pages with the same digits down to level l have the same way there.
LEMMA SharedWay ==
  ASSUME NEW s, NEW u \in VirtualPages, NEW v \in VirtualPages
  PROVE  /\ Pml4e(s, u) # Pml4e(s, v) => Pre(u, 3) # Pre(v, 3)
         /\ Pdpte(s, u) # Pdpte(s, v) => Pre(u, 2) # Pre(v, 2)
         /\ Pde(s, u) # Pde(s, v) => Pre(u, 1) # Pre(v, 1)
         /\ Pre(u, 1) = Pre(v, 1) => Pre(u, 2) = Pre(v, 2)
         /\ Pre(u, 2) = Pre(v, 2) => Pre(u, 3) = Pre(v, 3)
<1>1. Pre(u, 1) = Pre(v, 1) => Pre(u, 2) = Pre(v, 2) /\ Index(u, 2) = Index(v, 2)
  BY Digits, OneSlot, SMT
<1>2. Pre(u, 2) = Pre(v, 2) => Pre(u, 3) = Pre(v, 3) /\ Index(u, 3) = Index(v, 3)
  BY Digits, OneSlot, SMT
<1>3. Pre(u, 3) = Pre(v, 3) => Index(u, 4) = Index(v, 4)
  BY Digits, OneSlot, SMT
<1>4. Pre(u, 3) = Pre(v, 3) => Pml4e(s, u) = Pml4e(s, v)
  BY <1>3 DEF Pml4e
<1>5. Pre(u, 2) = Pre(v, 2) => Pdpte(s, u) = Pdpte(s, v)
  BY <1>2, <1>4 DEF Pdpte
<1>6. Pre(u, 1) = Pre(v, 1) => Pde(s, u) = Pde(s, v)
  BY <1>1, <1>5 DEF Pde
<1> QED BY <1>1, <1>2, <1>4, <1>5, <1>6

\* An entry that points to a table has at most got PAGE_USER.
Wider(f, e) ==
  \/ f = e
  \/ Points(e) /\ f = [e EXCEPT !.flags = @ \cup {"USER"}]

LEMMA WiderIs ==
  ASSUME NEW e \in Entries, NEW f, Wider(f, e)
  PROVE  /\ f.to = e.to /\ f.ps = e.ps /\ (Present(f) <=> Present(e))
         /\ e.flags \subseteq f.flags /\ (~Points(e) => f = e)
BY DEF Wider, Points, Present, Entries

\* A page on whose way entries at most got PAGE_USER is as it was.
LEMMA WiderWay ==
  ASSUME NEW s \in States, NEW at, Tree(s, at), NEW r, NEW v \in VirtualPages,
         Wider(Pml4e(r, v), Pml4e(s, v)),
         Gets(s, v, 3) => Wider(Pdpte(r, v), Pdpte(s, v)),
         Gets(s, v, 2) => Wider(Pde(r, v), Pde(s, v)),
         Gets(s, v, 1) => Pte(r, v) = Pte(s, v)
  PROVE  Keeps(s, r, v)
<1>0. \A l \in 1 .. 4 : Gets(s, v, l) => En(s, v, l) \in Entries
  <2>1. ASSUME NEW l \in 1 .. 4, Gets(s, v, l) PROVE En(s, v, l) \in Entries
    <3>1. Tb(s, v, l) \in DOMAIN s.tab
      BY <2>1, OnTheWay
    <3>2. Index(v, l) \in Indices
      <4>1. l = 1 \/ l = 2 \/ l = 3 \/ l = 4
        BY SMT
      <4> QED BY <4>1, Digits
    <3> QED BY <3>1, <3>2, TableIs DEF En
  <2> QED BY <2>1
<1>1. /\ Pml4e(s, v) \in Entries
      /\ Gets(s, v, 3) => Pdpte(s, v) \in Entries
      /\ Gets(s, v, 2) => Pde(s, v) \in Entries
  BY <1>0, LevelIs, SMT
<1>2. /\ Gets(r, v, 3) <=> Gets(s, v, 3)
      /\ Gets(r, v, 2) <=> Gets(s, v, 2)
      /\ Gets(r, v, 1) <=> Gets(s, v, 1)
      /\ Large(r, v) <=> Large(s, v)
  <2>1. Present(Pml4e(r, v)) <=> Present(Pml4e(s, v))
    BY <1>1, WiderIs
  <2>2. Gets(s, v, 3) => (Present(Pdpte(r, v)) <=> Present(Pdpte(s, v)))
    BY <1>1, WiderIs
  <2>3. Gets(s, v, 2) => /\ Present(Pde(r, v)) <=> Present(Pde(s, v))
                         /\ Pde(r, v).ps = Pde(s, v).ps
    BY <1>1, WiderIs
  <2> QED BY <2>1, <2>2, <2>3, LevelIs DEF Large, Points
<1>3. Translate(r, v) = Translate(s, v)
  <2>1. CASE ~Gets(s, v, 2) \/ ~Present(Pde(s, v))
    <3>1. ~Gets(r, v, 2) \/ ~Present(Pde(r, v))
      BY <2>1, <1>1, <1>2, WiderIs
    <3> QED BY <2>1, <3>1, TranslateIs
  <2>2. CASE Large(s, v)
    <3>1. Pde(r, v) = Pde(s, v)
      BY <2>2, <1>1, WiderIs DEF Large, Points
    <3> QED BY <2>2, <3>1, <1>2, TranslateIs
  <2>3. CASE Gets(s, v, 1)
    BY <2>3, <1>2, TranslateIs
  <2> QED BY <2>1, <2>2, <2>3, LevelIs DEF Large, Points
<1>4. ASSUME UserReaches(s, v) PROVE UserReaches(r, v)
  <2>1. Mapped(s, v) /\ Gets(s, v, 2) /\ Gets(s, v, 3)
    BY <1>4, TranslateIs, LevelIs, SMT DEF UserReaches, Mapped, Present, Unmapped
  <2>2. /\ Pml4e(s, v).flags \subseteq Pml4e(r, v).flags
        /\ Pdpte(s, v).flags \subseteq Pdpte(r, v).flags
        /\ Pde(s, v).flags \subseteq Pde(r, v).flags
    BY <2>1, <1>1, WiderIs
  <2> QED BY <1>3, <1>4, <2>2 DEF UserReaches, Mapped
<1> QED BY <1>2, <1>3, <1>4 DEF Keeps

\* A table at the place that v's digits say is on the way to v.
LEMMA Reached ==
  ASSUME NEW s \in States, NEW at, Tree(s, at), NEW v \in VirtualPages
  PROVE  \A t \in DOMAIN s.tab, l \in 1 .. 4 :
           at[t] = <<l, Pre(v, l)>> => Gets(s, v, l) /\ Tb(s, v, l) = t
<1> DEFINE Ok(l) == \A t \in DOMAIN s.tab :
                      at[t] = <<l, Pre(v, l)>> => Gets(s, v, l) /\ Tb(s, v, l) = t
           Up(l, m) == \A t \in DOMAIN s.tab : at[t] = <<l, Pre(v, l)>> =>
                         \E p \in DOMAIN s.tab : /\ at[p] = <<m, Pre(v, m)>>
                                                /\ Points(s.tab[p][Index(v, m)])
                                                /\ s.tab[p][Index(v, m)].to = t
<1>1. Ok(4)
  BY LevelIs, Digits, RootPlace, SMT DEF Tree
<1>2. ASSUME NEW l \in 1 .. 3, NEW m \in 2 .. 4, m = l + 1, NEW t \in DOMAIN s.tab,
             at[t] = <<l, Pre(v, l)>>
      PROVE  \E p \in DOMAIN s.tab : /\ at[p] = <<m, Pre(v, m)>>
                                     /\ Points(s.tab[p][Index(v, m)])
                                     /\ s.tab[p][Index(v, m)].to = t
  <2>1. t # s.root
    <3>1. at[t][1] = l /\ l # 4
      BY <1>2, SMT
    <3> QED BY <3>1, RootPlace
  <2>2. PICK p \in DOMAIN s.tab, i \in Indices :
          Points(s.tab[p][i]) /\ at[p][1] # 1 /\ s.tab[p][i].to = t
    BY <2>1 DEF Tree
  <2>3. at[t] = Below(at[p], i)
    <3>1. \A z \in DOMAIN s.tab, k \in Indices :
            /\ s.tab[z][k].ps => at[z][1] = 2
            /\ Points(s.tab[z][k]) /\ at[z][1] # 1 =>
                 s.tab[z][k].to \in DOMAIN s.tab /\ at[s.tab[z][k].to] = Below(at[z], k)
      BY DEF Tree
    <3> QED BY <2>2, <3>1
  <2>4. at[p] \in (1 .. 4) \X Nat
    BY DEF Tree
  <2>5. at[p][1] - 1 = l /\ Slot(at[p][2], i) = Pre(v, l)
    BY <1>2, <2>3, SMT DEF Below
  <2>6. /\ Pre(v, l) = Slot(Pre(v, m), Index(v, m))
        /\ Pre(v, m) \in Nat /\ Index(v, m) \in Indices
    <3>1. l = 1 \/ l = 2 \/ l = 3
      BY SMT
    <3> QED BY <1>2, <3>1, Digits, SMT
  <2>7. at[p][2] = Pre(v, m) /\ i = Index(v, m)
    BY <2>4, <2>5, <2>6, OneSlot, SMT
  <2>8. at[p] = <<m, Pre(v, m)>>
    BY <1>2, <2>4, <2>5, <2>7, SMT
  <2> QED BY <2>2, <2>7, <2>8
<1>u. Up(1, 2) /\ Up(2, 3) /\ Up(3, 4)
  <2> HIDE DEF Up
  <2>1. ASSUME NEW l \in 1 .. 3, NEW m \in 2 .. 4, m = l + 1 PROVE Up(l, m)
    BY <1>2, <2>1, ZenonT(30) DEF Up
  <2> QED BY <2>1, SMT
<1>3. Ok(3)
  <2>1. SUFFICES ASSUME NEW t \in DOMAIN s.tab, at[t] = <<3, Pre(v, 3)>>
                 PROVE  Present(Pml4e(s, v)) /\ Pml4e(s, v).to = t
    BY LevelIs
  <2>2. PICK p \in DOMAIN s.tab : at[p] = <<4, Pre(v, 4)>> /\ Points(s.tab[p][Index(v, 4)])
                                  /\ s.tab[p][Index(v, 4)].to = t
    BY <1>u, <2>1
  <2>3. p = s.root
    BY <1>1, <2>2, LevelIs
  <2> QED BY <2>2, <2>3 DEF Pml4e, Points
<1>4. Ok(2)
  <2>1. SUFFICES ASSUME NEW t \in DOMAIN s.tab, at[t] = <<2, Pre(v, 2)>>
                 PROVE  Present(Pml4e(s, v)) /\ Present(Pdpte(s, v)) /\ Pdpte(s, v).to = t
    BY LevelIs
  <2>2. PICK p \in DOMAIN s.tab : at[p] = <<3, Pre(v, 3)>> /\ Points(s.tab[p][Index(v, 3)])
                                  /\ s.tab[p][Index(v, 3)].to = t
    BY <1>u, <2>1
  <2>3. p = Pml4e(s, v).to /\ Present(Pml4e(s, v))
    BY <1>3, <2>2, LevelIs
  <2> QED BY <2>2, <2>3 DEF Pdpte, Points
<1>5. Ok(1)
  <2>1. SUFFICES ASSUME NEW t \in DOMAIN s.tab, at[t] = <<1, Pre(v, 1)>>
                 PROVE  Gets(s, v, 2) /\ Points(Pde(s, v)) /\ Pde(s, v).to = t
    BY LevelIs
  <2>2. PICK p \in DOMAIN s.tab : at[p] = <<2, Pre(v, 2)>> /\ Points(s.tab[p][Index(v, 2)])
                                  /\ s.tab[p][Index(v, 2)].to = t
    BY <1>u, <2>1
  <2>3. p = Pdpte(s, v).to /\ Gets(s, v, 2)
    BY <1>4, <2>2, LevelIs
  <2> QED BY <2>2, <2>3 DEF Pde
<1>7. \A l \in 1 .. 4 : l = 1 \/ l = 2 \/ l = 3 \/ l = 4
  BY SMT
<1> HIDE DEF Ok
<1>8. \A l \in 1 .. 4 : Ok(l)
  BY <1>1, <1>3, <1>4, <1>5, <1>7
<1> QED BY <1>8 DEF Ok

\* A change that leaves the tables above level l.
SameAbove(s, r, at, l) == \A x \in DOMAIN s.tab : at[x][1] > l => r.tab[x] = s.tab[x]

\* A change of tables of level l and less leaves the way to level l.
LEMMA Above ==
  ASSUME NEW s \in States, NEW at, Tree(s, at), NEW r, NEW v \in VirtualPages,
         NEW l \in 1 .. 4, Gets(s, v, l), r.root = s.root,
         SameAbove(s, r, at, l)
  PROVE  /\ Gets(r, v, l) /\ Tb(r, v, l) = Tb(s, v, l)
         /\ En(r, v, l) = r.tab[Tb(s, v, l)][Index(v, l)]
         /\ l <= 3 => Pml4e(r, v) = Pml4e(s, v)
         /\ l <= 2 => Pdpte(r, v) = Pdpte(s, v)
         /\ l = 1 => Pde(r, v) = Pde(s, v)
<1>1. \A m \in 1 .. 4 : m > l /\ Gets(s, v, m) => r.tab[Tb(s, v, m)] = s.tab[Tb(s, v, m)]
  <2>1. SUFFICES ASSUME NEW m \in 1 .. 4, m > l, Gets(s, v, m)
                 PROVE  r.tab[Tb(s, v, m)] = s.tab[Tb(s, v, m)]
    OBVIOUS
  <2>2. Tb(s, v, m) \in DOMAIN s.tab /\ at[Tb(s, v, m)] = <<m, Pre(v, m)>>
    BY <2>1, OnTheWay
  <2>3. at[Tb(s, v, m)][1] = m
    BY <2>2, SMT
  <2> QED BY <2>1, <2>2, <2>3 DEF SameAbove
<1>2. l <= 3 => Pml4e(r, v) = Pml4e(s, v)
  BY <1>1, LevelIs, SMT DEF Pml4e
<1>3. l <= 2 => Pdpte(r, v) = Pdpte(s, v) /\ Gets(s, v, 3)
  <2>1. l <= 2 => Gets(s, v, 3)
    BY SMT DEF Gets
  <2> QED BY <1>1, <1>2, <2>1, LevelIs, SMT DEF Pdpte
<1>4. l = 1 => Pde(r, v) = Pde(s, v)
  <2>1. l = 1 => Gets(s, v, 2)
    BY SMT DEF Gets
  <2> QED BY <1>1, <1>3, <2>1, LevelIs, SMT DEF Pde
<1>5. Gets(r, v, l)
  BY <1>2, <1>3, <1>4 DEF Gets
<1>6. Tb(r, v, l) = Tb(s, v, l)
  <2>1. l = 1 \/ l = 2 \/ l = 3 \/ l = 4
    BY SMT
  <2> QED BY <2>1, <1>2, <1>3, <1>4, LevelIs, SMT
<1> QED BY <1>2, <1>3, <1>4, <1>5, <1>6 DEF En

\* Page v is below entry i of the table at a place.
Under(place, i, v) == \E l \in 1 .. 4 : place = <<l, Pre(v, l)>> /\ i = Index(v, l)

\* A change of entry i of table t, and of the table below it, leaves the pages
\* that are not below it.
Confined(s, r, at, t, i, gone) ==
  /\ r.root = s.root
  /\ \A x \in DOMAIN s.tab : x \in gone => at[x] = Below(at[t], i)
  /\ \A x \in DOMAIN s.tab \ gone, j \in Indices :
       (x = t /\ j = i) \/ r.tab[x][j] = s.tab[x][j]

LEMMA Elsewhere ==
  ASSUME NEW s \in States, NEW at, Tree(s, at), NEW r, NEW v \in VirtualPages,
         NEW t \in DOMAIN s.tab, NEW i \in Indices, NEW gone,
         ~Under(at[t], i, v), Confined(s, r, at, t, i, gone)
  PROVE  Keeps(s, r, v)
<1>1. ASSUME NEW l \in 1 .. 4, Gets(s, v, l)
      PROVE  r.tab[Tb(s, v, l)][Index(v, l)] = s.tab[Tb(s, v, l)][Index(v, l)]
  <2>1. Tb(s, v, l) \in DOMAIN s.tab /\ at[Tb(s, v, l)] = <<l, Pre(v, l)>>
    BY <1>1, OnTheWay
  <2>2. l = 1 \/ l = 2 \/ l = 3 \/ l = 4
    BY SMT
  <2>3. Index(v, l) \in Indices /\ Pre(v, l) \in Nat
    BY <2>2, Digits
  <2>4. ~(Tb(s, v, l) = t /\ Index(v, l) = i)
    BY <2>1 DEF Under
  <2>5. at[t] \in (1 .. 4) \X Nat
    BY DEF Tree
  <2>6. ASSUME Tb(s, v, l) \in gone PROVE FALSE
    <3>0. Below(at[t], i) = <<l, Pre(v, l)>>
      BY <2>1, <2>6 DEF Confined
    <3>1. at[t][1] - 1 = l /\ Slot(at[t][2], i) = Pre(v, l)
      BY <3>0, SMT DEF Below
    <3>2. l = 1 \/ l = 2 \/ l = 3
      BY <3>1, <2>5, SMT
    <3>3. /\ Pre(v, l) = Slot(Pre(v, l + 1), Index(v, l + 1))
          /\ Pre(v, l + 1) \in Nat /\ Index(v, l + 1) \in Indices
      BY <3>2, Digits, SMT
    <3>4. at[t][2] = Pre(v, l + 1) /\ i = Index(v, l + 1)
      BY <2>5, <3>1, <3>3, OneSlot, SMT
    <3>5. at[t] = <<l + 1, Pre(v, l + 1)>> /\ l + 1 \in 1 .. 4
      BY <2>5, <3>1, <3>2, <3>4, SMT
    <3> QED BY <3>4, <3>5 DEF Under
  <2> QED BY <2>1, <2>3, <2>4, <2>6 DEF Confined
<1>0. 1 \in 1 .. 4 /\ 2 \in 1 .. 4 /\ 3 \in 1 .. 4 /\ 4 \in 1 .. 4
  BY SMT
<1>2. Pml4e(r, v) = Pml4e(s, v)
  BY <1>0, <1>1, LevelIs DEF Pml4e, Confined
<1>3. Gets(s, v, 3) => Pdpte(r, v) = Pdpte(s, v)
  BY <1>0, <1>1, <1>2, LevelIs, ZenonT(30) DEF Pdpte
<1>4. Gets(s, v, 2) => Pde(r, v) = Pde(s, v)
  BY <1>0, <1>1, <1>2, <1>3, LevelIs, ZenonT(30) DEF Pde
<1>5. Gets(s, v, 1) => Pte(r, v) = Pte(s, v)
  BY <1>0, <1>1, <1>4, LevelIs, ZenonT(30) DEF Pte
<1> QED BY <1>2, <1>3, <1>4, <1>5, WiderWay DEF Wider

\* A page that is not mapped before and after is as it was.
LEMMA NotMapped ==
  ASSUME NEW s, NEW r, NEW v, Translate(s, v) = Unmapped, Translate(r, v) = Unmapped
  PROVE  Keeps(s, r, v)
<1>1. ~Mapped(s, v)
  BY SMT DEF Mapped, Present, Unmapped
<1>2. ~Large(s, v)
  BY <1>1, TranslateIs, SMT DEF Mapped, Present, Large
<1> QED BY <1>1, <1>2 DEF Keeps, UserReaches

-----------------------------------------------------------------------------
(* The changes of the tree: a write of a leaf, PAGE_USER for an entry, a   *)
(* new empty table, and an empty table that is freed.                      *)

\* What no change of the tree touches.
Alike(s, r) == r.root = s.root /\ r.nx = s.nx /\ FramesOf(r) = FramesOf(s)

LEMMA AlikeChain ==
  ASSUME NEW s, NEW q, NEW r, Alike(s, q), Alike(q, r)
  PROVE  Alike(s, r)
BY DEF Alike

LEMMA KeepsChain ==
  ASSUME NEW s, NEW q, NEW r, NEW v, Keeps(s, q, v), Keeps(q, r, v)
  PROVE  Keeps(s, r, v)
BY DEF Keeps

LEMMA EntryTypes ==
  /\ ZERO \in Entries /\ EmptyTable \in Tables
  /\ ~Present(ZERO) /\ ~Points(ZERO) /\ ~ZERO.ps
  /\ \A i \in Indices : EmptyTable[i] = ZERO
  /\ \A f \in Frames, user \in BOOLEAN :
       /\ TableEntry(f, user) \in Entries /\ Points(TableEntry(f, user))
       /\ TableEntry(f, user).to = f /\ ~TableEntry(f, user).ps
       /\ user => "USER" \in TableEntry(f, user).flags
<1>1. ZERO \in Entries /\ ~Present(ZERO) /\ ~Points(ZERO) /\ ~ZERO.ps
  BY DEF ZERO, Entries, Present, Points
<1>2. EmptyTable \in Tables /\ \A i \in Indices : EmptyTable[i] = ZERO
  BY <1>1 DEF EmptyTable, Tables, Indices
<1>3. ASSUME NEW f \in Frames, NEW user \in BOOLEAN
      PROVE  /\ TableEntry(f, user) \in Entries /\ Points(TableEntry(f, user))
             /\ TableEntry(f, user).to = f /\ ~TableEntry(f, user).ps
             /\ user => "USER" \in TableEntry(f, user).flags
  <2>1. {"PRESENT", "WRITABLE"} \cup (IF user THEN {"USER"} ELSE {}) \in SUBSET AllFlags
    BY DEF AllFlags
  <2> QED BY <2>1 DEF TableEntry, Entries, Points, Present, Frames
<1> QED BY <1>1, <1>2, <1>3

\* What r has of s when entry i of table t becomes e.
EntrySet(s, r, t, i, e) ==
  /\ r \in States /\ r.root = s.root /\ r.free = s.free /\ r.tables = s.tables
  /\ r.nx = s.nx /\ r.panic = s.panic /\ DOMAIN r.tab = DOMAIN s.tab
  /\ r.tab[t][i] = e
  /\ \A x \in DOMAIN s.tab, j \in Indices : (x = t /\ j = i) \/ r.tab[x][j] = s.tab[x][j]
  /\ \A x \in DOMAIN s.tab \ {t} : r.tab[x] = s.tab[x]

LEMMA SetEntryIs ==
  ASSUME NEW s \in States, NEW t \in DOMAIN s.tab, NEW i \in Indices, NEW e \in Entries,
         NEW r, r = SetEntry(s, t, i, e)
  PROVE  EntrySet(s, r, t, i, e)
<1> DEFINE tab == [s.tab EXCEPT ![t] = [s.tab[t] EXCEPT ![i] = e]]
<1>1. DOMAIN s.tab \subseteq Frames /\ s.tab \in [DOMAIN s.tab -> Tables]
  BY TableIs
<1>2. s.tab[t] \in Tables
  BY <1>1
<1>3. [s.tab[t] EXCEPT ![i] = e] \in Tables
  BY <1>2 DEF Tables
<1>4. tab \in [DOMAIN s.tab -> Tables]
  BY <1>1, <1>3
<1>5. tab \in TableSets
  BY <1>1, <1>4 DEF TableSets
<1>6. r = [s EXCEPT !.tab = tab]
  BY DEF SetEntry, States
<1>7. /\ r \in States /\ r.root = s.root /\ r.free = s.free /\ r.tables = s.tables
      /\ r.nx = s.nx /\ r.panic = s.panic /\ r.tab = tab
  <2> HIDE DEF tab
  <2> QED BY <1>5, <1>6 DEF States
<1>8. tab[t][i] = e
  BY <1>1 DEF Tables
<1>9. \A x \in DOMAIN s.tab, j \in Indices : (x = t /\ j = i) \/ tab[x][j] = s.tab[x][j]
  BY <1>1 DEF Tables
<1>10. \A x \in DOMAIN s.tab \ {t} : tab[x] = s.tab[x]
  OBVIOUS
<1> QED BY <1>4, <1>7, <1>8, <1>9, <1>10, SMT DEF EntrySet

\* What r has of s when a leaf is written.
Written(s, r, at, t, i, e) ==
  /\ Booked(r) /\ Tree(r, at) /\ Alike(s, r) /\ r.panic = s.panic
  /\ \A v \in VirtualPages : ~Under(at[t], i, v) => Keeps(s, r, v)
  /\ Bare(r) \subseteq Bare(s) \cup {t}
  /\ Present(e) => t \notin Bare(r)

\* A leaf is written.
LEMMA Writes ==
  ASSUME NEW s, Booked(s), NEW at, Tree(s, at),
         NEW t \in DOMAIN s.tab, NEW i \in Indices, NEW e \in Entries,
         \/ at[t][1] = 1 /\ ~e.ps
         \/ at[t][1] = 2 /\ e.ps /\ ~Points(s.tab[t][i]),
         NEW r, r = SetEntry(s, t, i, e)
  PROVE  Written(s, r, at, t, i, e)
<1>0. s \in States
  BY DEF Booked
<1>1. /\ r \in States /\ r.root = s.root /\ r.free = s.free /\ r.tables = s.tables
      /\ r.nx = s.nx /\ r.panic = s.panic /\ DOMAIN r.tab = DOMAIN s.tab
      /\ r.tab[t][i] = e
      /\ \A x \in DOMAIN s.tab, j \in Indices : (x = t /\ j = i) \/ r.tab[x][j] = s.tab[x][j]
      /\ \A x \in DOMAIN s.tab \ {t} : r.tab[x] = s.tab[x]
  <2>1. EntrySet(s, r, t, i, e)
    BY <1>0, SetEntryIs
  <2> QED BY <2>1 DEF EntrySet
<1>2. Booked(r) /\ Alike(s, r)
  BY <1>1 DEF Booked, Alike, FramesOf
<1>3. Tree(r, at)
  <2>1. /\ at \in [DOMAIN r.tab -> (1 .. 4) \X Nat]
        /\ r.root \in DOMAIN r.tab /\ at[r.root] = <<4, 0>>
        /\ \A x, u \in DOMAIN r.tab : at[x] = at[u] => x = u
    BY <1>1 DEF Tree
  <2>2. ASSUME NEW x \in DOMAIN r.tab, NEW j \in Indices
        PROVE  /\ r.tab[x][j].ps => at[x][1] = 2
               /\ Points(r.tab[x][j]) /\ at[x][1] # 1 =>
                    r.tab[x][j].to \in DOMAIN r.tab /\ at[r.tab[x][j].to] = Below(at[x], j)
    <3>1. CASE x = t /\ j = i
      BY <3>1, <1>1 DEF Points
    <3>2. CASE ~(x = t /\ j = i)
      <4>1. r.tab[x][j] = s.tab[x][j] /\ x \in DOMAIN s.tab
        BY <3>2, <1>1
      <4>2. \A z \in DOMAIN s.tab, k \in Indices :
              /\ s.tab[z][k].ps => at[z][1] = 2
              /\ Points(s.tab[z][k]) /\ at[z][1] # 1 =>
                   s.tab[z][k].to \in DOMAIN s.tab /\ at[s.tab[z][k].to] = Below(at[z], k)
        BY DEF Tree
      <4>3. /\ s.tab[x][j].ps => at[x][1] = 2
            /\ Points(s.tab[x][j]) /\ at[x][1] # 1 =>
                 s.tab[x][j].to \in DOMAIN s.tab /\ at[s.tab[x][j].to] = Below(at[x], j)
        BY <4>1, <4>2
      <4> QED BY <4>1, <4>3, <1>1
    <3> QED BY <3>1, <3>2
  <2>3. ASSUME NEW x \in DOMAIN r.tab \ {r.root}
        PROVE  \E p \in DOMAIN r.tab, j \in Indices :
                 Points(r.tab[p][j]) /\ at[p][1] # 1 /\ r.tab[p][j].to = x
    <3>1. PICK p \in DOMAIN s.tab, j \in Indices :
            Points(s.tab[p][j]) /\ at[p][1] # 1 /\ s.tab[p][j].to = x
      BY <1>1 DEF Tree
    <3>2. ~(p = t /\ j = i)
      BY <3>1
    <3>3. r.tab[p][j] = s.tab[p][j]
      BY <3>2, <1>1, ZenonT(30)
    <3> QED BY <3>1, <3>3, <1>1
  <2> QED BY <2>1, <2>2, <2>3 DEF Tree
<1>4. ASSUME NEW v \in VirtualPages, ~Under(at[t], i, v) PROVE Keeps(s, r, v)
  <2> DEFINE none == {}
  <2>3. Confined(s, r, at, t, i, none)
    BY <1>1 DEF Confined
  <2> HIDE DEF none
  <2> QED BY <1>0, <1>4, <2>3, Elsewhere
<1>5. Bare(r) \subseteq Bare(s) \cup {t}
  BY <1>1 DEF Bare, IsTableEmpty
<1>6. Present(e) => t \notin Bare(r)
  BY <1>1, EntryTypes, SMT DEF Bare, IsTableEmpty
<1> QED BY <1>1, <1>2, <1>3, <1>4, <1>5, <1>6 DEF Written

\* An entry that points to a table gets PAGE_USER.
LEMMA Retrofits ==
  ASSUME NEW s, Booked(s), NEW at, Tree(s, at),
         NEW t \in DOMAIN s.tab, NEW i \in Indices, at[t][1] # 1, Points(s.tab[t][i]),
         NEW user \in BOOLEAN, NEW r, r = Retrofit(s, t, i, user)
  PROVE  /\ Booked(r) /\ Tree(r, at) /\ Alike(s, r) /\ r.panic = s.panic
         /\ DOMAIN r.tab = DOMAIN s.tab
         /\ \A x \in DOMAIN s.tab, j \in Indices :
              (x = t /\ j = i) \/ r.tab[x][j] = s.tab[x][j]
         /\ Points(r.tab[t][i]) /\ (user => "USER" \in r.tab[t][i].flags)
         /\ \A v \in VirtualPages : Keeps(s, r, v)
         /\ Bare(r) \subseteq Bare(s) \ {t}
<1> DEFINE old == s.tab[t][i]
           e == [old EXCEPT !.flags = @ \cup {"USER"}]
<1>0. s \in States /\ old \in Entries
  BY TableIs DEF Booked
<1>1. e \in Entries /\ e.to = old.to /\ e.ps = old.ps /\ Points(e) /\ "USER" \in e.flags
  BY <1>0 DEF Entries, AllFlags, Points, Present
<1>2. t \notin Bare(s)
  BY EntryTypes DEF Bare, IsTableEmpty, Points
<1>3. ASSUME NEW v \in VirtualPages PROVE Keeps(s, s, v)
  BY DEF Keeps
<1>4. CASE ~user
  BY <1>2, <1>3, <1>4 DEF Retrofit, Alike
<1>5. CASE user
  <2>1. r = SetEntry(s, t, i, e)
    BY <1>5 DEF Retrofit, SetEntry
  <2> HIDE DEF e
  <2>2. /\ r \in States /\ r.root = s.root /\ r.free = s.free /\ r.tables = s.tables
        /\ r.nx = s.nx /\ r.panic = s.panic /\ DOMAIN r.tab = DOMAIN s.tab
        /\ r.tab[t][i] = e
        /\ \A x \in DOMAIN s.tab, j \in Indices : (x = t /\ j = i) \/ r.tab[x][j] = s.tab[x][j]
        /\ \A x \in DOMAIN s.tab \ {t} : r.tab[x] = s.tab[x]
    <3>1. EntrySet(s, r, t, i, e)
      BY <1>0, <1>1, <2>1, SetEntryIs
    <3> QED BY <3>1 DEF EntrySet
  <2>3. Booked(r) /\ Alike(s, r)
    BY <2>2 DEF Booked, Alike, FramesOf
  <2>4. \A x \in DOMAIN s.tab, j \in Indices :
          /\ r.tab[x][j].to = s.tab[x][j].to /\ r.tab[x][j].ps = s.tab[x][j].ps
          /\ Points(r.tab[x][j]) <=> Points(s.tab[x][j])
    BY <1>1, <2>2
  <2>5. Tree(r, at)
    <3>1. /\ at \in [DOMAIN r.tab -> (1 .. 4) \X Nat]
          /\ r.root \in DOMAIN r.tab /\ at[r.root] = <<4, 0>>
          /\ \A x, u \in DOMAIN r.tab : at[x] = at[u] => x = u
      <4>1. DOMAIN r.tab = DOMAIN s.tab /\ r.root = s.root
        BY <2>2
      <4> QED BY <4>1 DEF Tree
    <3>2. ASSUME NEW x \in DOMAIN r.tab, NEW j \in Indices
          PROVE  /\ r.tab[x][j].ps => at[x][1] = 2
                 /\ Points(r.tab[x][j]) /\ at[x][1] # 1 =>
                      r.tab[x][j].to \in DOMAIN r.tab /\ at[r.tab[x][j].to] = Below(at[x], j)
      <4>1. x \in DOMAIN s.tab
        BY <2>2
      <4>2. \A z \in DOMAIN s.tab, k \in Indices :
              /\ s.tab[z][k].ps => at[z][1] = 2
              /\ Points(s.tab[z][k]) /\ at[z][1] # 1 =>
                   s.tab[z][k].to \in DOMAIN s.tab /\ at[s.tab[z][k].to] = Below(at[z], k)
        BY DEF Tree
      <4>3. /\ s.tab[x][j].ps => at[x][1] = 2
            /\ Points(s.tab[x][j]) /\ at[x][1] # 1 =>
                 s.tab[x][j].to \in DOMAIN s.tab /\ at[s.tab[x][j].to] = Below(at[x], j)
        BY <4>1, <4>2
      <4> QED BY <4>1, <4>3, <2>2, <2>4
    <3>3. ASSUME NEW x \in DOMAIN r.tab \ {r.root}
          PROVE  \E p \in DOMAIN r.tab, j \in Indices :
                   Points(r.tab[p][j]) /\ at[p][1] # 1 /\ r.tab[p][j].to = x
      <4>1. PICK p \in DOMAIN s.tab, j \in Indices :
              Points(s.tab[p][j]) /\ at[p][1] # 1 /\ s.tab[p][j].to = x
        BY <2>2 DEF Tree
      <4> QED BY <4>1, <2>2, <2>4
    <3> QED BY <3>1, <3>2, <3>3 DEF Tree
  <2>6. ASSUME NEW v \in VirtualPages PROVE Keeps(s, r, v)
    <3>0. 1 \in 1 .. 4 /\ 2 \in 1 .. 4 /\ 3 \in 1 .. 4 /\ 4 \in 1 .. 4
      BY SMT
    <3>1. ASSUME NEW x \in DOMAIN s.tab, NEW j \in Indices PROVE Wider(r.tab[x][j], s.tab[x][j])
      BY <2>2 DEF Wider, e
    <3>2. \A l \in 1 .. 4 : Gets(s, v, l) => Wider(r.tab[Tb(s, v, l)][Index(v, l)], En(s, v, l))
      <4>1. ASSUME NEW l \in 1 .. 4, Gets(s, v, l)
            PROVE  Wider(r.tab[Tb(s, v, l)][Index(v, l)], En(s, v, l))
        <5>1. Tb(s, v, l) \in DOMAIN s.tab
          BY <1>0, <4>1, OnTheWay
        <5>2. l = 1 \/ l = 2 \/ l = 3 \/ l = 4
          BY SMT
        <5>3. Index(v, l) \in Indices
          BY <5>2, Digits
        <5> QED BY <3>1, <5>1, <5>3 DEF En
      <4> QED BY <4>1
    <3>3. \A l \in 1 .. 4 : Gets(s, v, l) => En(s, v, l) \in Entries
      <4>1. ASSUME NEW l \in 1 .. 4, Gets(s, v, l) PROVE En(s, v, l) \in Entries
        <5>1. Tb(s, v, l) \in DOMAIN s.tab
          BY <1>0, <4>1, OnTheWay
        <5>2. l = 1 \/ l = 2 \/ l = 3 \/ l = 4
          BY SMT
        <5>3. Index(v, l) \in Indices
          BY <5>2, Digits
        <5> QED BY <1>0, <5>1, <5>3, TableIs DEF En
      <4> QED BY <4>1
    <3>4. Wider(Pml4e(r, v), Pml4e(s, v)) /\ Pml4e(r, v).to = Pml4e(s, v).to
      <4>1. Wider(Pml4e(r, v), Pml4e(s, v))
        BY <3>0, <3>2, <2>2, LevelIs DEF Pml4e
      <4> QED BY <3>0, <4>1, <3>3, LevelIs, WiderIs
    <3>5. Gets(s, v, 3) => Wider(Pdpte(r, v), Pdpte(s, v)) /\ Pdpte(r, v).to = Pdpte(s, v).to
      <4>1. Gets(s, v, 3) => Wider(Pdpte(r, v), Pdpte(s, v))
        BY <3>0, <3>2, <3>4, LevelIs DEF Pdpte
      <4> QED BY <3>0, <4>1, <3>3, LevelIs, WiderIs
    <3>6. Gets(s, v, 2) => Wider(Pde(r, v), Pde(s, v)) /\ Pde(r, v).to = Pde(s, v).to
      <4>1. Gets(s, v, 2) => Wider(Pde(r, v), Pde(s, v))
        BY <3>0, <3>2, <3>5, LevelIs DEF Pde
      <4> QED BY <3>0, <4>1, <3>3, LevelIs, WiderIs
    <3>7. Gets(s, v, 1) => Pte(r, v) = Pte(s, v)
      <4>1. SUFFICES ASSUME Gets(s, v, 1) PROVE Pte(r, v) = Pte(s, v)
        OBVIOUS
      <4>2. Pde(s, v).to \in DOMAIN s.tab /\ at[Pde(s, v).to] = <<1, Pre(v, 1)>>
        BY <1>0, <4>1, OnTheWay, LevelIs, SMT
      <4>3. Pde(s, v).to # t
        BY <4>2, SMT
      <4>4. Pde(r, v).to = Pde(s, v).to
        BY <3>6, <4>1, LevelIs
      <4> QED BY <2>2, <4>2, <4>3, <4>4, ZenonT(30) DEF Pte
    <3> QED BY <1>0, <3>4, <3>5, <3>6, <3>7, WiderWay
  <2>7. Bare(r) \subseteq Bare(s) \ {t}
    <3>1. t \notin Bare(r)
      BY <2>2, <1>1, EntryTypes DEF Bare, IsTableEmpty, Points
    <3> QED BY <3>1, <2>2 DEF Bare, IsTableEmpty
  <2> QED BY <1>1, <2>2, <2>3, <2>5, <2>6, <2>7
<1> QED BY <1>4, <1>5

\* Ways that end early.
LEMMA DeadEnd ==
  ASSUME NEW s, NEW v, NEW l \in 2 .. 4, Gets(s, v, l), ~Present(En(s, v, l))
  PROVE  Translate(s, v) = Unmapped
<1>1. l = 2 \/ l = 3 \/ l = 4
  BY SMT
<1>2. ~Gets(s, v, 2) \/ ~Present(Pde(s, v))
  BY <1>1, LevelIs
<1> QED BY <1>2, TranslateIs

LEMMA EmptyEnd ==
  ASSUME NEW s, NEW v, NEW l \in 2 .. 4, Gets(s, v, l), Points(En(s, v, l)),
         s.tab[En(s, v, l).to][Index(v, l - 1)] = ZERO
  PROVE  Translate(s, v) = Unmapped
<1>1. CASE l = 4
  <2>1. Pdpte(s, v) = ZERO
    BY <1>1, LevelIs, SMT DEF Pdpte
  <2> QED BY <2>1, EntryTypes, LevelIs, TranslateIs, SMT
<1>2. CASE l = 3
  <2>1. Pde(s, v) = ZERO
    BY <1>2, LevelIs, SMT DEF Pde
  <2> QED BY <2>1, EntryTypes, TranslateIs
<1>3. CASE l = 2
  <2>1. Pte(s, v) = ZERO /\ Gets(s, v, 1)
    BY <1>3, LevelIs, SMT DEF Pte
  <2> QED BY <2>1, TranslateIs, SMT DEF ZERO, Unmapped
<1> QED BY <1>1, <1>2, <1>3, SMT

LEMMA OneBelow ==
  ASSUME NEW a \in (1 .. 4) \X Nat, NEW b \in (1 .. 4) \X Nat,
         NEW i \in Indices, NEW j \in Indices, Below(a, i) = Below(b, j)
  PROVE  a = b /\ i = j
<1>1. a[1] - 1 = b[1] - 1 /\ Slot(a[2], i) = Slot(b[2], j)
  BY DEF Below
<1>2. a[2] = b[2] /\ i = j
  BY <1>1, OneSlot, SMT
<1> QED BY <1>1, <1>2, SMT

\* The table at the place below entry i of t is the one that entry leads to.
LEMMA Hangs ==
  ASSUME NEW s, NEW at, Tree(s, at), NEW x \in DOMAIN s.tab, NEW t \in DOMAIN s.tab,
         NEW i \in Indices, at[x] = Below(at[t], i)
  PROVE  Points(s.tab[t][i]) /\ s.tab[t][i].to = x
<1>1. at[t] \in (1 .. 4) \X Nat
  BY DEF Tree
<1>2. x # s.root
  <2>1. at[x][1] = at[t][1] - 1
    BY SMT DEF Below
  <2>2. at[x][1] # 4
    BY <1>1, <2>1, SMT
  <2> QED BY <2>2, SMT DEF Tree
<1>3. PICK p \in DOMAIN s.tab, j \in Indices :
        Points(s.tab[p][j]) /\ at[p][1] # 1 /\ s.tab[p][j].to = x
  BY <1>2 DEF Tree
<1>4. Below(at[p], j) = Below(at[t], i) /\ at[p] \in (1 .. 4) \X Nat
  BY <1>3, SMT DEF Tree
<1>5. at[p] = at[t] /\ j = i
  BY <1>1, <1>4, OneBelow, SMT
<1>6. p = t
  BY <1>5 DEF Tree
<1> QED BY <1>3, <1>5, <1>6

LEMMA AllocTablePageIs ==
  ASSUME NEW s, Booked(s), s.free # {}, NEW f, f = Min(s.free),
         NEW a, a = AllocTablePage(s)
  PROVE  /\ f \in s.free /\ f \in Frames /\ f \notin DOMAIN s.tab
         /\ Booked(a) /\ a.root = s.root /\ a.nx = s.nx /\ a.panic = s.panic
         /\ a.free = s.free \ {f} /\ DOMAIN a.tab = DOMAIN s.tab \cup {f}
         /\ a.tab[f] = EmptyTable /\ \A x \in DOMAIN s.tab : a.tab[x] = s.tab[x]
<1>0. s \in States /\ s.free \subseteq Frames /\ s.free \subseteq Nat
  BY DEF Booked, States, Frames
<1>1. f \in s.free /\ f \in Frames /\ f \notin DOMAIN s.tab
  BY <1>0, MinIs DEF Booked
<1> DEFINE tab == [x \in DOMAIN s.tab \cup {f} |-> IF x = f THEN EmptyTable ELSE s.tab[x]]
<1>2. a = [s EXCEPT !.free = s.free \ {f}, !.tables = s.tables + 1, !.tab = tab]
  BY DEF AllocTablePage, States
<1>3. DOMAIN s.tab \subseteq Frames /\ s.tab \in [DOMAIN s.tab -> Tables]
  BY <1>0, TableIs
<1>4. tab \in [DOMAIN s.tab \cup {f} -> Tables]
  BY <1>3, EntryTypes
<1>5. tab \in TableSets
  BY <1>1, <1>3, <1>4 DEF TableSets
<1>6. DOMAIN tab = DOMAIN s.tab \cup {f} /\ tab[f] = EmptyTable
      /\ \A x \in DOMAIN s.tab : tab[x] = s.tab[x]
  BY <1>1
<1> HIDE DEF tab
<1>7. /\ a \in States /\ a.root = s.root /\ a.free = s.free \ {f} /\ a.tables = s.tables + 1
      /\ a.nx = s.nx /\ a.panic = s.panic /\ a.tab = tab
  <2>1. s.free \ {f} \in SUBSET Frames /\ s.tables + 1 \in Nat
    BY <1>0, SMT DEF States
  <2>2. /\ a.root = s.root /\ a.free = s.free \ {f} /\ a.tables = s.tables + 1
        /\ a.nx = s.nx /\ a.panic = s.panic /\ a.tab = tab
    BY <1>0, <1>2 DEF States
  <2>3. a \in States
    BY <1>0, <1>2, <1>5, <2>1 DEF States
  <2> QED BY <2>2, <2>3
<1>8. IsFiniteSet(DOMAIN s.tab \cup {f}) /\ Cardinality(DOMAIN s.tab \cup {f}) = Cardinality(DOMAIN s.tab) + 1
  BY <1>1, FS_AddElement DEF Booked
<1>9. Booked(a)
  BY <1>6, <1>7, <1>8 DEF Booked
<1> QED BY <1>1, <1>6, <1>7, <1>9

\* An empty table is allocated for an entry that is not present.
LEMMA Grows ==
  ASSUME NEW s, Booked(s), NEW at, Tree(s, at), s.free # {},
         NEW t \in DOMAIN s.tab, NEW i \in Indices, at[t][1] # 1, ~Present(s.tab[t][i]),
         NEW user \in BOOLEAN, NEW f, f = Min(s.free),
         NEW r, r = SetEntry(AllocTablePage(s), t, i, TableEntry(f, user))
  PROVE  /\ Booked(r) /\ (\E place : Tree(r, place)) /\ Alike(s, r) /\ r.panic = s.panic
         /\ DOMAIN r.tab = DOMAIN s.tab \cup {f}
         /\ \A x \in DOMAIN s.tab, j \in Indices :
              (x = t /\ j = i) \/ r.tab[x][j] = s.tab[x][j]
         /\ r.tab[t][i] = TableEntry(f, user)
         /\ \A v \in VirtualPages : Keeps(s, r, v)
         /\ Bare(r) \subseteq (Bare(s) \ {t}) \cup {f}
<1> DEFINE a == AllocTablePage(s)
           e == TableEntry(f, user)
<1>1. /\ f \in s.free /\ f \in Frames /\ f \notin DOMAIN s.tab
      /\ Booked(a) /\ a.root = s.root /\ a.nx = s.nx /\ a.panic = s.panic
      /\ a.free = s.free \ {f} /\ DOMAIN a.tab = DOMAIN s.tab \cup {f}
      /\ a.tab[f] = EmptyTable /\ \A x \in DOMAIN s.tab : a.tab[x] = s.tab[x]
  BY AllocTablePageIs, SMT
<1>2. e \in Entries /\ Points(e) /\ e.to = f /\ ~e.ps
  BY <1>1, EntryTypes
<1> HIDE DEF a, e
<1>3. /\ r \in States /\ r.root = a.root /\ r.free = a.free /\ r.tables = a.tables
      /\ r.nx = a.nx /\ r.panic = a.panic /\ DOMAIN r.tab = DOMAIN a.tab
      /\ r.tab[t][i] = e
      /\ \A x \in DOMAIN a.tab, j \in Indices : (x = t /\ j = i) \/ r.tab[x][j] = a.tab[x][j]
      /\ \A x \in DOMAIN a.tab \ {t} : r.tab[x] = a.tab[x]
  <2>1. a \in States /\ t \in DOMAIN a.tab
    BY <1>1 DEF Booked
  <2>2. r = SetEntry(a, t, i, e)
    BY DEF a, e
  <2>3. EntrySet(a, r, t, i, e)
    BY <2>1, <2>2, <1>2, SetEntryIs
  <2> QED BY <2>3 DEF EntrySet
<1>4. Booked(r) /\ Alike(s, r)
  <2>1. Booked(r)
    BY <1>1, <1>3 DEF Booked
  <2>2. FramesOf(r) = FramesOf(s)
    BY <1>1, <1>3, SMT DEF FramesOf
  <2> QED BY <2>1, <2>2, <1>1, <1>3 DEF Alike
<1>5. /\ \A x \in DOMAIN s.tab, j \in Indices : (x = t /\ j = i) \/ r.tab[x][j] = s.tab[x][j]
      /\ \A x \in DOMAIN s.tab \ {t} : r.tab[x] = s.tab[x]
      /\ r.tab[f] = EmptyTable /\ DOMAIN r.tab = DOMAIN s.tab \cup {f}
  BY <1>1, <1>3, SMT
<1>6. s \in States /\ at[t] \in (1 .. 4) \X Nat /\ at[t][1] \in 2 .. 4
  <2>1. at[t] \in (1 .. 4) \X Nat
    BY DEF Tree
  <2> QED BY <2>1, SMT DEF Booked
<1> DEFINE place == [x \in DOMAIN r.tab |-> IF x = f THEN Below(at[t], i) ELSE at[x]]
<1>7. Tree(r, place)
  <2>1. Below(at[t], i) \in (1 .. 4) \X Nat /\ Below(at[t], i) # <<4, 0>>
    BY <1>6, SlotNumber, SMT DEF Below
  <2>2. place[f] = Below(at[t], i) /\ \A x \in DOMAIN s.tab : place[x] = at[x]
    BY <1>1, <1>5
  <2>3. place \in [DOMAIN r.tab -> (1 .. 4) \X Nat]
    BY <2>1, <1>5 DEF Tree
  <2> HIDE DEF place
  <2>4. r.root \in DOMAIN r.tab /\ place[r.root] = <<4, 0>> /\ r.root = s.root
    <3>1. r.root = s.root /\ DOMAIN r.tab = DOMAIN s.tab \cup {f}
      BY <1>1, <1>3
    <3> QED BY <3>1, <2>2, RootPlace, ZenonT(30)
  <2>5. \A x \in DOMAIN s.tab : at[x] # Below(at[t], i)
    BY Hangs, SMT DEF Points
  <2>6. \A x, u \in DOMAIN r.tab : place[x] = place[u] => x = u
    <3>1. \A x \in DOMAIN r.tab : x = f \/ x \in DOMAIN s.tab
      BY <1>5
    <3>2. \A z, u \in DOMAIN s.tab : at[z] = at[u] => z = u
      BY DEF Tree
    <3>3. ASSUME NEW x \in DOMAIN r.tab, NEW u \in DOMAIN r.tab, place[x] = place[u]
          PROVE  x = u
      <4>1. CASE x \in DOMAIN s.tab /\ u \in DOMAIN s.tab
        <5>1. at[x] = at[u]
          BY <2>2, <3>3, <4>1
        <5> QED BY <3>2, <4>1, <5>1
      <4>2. CASE x = f /\ u \in DOMAIN s.tab
        BY <2>2, <2>5, <3>3, <4>2
      <4>3. CASE x \in DOMAIN s.tab /\ u = f
        BY <2>2, <2>5, <3>3, <4>3
      <4> QED BY <3>1, <4>1, <4>2, <4>3
    <3> QED BY <3>3
  <2>7. ASSUME NEW x \in DOMAIN r.tab, NEW j \in Indices
        PROVE  /\ r.tab[x][j].ps => place[x][1] = 2
               /\ Points(r.tab[x][j]) /\ place[x][1] # 1 =>
                    r.tab[x][j].to \in DOMAIN r.tab /\ place[r.tab[x][j].to] = Below(place[x], j)
    <3>1. CASE x = t /\ j = i
      BY <3>1, <1>2, <1>3, <1>5, <2>2
    <3>2. CASE x = f
      <4>1. r.tab[x][j] = ZERO
        BY <3>2, <1>5, EntryTypes
      <4> QED BY <4>1, SMT DEF ZERO, Points, Present
    <3>3. CASE x \in DOMAIN s.tab /\ ~(x = t /\ j = i)
      <4>1. r.tab[x][j] = s.tab[x][j] /\ place[x] = at[x]
        BY <3>3, <1>5, <2>2
      <4>2. /\ s.tab[x][j].ps => at[x][1] = 2
            /\ Points(s.tab[x][j]) /\ at[x][1] # 1 =>
                 s.tab[x][j].to \in DOMAIN s.tab /\ at[s.tab[x][j].to] = Below(at[x], j)
        <5>2. \A z \in DOMAIN s.tab, k \in Indices :
                /\ s.tab[z][k].ps => at[z][1] = 2
                /\ Points(s.tab[z][k]) /\ at[z][1] # 1 =>
                     s.tab[z][k].to \in DOMAIN s.tab /\ at[s.tab[z][k].to] = Below(at[z], k)
          BY DEF Tree
        <5> QED BY <3>3, <5>2
      <4> QED BY <4>1, <4>2, <1>5, <2>2
    <3> QED BY <3>1, <3>2, <3>3, <1>5
  <2>8. ASSUME NEW x \in DOMAIN r.tab \ {r.root}
        PROVE  \E p \in DOMAIN r.tab, j \in Indices :
                 Points(r.tab[p][j]) /\ place[p][1] # 1 /\ r.tab[p][j].to = x
    <3>1. CASE x = f
      BY <3>1, <1>2, <1>3, <1>5, <2>2, SMT
    <3>2. CASE x \in DOMAIN s.tab
      <4>1. PICK p \in DOMAIN s.tab, j \in Indices :
              Points(s.tab[p][j]) /\ at[p][1] # 1 /\ s.tab[p][j].to = x
        BY <3>2, <2>4 DEF Tree
      <4>2. ~(p = t /\ j = i)
        BY <4>1 DEF Points
      <4>3. r.tab[p][j] = s.tab[p][j] /\ place[p] = at[p]
        BY <4>2, <1>5, <2>2
      <4> QED BY <4>1, <4>3, <1>5
    <3> QED BY <3>1, <3>2, <1>5
  <2> QED BY <2>3, <2>4, <2>6, <2>7, <2>8 DEF Tree
<1>8. ASSUME NEW v \in VirtualPages PROVE Keeps(s, r, v)
  <2>1. CASE ~Under(at[t], i, v)
    <3> DEFINE none == {}
    <3>1. \A x \in DOMAIN s.tab \ none, j \in Indices : (x = t /\ j = i) \/ r.tab[x][j] = s.tab[x][j]
      BY <1>5
    <3>3. r.root = s.root
      BY <1>1, <1>3
    <3>4. Confined(s, r, at, t, i, none)
      BY <3>1, <3>3 DEF Confined
    <3> HIDE DEF none
    <3> QED BY <1>6, <2>1, <3>4, Elsewhere
  <2>2. CASE Under(at[t], i, v)
    <3>1. PICK l \in 1 .. 4 : at[t] = <<l, Pre(v, l)>> /\ i = Index(v, l)
      BY <2>2 DEF Under
    <3>2. l \in 2 .. 4 /\ at[t][1] = l
      BY <3>1, <1>6, SMT
    <3>3. Gets(s, v, l) /\ Tb(s, v, l) = t
      BY <3>1, <1>6, Reached, SMT
    <3>4. Translate(s, v) = Unmapped
      <4>1. ~Present(En(s, v, l))
        BY <3>1, <3>3 DEF En
      <4> QED BY <4>1, <3>2, <3>3, DeadEnd
    <3>5. \A x \in DOMAIN s.tab : at[x][1] > l => r.tab[x] = s.tab[x]
      <4>1. ~(at[t][1] > l)
        BY <3>2, SMT
      <4> QED BY <4>1, <1>5
    <3>6. r.root = s.root
      BY <1>1, <1>3
    <3>7. Gets(r, v, l) /\ En(r, v, l) = e
      <4>1. Gets(r, v, l) /\ En(r, v, l) = r.tab[Tb(s, v, l)][Index(v, l)]
        <5>1. SameAbove(s, r, at, l)
          BY <3>5 DEF SameAbove
        <5>2. s \in States
          BY <1>6
        <5> QED BY <3>3, <3>6, <5>1, <5>2, Above, SMT
      <4> QED BY <4>1, <3>1, <3>3, <1>3
    <3>8. Index(v, l - 1) \in Indices
      <4>1. l = 2 \/ l = 3 \/ l = 4
        BY <3>2, SMT
      <4> QED BY <4>1, Digits, SMT
    <3>9. r.tab[En(r, v, l).to][Index(v, l - 1)] = ZERO
      BY <3>7, <3>8, <1>2, <1>5, EntryTypes, SMT
    <3>10. Translate(r, v) = Unmapped
      BY <3>2, <3>7, <3>9, <1>2, EmptyEnd
    <3> QED BY <3>4, <3>10, NotMapped
  <2> QED BY <2>1, <2>2
<1>9. Bare(r) \subseteq (Bare(s) \ {t}) \cup {f}
  <2>1. t \notin Bare(r)
    BY <1>2, <1>3, EntryTypes DEF Bare, IsTableEmpty, Points
  <2> QED BY <2>1, <1>1, <1>3, <1>5 DEF Bare, IsTableEmpty
<1> QED BY <1>1, <1>3, <1>4, <1>5, <1>7, <1>8, <1>9 DEF e

\* What r has of s when table y, below entry i of p, is freed.
TableFreed(s, r, y, p, i) ==
  /\ Booked(r) /\ Alike(s, r) /\ r.panic = s.panic
  /\ DOMAIN r.tab = DOMAIN s.tab \ {y} /\ r.tab[p][i] = ZERO
  /\ \A x \in DOMAIN s.tab \ {y}, j \in Indices :
       (x = p /\ j = i) \/ r.tab[x][j] = s.tab[x][j]
  /\ \A x \in DOMAIN s.tab \ {y, p} : r.tab[x] = s.tab[x]

LEMMA FreeTableIs ==
  ASSUME NEW s, Booked(s), NEW y \in DOMAIN s.tab, NEW p \in DOMAIN s.tab \ {y},
         NEW i \in Indices, NEW r, r = FreeTable(s, y, p, i)
  PROVE  TableFreed(s, r, y, p, i)
<1>0. s \in States
  BY DEF Booked
<1> DEFINE tab == [x \in DOMAIN s.tab \ {y} |->
                     IF x = p THEN [s.tab[x] EXCEPT ![i] = ZERO] ELSE s.tab[x]]
<1>1. DOMAIN s.tab \subseteq Frames /\ s.tab \in [DOMAIN s.tab -> Tables]
  BY <1>0, TableIs
<1>2. r = [s EXCEPT !.free = s.free \cup {y}, !.tables = s.tables - 1, !.tab = tab]
  BY DEF FreeTable, States
<1>3. s.tab[p] \in Tables /\ [s.tab[p] EXCEPT ![i] = ZERO] \in Tables
      /\ [s.tab[p] EXCEPT ![i] = ZERO][i] = ZERO
      /\ \A j \in Indices \ {i} : [s.tab[p] EXCEPT ![i] = ZERO][j] = s.tab[p][j]
  BY <1>1, EntryTypes DEF Tables
<1>4. tab \in [DOMAIN s.tab \ {y} -> Tables]
  BY <1>1, <1>3
<1>5. tab \in TableSets
  BY <1>1, <1>4 DEF TableSets
<1>6. /\ DOMAIN tab = DOMAIN s.tab \ {y} /\ tab[p] = [s.tab[p] EXCEPT ![i] = ZERO]
      /\ \A x \in DOMAIN s.tab \ {y, p} : tab[x] = s.tab[x]
  OBVIOUS
<1>7. /\ IsFiniteSet(DOMAIN s.tab \ {y})
      /\ Cardinality(DOMAIN s.tab \ {y}) = Cardinality(DOMAIN s.tab) - 1
      /\ Cardinality(DOMAIN s.tab \ {y}) \in Nat
  <2>1. /\ IsFiniteSet(DOMAIN s.tab \ {y})
        /\ Cardinality(DOMAIN s.tab \ {y}) = Cardinality(DOMAIN s.tab) - 1
    BY FS_RemoveElement DEF Booked
  <2> QED BY <2>1, FS_CardinalityType
<1> HIDE DEF tab
<1>8. /\ r \in States /\ r.root = s.root /\ r.free = s.free \cup {y} /\ r.tables = s.tables - 1
      /\ r.nx = s.nx /\ r.panic = s.panic /\ r.tab = tab
  <2>1. s.free \cup {y} \in SUBSET Frames
    BY <1>0, <1>1 DEF States
  <2>2. s.tables - 1 \in Nat
    BY <1>7 DEF Booked
  <2>3. /\ r.root = s.root /\ r.free = s.free \cup {y} /\ r.tables = s.tables - 1
        /\ r.nx = s.nx /\ r.panic = s.panic /\ r.tab = tab
    BY <1>0, <1>2 DEF States
  <2>4. r \in States
    BY <1>0, <1>2, <1>5, <2>1, <2>2 DEF States
  <2> QED BY <2>3, <2>4
<1>9. Booked(r)
  BY <1>6, <1>7, <1>8 DEF Booked
<1>10. FramesOf(r) = FramesOf(s)
  BY <1>6, <1>8 DEF FramesOf
<1>11. ASSUME NEW x \in DOMAIN s.tab \ {y}, NEW j \in Indices, ~(x = p /\ j = i)
       PROVE  tab[x][j] = s.tab[x][j]
  <2>1. CASE x = p
    BY <1>3, <1>6, <1>11
  <2>2. CASE x # p
    BY <2>2, <1>6
  <2> QED BY <2>1, <2>2
<1>12. Alike(s, r)
  BY <1>8, <1>10 DEF Alike
<1> QED BY <1>3, <1>6, <1>8, <1>9, <1>11, <1>12 DEF TableFreed

\* The empty table y below entry i of p is freed.
LEMMA Shrinks ==
  ASSUME NEW s, Booked(s), NEW at, Tree(s, at),
         NEW p \in DOMAIN s.tab, NEW i \in Indices, at[p][1] # 1, Points(s.tab[p][i]),
         NEW y, y = s.tab[p][i].to, IsTableEmpty(s, y), NEW r, r = FreeTable(s, y, p, i)
  PROVE  /\ Booked(r) /\ (\E place : Tree(r, place)) /\ Alike(s, r) /\ r.panic = s.panic
         /\ DOMAIN r.tab = DOMAIN s.tab \ {y} /\ y # p
         /\ \A x \in DOMAIN r.tab \ {p} : r.tab[x] = s.tab[x]
         /\ \A v \in VirtualPages : Keeps(s, r, v)
         /\ Bare(r) \subseteq (Bare(s) \ {y}) \cup {p}
<1>1. at[p] \in (1 .. 4) \X Nat /\ at[p][1] \in 2 .. 4 /\ s \in States
  <2>1. at[p] \in (1 .. 4) \X Nat
    BY DEF Tree
  <2> QED BY <2>1, SMT DEF Booked
<1>2. y \in DOMAIN s.tab /\ at[y] = Below(at[p], i) /\ at[y][1] = at[p][1] - 1
  <2>1. \A z \in DOMAIN s.tab, k \in Indices :
          /\ s.tab[z][k].ps => at[z][1] = 2
          /\ Points(s.tab[z][k]) /\ at[z][1] # 1 =>
               s.tab[z][k].to \in DOMAIN s.tab /\ at[s.tab[z][k].to] = Below(at[z], k)
    BY DEF Tree
  <2>2. y \in DOMAIN s.tab /\ at[y] = Below(at[p], i)
    BY <2>1
  <2> QED BY <2>2, BelowIs
<1>3. y # p /\ y # s.root
  <2>1. at[y][1] # at[p][1] /\ at[y][1] # 4
    BY <1>1, <1>2, SMT
  <2> QED BY <2>1, RootPlace
<1>4. /\ Booked(r) /\ Alike(s, r) /\ r.panic = s.panic
      /\ DOMAIN r.tab = DOMAIN s.tab \ {y} /\ r.tab[p][i] = ZERO
      /\ \A x \in DOMAIN s.tab \ {y}, j \in Indices :
           (x = p /\ j = i) \/ r.tab[x][j] = s.tab[x][j]
      /\ \A x \in DOMAIN s.tab \ {y, p} : r.tab[x] = s.tab[x]
  <2>1. p \in DOMAIN s.tab \ {y}
    BY <1>3
  <2>2. TableFreed(s, r, y, p, i)
    BY <1>2, <2>1, FreeTableIs
  <2> QED BY <2>2 DEF TableFreed
<1>5. r.root = s.root
  BY <1>4 DEF Alike
<1>6. \A j \in Indices : s.tab[y][j] = ZERO
  BY EntryTypes DEF IsTableEmpty
<1> DEFINE place == [x \in DOMAIN r.tab |-> at[x]]
<1>7. Tree(r, place)
  <2>1. /\ place \in [DOMAIN r.tab -> (1 .. 4) \X Nat]
        /\ \A x \in DOMAIN r.tab : place[x] = at[x] /\ x \in DOMAIN s.tab
    <3>1. \A x \in DOMAIN r.tab : x \in DOMAIN s.tab
      BY <1>4
    <3>2. \A x \in DOMAIN r.tab : at[x] \in (1 .. 4) \X Nat
      BY <3>1 DEF Tree
    <3> QED BY <3>1, <3>2
  <2> HIDE DEF place
  <2>2. r.root \in DOMAIN r.tab /\ place[r.root] = <<4, 0>>
    <3>1. s.root \in DOMAIN s.tab /\ at[s.root] = <<4, 0>>
      BY DEF Tree
    <3>2. s.root \in DOMAIN r.tab
      BY <3>1, <1>3, <1>4
    <3> QED BY <3>1, <3>2, <1>5, <2>1
  <2>3. \A x, u \in DOMAIN r.tab : place[x] = place[u] => x = u
    <3>1. \A z, u \in DOMAIN s.tab : at[z] = at[u] => z = u
      BY DEF Tree
    <3>2. ASSUME NEW x \in DOMAIN r.tab, NEW u \in DOMAIN r.tab, place[x] = place[u]
          PROVE  x = u
      <4>1. x \in DOMAIN s.tab /\ u \in DOMAIN s.tab /\ at[x] = at[u]
        BY <2>1, <3>2
      <4> QED BY <3>1, <4>1
    <3> QED BY <3>2
  <2>4. ASSUME NEW x \in DOMAIN r.tab, NEW j \in Indices
        PROVE  /\ r.tab[x][j].ps => place[x][1] = 2
               /\ Points(r.tab[x][j]) /\ place[x][1] # 1 =>
                    r.tab[x][j].to \in DOMAIN r.tab /\ place[r.tab[x][j].to] = Below(place[x], j)
    <3>1. CASE x = p /\ j = i
      BY <3>1, <1>4, EntryTypes
    <3>2. CASE ~(x = p /\ j = i)
      <4>1. r.tab[x][j] = s.tab[x][j] /\ place[x] = at[x] /\ x \in DOMAIN s.tab
        <5>1. x \in DOMAIN s.tab \ {y}
          BY <1>4
        <5> QED BY <3>2, <5>1, <1>4, <2>1
      <4>2. /\ s.tab[x][j].ps => at[x][1] = 2
            /\ Points(s.tab[x][j]) /\ at[x][1] # 1 =>
                 s.tab[x][j].to \in DOMAIN s.tab /\ at[s.tab[x][j].to] = Below(at[x], j)
        BY <4>1 DEF Tree
      <4>3. ASSUME Points(s.tab[x][j]), at[x][1] # 1, s.tab[x][j].to = y PROVE FALSE
        <5>1. Below(at[x], j) = Below(at[p], i) /\ at[x] \in (1 .. 4) \X Nat
          BY <4>1, <4>2, <4>3, <1>2 DEF Tree
        <5>2. at[x] = at[p] /\ j = i
          BY <5>1, <1>1, OneBelow, SMT
        <5>3. \A z, u \in DOMAIN s.tab : at[z] = at[u] => z = u
          BY DEF Tree
        <5>4. x = p
          BY <5>2, <5>3, <4>1
        <5> QED BY <5>2, <5>4, <3>2
      <4>4. ASSUME Points(r.tab[x][j]), place[x][1] # 1
            PROVE  /\ r.tab[x][j].to \in DOMAIN r.tab
                   /\ place[r.tab[x][j].to] = Below(place[x], j)
        <5>1. s.tab[x][j].to \in DOMAIN s.tab \ {y} /\ at[s.tab[x][j].to] = Below(at[x], j)
          BY <4>1, <4>2, <4>3, <4>4
        <5>2. s.tab[x][j].to \in DOMAIN r.tab
          BY <5>1, <1>4
        <5> QED BY <4>1, <5>1, <5>2, <2>1
      <4> QED BY <4>1, <4>2, <4>4
    <3> QED BY <3>1, <3>2
  <2>5. ASSUME NEW x \in DOMAIN r.tab \ {r.root}
        PROVE  \E q \in DOMAIN r.tab, j \in Indices :
                 Points(r.tab[q][j]) /\ place[q][1] # 1 /\ r.tab[q][j].to = x
    <3>1. PICK q \in DOMAIN s.tab, j \in Indices :
            Points(s.tab[q][j]) /\ at[q][1] # 1 /\ s.tab[q][j].to = x
      BY <1>4, <1>5 DEF Tree
    <3>2. q # y
      BY <3>1, <1>6, EntryTypes
    <3>3. ~(q = p /\ j = i)
      <4>1. x # y
        BY <1>4
      <4> QED BY <3>1, <4>1
    <3>4. r.tab[q][j] = s.tab[q][j] /\ q \in DOMAIN r.tab
      <4>1. q \in DOMAIN s.tab \ {y}
        BY <3>2
      <4> QED BY <4>1, <3>3, <1>4
    <3> QED BY <3>1, <3>4, <2>1
  <2> QED BY <2>1, <2>2, <2>3, <2>4, <2>5 DEF Tree
<1>8. ASSUME NEW v \in VirtualPages PROVE Keeps(s, r, v)
  <2>1. CASE ~Under(at[p], i, v)
    <3> DEFINE gone == {y}
    <3>1. \A x \in DOMAIN s.tab \ gone, j \in Indices : (x = p /\ j = i) \/ r.tab[x][j] = s.tab[x][j]
      BY <1>4
    <3>2. \A x \in DOMAIN s.tab : x \in gone => at[x] = Below(at[p], i)
      BY <1>2
    <3>3. Confined(s, r, at, p, i, gone)
      BY <1>5, <3>1, <3>2 DEF Confined
    <3> HIDE DEF gone
    <3> QED BY <1>1, <2>1, <3>3, Elsewhere
  <2>2. CASE Under(at[p], i, v)
    <3>1. PICK l \in 1 .. 4 : at[p] = <<l, Pre(v, l)>> /\ i = Index(v, l)
      BY <2>2 DEF Under
    <3>2. l \in 2 .. 4 /\ at[p][1] = l
      BY <3>1, <1>1, SMT
    <3>3. Gets(s, v, l) /\ Tb(s, v, l) = p
      BY <3>1, <1>1, Reached, SMT
    <3>4. En(s, v, l) = s.tab[p][i]
      BY <3>1, <3>3 DEF En
    <3>5. Index(v, l - 1) \in Indices
      <4>1. l = 2 \/ l = 3 \/ l = 4
        BY <3>2, SMT
      <4> QED BY <4>1, Digits, SMT
    <3>6. s.tab[En(s, v, l).to][Index(v, l - 1)] = ZERO
      BY <3>4, <3>5, <1>6
    <3>7. Translate(s, v) = Unmapped
      BY <3>2, <3>3, <3>4, <3>6, EmptyEnd
    <3>8. \A x \in DOMAIN s.tab : at[x][1] > l => r.tab[x] = s.tab[x]
      <4>1. ~(at[p][1] > l) /\ ~(at[y][1] > l)
        BY <3>2, <1>2, SMTT(20)
      <4> QED BY <4>1, <1>4
    <3>9. Gets(r, v, l) /\ En(r, v, l) = r.tab[Tb(s, v, l)][Index(v, l)]
      <4>1. SameAbove(s, r, at, l)
        BY <3>8 DEF SameAbove
      <4>2. s \in States
        BY <1>1
      <4> QED BY <3>3, <4>1, <4>2, <1>5, Above, SMT
    <3>10. ~Present(En(r, v, l))
      BY <3>1, <3>3, <3>9, <1>4, EntryTypes
    <3>11. Translate(r, v) = Unmapped
      BY <3>2, <3>9, <3>10, DeadEnd
    <3> QED BY <3>7, <3>11, NotMapped
  <2> QED BY <2>1, <2>2
<1>9. Bare(r) \subseteq (Bare(s) \ {y}) \cup {p}
  BY <1>4, <1>5 DEF Bare, IsTableEmpty
<1> QED BY <1>3, <1>4, <1>7, <1>8, <1>9

\* A change of anything but the tables.
LEMMA SameTables ==
  ASSUME NEW s, NEW r, r.root = s.root, r.tab = s.tab
  PROVE  /\ \A at : Tree(s, at) => Tree(r, at)
         /\ \A v : Keeps(s, r, v)
         /\ Bare(r) = Bare(s)
<1>1. \A at : Tree(s, at) => Tree(r, at)
  BY SMT DEF Tree
<1>2. ASSUME NEW v PROVE Keeps(s, r, v)
  <2>1. Pml4e(r, v) = Pml4e(s, v)
    BY DEF Pml4e
  <2>2. Pdpte(r, v) = Pdpte(s, v)
    BY <2>1 DEF Pdpte
  <2>3. Pde(r, v) = Pde(s, v)
    BY <2>2 DEF Pde
  <2>4. Translate(r, v) = Translate(s, v)
    BY <2>1 DEF Translate
  <2>5. Large(s, v) => Large(r, v)
    BY <2>1, <2>2, <2>3, LevelIs DEF Large
  <2> QED BY <2>1, <2>2, <2>3, <2>4, <2>5 DEF Keeps, UserReaches, Mapped
<1>3. Bare(r) = Bare(s)
  BY DEF Bare, IsTableEmpty
<1> QED BY <1>1, <1>2, <1>3

LEMMA Panics ==
  ASSUME NEW s, Booked(s), NEW b \in BOOLEAN, NEW r, r = [s EXCEPT !.panic = b]
  PROVE  /\ Booked(r) /\ Alike(s, r) /\ r.panic = b /\ r.root = s.root /\ r.tab = s.tab
<1>1. s \in States
  BY DEF Booked
<1>2. /\ r \in States /\ r.root = s.root /\ r.tab = s.tab /\ r.free = s.free
      /\ r.tables = s.tables /\ r.nx = s.nx /\ r.panic = b
  BY <1>1 DEF States
<1> QED BY <1>2 DEF Booked, Alike, FramesOf

\* What r has of s when get_or_create_table has been at entry i of table t.
Entered(s, r, t, i, user) ==
  /\ Sound(r) /\ Alike(s, r)
  /\ \A v \in VirtualPages : Keeps(s, r, v)
  /\ ~r.panic =>
       /\ Points(r.tab[t][i]) /\ (user => "USER" \in r.tab[t][i].flags)
       /\ \A x \in DOMAIN s.tab, j \in Indices :
            (x = t /\ j = i) \/ r.tab[x][j] = s.tab[x][j]
       /\ Bare(r) \subseteq (Bare(s) \ {t}) \cup {r.tab[t][i].to}

-----------------------------------------------------------------------------
(* The walks that create tables.                                           *)

LEMMA GetOrCreateIs ==
  ASSUME NEW s, Booked(s), NEW at, Tree(s, at), ~s.panic,
         NEW t \in DOMAIN s.tab, NEW i \in Indices, at[t][1] # 1,
         NEW user \in BOOLEAN, NEW r, r = GetOrCreate(s, t, i, user)
  PROVE  Entered(s, r, t, i, user)
<1>0. s \in States
  BY DEF Booked
<1>1. ASSUME r = [s EXCEPT !.panic = TRUE]
      PROVE  Sound(r) /\ Alike(s, r) /\ r.panic /\ \A v \in VirtualPages : Keeps(s, r, v)
  <2>2. Booked(r) /\ Alike(s, r) /\ r.panic = TRUE /\ r.root = s.root /\ r.tab = s.tab
    BY <1>1, Panics
  <2> QED BY <2>2, SameTables DEF Sound
<1>2. CASE Present(s.tab[t][i]) /\ s.tab[t][i].ps
  <2>1. r = [s EXCEPT !.panic = TRUE]
    BY <1>2 DEF GetOrCreate
  <2> QED BY <1>1, <2>1 DEF Entered
<1>3. CASE Points(s.tab[t][i])
  <2>1. r = Retrofit(s, t, i, user)
    BY <1>3 DEF GetOrCreate, Points
  <2>2. /\ Booked(r) /\ Tree(r, at) /\ Alike(s, r)
        /\ \A x \in DOMAIN s.tab, j \in Indices :
             (x = t /\ j = i) \/ r.tab[x][j] = s.tab[x][j]
        /\ Points(r.tab[t][i]) /\ (user => "USER" \in r.tab[t][i].flags)
        /\ \A v \in VirtualPages : Keeps(s, r, v)
        /\ Bare(r) \subseteq Bare(s) \ {t}
    BY <1>3, <2>1, Retrofits, SMT
  <2> QED BY <2>2 DEF Sound, Entered
<1>4. CASE ~Present(s.tab[t][i]) /\ s.free = {}
  <2>1. AllocTablePage(s) = [s EXCEPT !.panic = TRUE]
    BY <1>4 DEF AllocTablePage
  <2>2. AllocTablePage(s).panic
    BY <2>1, <1>0 DEF States
  <2>3. r = [s EXCEPT !.panic = TRUE]
    BY <1>4, <2>1, <2>2 DEF GetOrCreate
  <2> QED BY <1>1, <2>3 DEF Entered
<1>5. CASE ~Present(s.tab[t][i]) /\ s.free # {}
  <2> DEFINE f == Min(s.free)
  <2>1. ~AllocTablePage(s).panic /\ f \in Frames
    BY <1>5, AllocTablePageIs, SMT
  <2>2. r = SetEntry(AllocTablePage(s), t, i, TableEntry(f, user))
    BY <1>5, <2>1 DEF GetOrCreate
  <2> HIDE DEF f
  <2>3. /\ Booked(r) /\ (\E place : Tree(r, place)) /\ Alike(s, r)
        /\ \A x \in DOMAIN s.tab, j \in Indices :
             (x = t /\ j = i) \/ r.tab[x][j] = s.tab[x][j]
        /\ r.tab[t][i] = TableEntry(f, user)
        /\ \A v \in VirtualPages : Keeps(s, r, v)
        /\ Bare(r) \subseteq (Bare(s) \ {t}) \cup {f}
    BY <1>5, <2>2, Grows, SMT DEF f
  <2>4. /\ Points(r.tab[t][i]) /\ (user => "USER" \in r.tab[t][i].flags)
        /\ r.tab[t][i].to = f
    BY <2>1, <2>3, EntryTypes, SMT
  <2> QED BY <2>3, <2>4 DEF Sound, Entered
<1> QED BY <1>2, <1>3, <1>4, <1>5 DEF Points

\* An entry of the upper two levels that is present points to a table.
LEMMA PointsUp ==
  ASSUME NEW s, Sound(s), NEW v \in VirtualPages
  PROVE  /\ Present(Pml4e(s, v)) => Points(Pml4e(s, v))
         /\ Gets(s, v, 3) /\ Present(Pdpte(s, v)) => Points(Pdpte(s, v))
<1>1. PICK at : Tree(s, at) /\ s \in States
  BY DEF Sound, Booked
<1>2. Present(Pml4e(s, v)) => Points(Pml4e(s, v))
  <2>1. s.root \in DOMAIN s.tab /\ at[s.root][1] # 2 /\ Index(v, 4) \in Indices
    BY <1>1, Digits, SMT DEF Tree
  <2> QED BY <1>1, <2>1 DEF Tree, Points, Pml4e
<1>3. Gets(s, v, 3) /\ Present(Pdpte(s, v)) => Points(Pdpte(s, v))
  <2>1. SUFFICES ASSUME Gets(s, v, 3), Present(Pdpte(s, v)) PROVE Points(Pdpte(s, v))
    OBVIOUS
  <2>2. Pml4e(s, v).to \in DOMAIN s.tab /\ at[Pml4e(s, v).to] = <<3, Pre(v, 3)>>
    BY <1>1, <2>1, OnTheWay, LevelIs, SMT
  <2>3. at[Pml4e(s, v).to][1] # 2 /\ Index(v, 3) \in Indices
    BY <2>2, Digits, SMT
  <2> QED BY <1>1, <2>1, <2>2, <2>3 DEF Tree, Points, Pdpte
<1> QED BY <1>2, <1>3

LEMMA WalkToPdIs ==
  ASSUME NEW s, Sound(s), ~s.panic, NEW v \in VirtualPages, NEW user \in BOOLEAN,
         NEW r, r = WalkToPd(s, v, user)
  PROVE  /\ Sound(r) /\ Alike(s, r)
         /\ \A u \in VirtualPages : Keeps(s, r, u)
         /\ ~r.panic =>
              /\ Gets(r, v, 2)
              /\ user => "USER" \in Pml4e(r, v).flags /\ "USER" \in Pdpte(r, v).flags
              /\ Bare(r) \subseteq Bare(s) \cup {Pdpte(r, v).to}
<1> DEFINE s1 == GetOrCreate(s, s.root, Index(v, 4), user)
           pdpt == Pml4e(s1, v).to
<1>0. Index(v, 4) \in Indices /\ Index(v, 3) \in Indices
  BY Digits
<1>1. /\ Sound(s1) /\ Alike(s, s1) /\ \A u \in VirtualPages : Keeps(s, s1, u)
      /\ ~s1.panic => /\ Points(s1.tab[s.root][Index(v, 4)])
                      /\ user => "USER" \in s1.tab[s.root][Index(v, 4)].flags
                      /\ Bare(s1) \subseteq (Bare(s) \ {s.root}) \cup {s1.tab[s.root][Index(v, 4)].to}
  <2>1. PICK at : Booked(s) /\ Tree(s, at)
    BY DEF Sound
  <2>2. s.root \in DOMAIN s.tab /\ at[s.root][1] # 1
    <3>1. 4 # 1
      BY SMT
    <3> QED BY <2>1, <3>1, RootPlace
  <2>3. Entered(s, s1, s.root, Index(v, 4), user)
    BY <1>0, <2>1, <2>2, GetOrCreateIs
  <2> QED BY <2>3 DEF Entered
<1>2. CASE s1.panic
  <2>1. r = s1
    BY <1>2 DEF WalkToPd
  <2> QED BY <1>1, <1>2, <2>1
<1>3. CASE ~s1.panic
  <2>1. r = GetOrCreate(s1, pdpt, Index(v, 3), user)
    BY <1>3 DEF WalkToPd
  <2> HIDE DEF s1
  <2>2. s1.root = s.root
    BY <1>1 DEF Alike
  <2>3. /\ Points(Pml4e(s1, v)) /\ (user => "USER" \in Pml4e(s1, v).flags)
        /\ Bare(s1) \subseteq Bare(s) \cup {pdpt}
    BY <1>1, <1>3, <2>2 DEF Pml4e
  <2>4. PICK at : Booked(s1) /\ Tree(s1, at)
    BY <1>1 DEF Sound
  <2>5. Gets(s1, v, 3)
    BY <2>3, LevelIs DEF Points
  <2>6. pdpt \in DOMAIN s1.tab /\ at[pdpt] = <<3, Pre(v, 3)>> /\ s1.root \in DOMAIN s1.tab
        /\ at[s1.root] = <<4, 0>>
    <3>1. s1 \in States
      BY <2>4 DEF Booked
    <3>2. 3 \in 1 .. 4
      BY SMT
    <3>3. Tb(s1, v, 3) = pdpt
      BY LevelIs
    <3> HIDE DEF pdpt
    <3>4. pdpt \in DOMAIN s1.tab /\ at[pdpt] = <<3, Pre(v, 3)>>
      BY <2>4, <2>5, <3>1, <3>2, <3>3, OnTheWay, SMT
    <3> QED BY <2>4, <3>4, RootPlace
  <2>7. at[pdpt][1] # 1 /\ pdpt # s1.root
    BY <2>6, SMT
  <2> HIDE DEF pdpt
  <2>8. /\ Sound(r) /\ Alike(s1, r) /\ \A u \in VirtualPages : Keeps(s1, r, u)
        /\ ~r.panic => /\ Points(r.tab[pdpt][Index(v, 3)])
                       /\ user => "USER" \in r.tab[pdpt][Index(v, 3)].flags
                       /\ \A x \in DOMAIN s1.tab, j \in Indices :
                            (x = pdpt /\ j = Index(v, 3)) \/ r.tab[x][j] = s1.tab[x][j]
                       /\ Bare(r) \subseteq (Bare(s1) \ {pdpt}) \cup {r.tab[pdpt][Index(v, 3)].to}
    <3>1. Entered(s1, r, pdpt, Index(v, 3), user)
      BY <1>0, <1>3, <2>1, <2>4, <2>6, <2>7, GetOrCreateIs
    <3> QED BY <3>1 DEF Entered
  <2>9. Alike(s, r) /\ \A u \in VirtualPages : Keeps(s, r, u)
    BY <1>1, <2>8, AlikeChain, KeepsChain
  <2>10. ASSUME ~r.panic
         PROVE  /\ Gets(r, v, 2)
                /\ user => "USER" \in Pml4e(r, v).flags /\ "USER" \in Pdpte(r, v).flags
                /\ Bare(r) \subseteq Bare(s) \cup {Pdpte(r, v).to}
    <3>1. r.root = s1.root /\ r.tab[s1.root][Index(v, 4)] = s1.tab[s1.root][Index(v, 4)]
      BY <1>0, <2>6, <2>7, <2>8, <2>10 DEF Alike
    <3>2. Pml4e(r, v) = Pml4e(s1, v)
      BY <3>1 DEF Pml4e
    <3>3. Pdpte(r, v) = r.tab[pdpt][Index(v, 3)]
      BY <3>2 DEF Pdpte, pdpt
    <3>4. Gets(r, v, 2)
      BY <2>3, <2>8, <2>10, <3>2, <3>3, LevelIs DEF Points
    <3> QED BY <2>3, <2>8, <2>10, <3>2, <3>3, <3>4
  <2> QED BY <2>8, <2>9, <2>10
<1> QED BY <1>2, <1>3

LEMMA WalkToPtIs ==
  ASSUME NEW s, Sound(s), ~s.panic, NEW v \in VirtualPages, NEW user \in BOOLEAN,
         NEW r, r = WalkToPt(s, v, user)
  PROVE  /\ Sound(r) /\ Alike(s, r)
         /\ \A u \in VirtualPages : Keeps(s, r, u)
         /\ ~r.panic =>
              /\ Gets(r, v, 1)
              /\ user => /\ "USER" \in Pml4e(r, v).flags /\ "USER" \in Pdpte(r, v).flags
                         /\ "USER" \in Pde(r, v).flags
              /\ Bare(r) \subseteq Bare(s) \cup {Pde(r, v).to}
<1> DEFINE s1 == WalkToPd(s, v, user)
           pdpt == Pml4e(s1, v).to
           pd == Pdpte(s1, v).to
<1>0. Index(v, 4) \in Indices /\ Index(v, 3) \in Indices /\ Index(v, 2) \in Indices
  BY Digits
<1>1. /\ Sound(s1) /\ Alike(s, s1) /\ \A u \in VirtualPages : Keeps(s, s1, u)
      /\ ~s1.panic =>
           /\ Gets(s1, v, 2)
           /\ user => "USER" \in Pml4e(s1, v).flags /\ "USER" \in Pdpte(s1, v).flags
           /\ Bare(s1) \subseteq Bare(s) \cup {pd}
  BY WalkToPdIs
<1>2. CASE s1.panic
  <2>1. r = s1
    BY <1>2 DEF WalkToPt
  <2> QED BY <1>1, <1>2, <2>1
<1>3. CASE ~s1.panic
  <2>1. r = GetOrCreate(s1, pd, Index(v, 2), user)
    BY <1>3 DEF WalkToPt
  <2> HIDE DEF s1
  <2>4. PICK at : Booked(s1) /\ Tree(s1, at)
    BY <1>1 DEF Sound
  <2>5. Gets(s1, v, 2) /\ Gets(s1, v, 3) /\ Present(Pml4e(s1, v)) /\ Present(Pdpte(s1, v))
    BY <1>1, <1>3, LevelIs
  <2>6. /\ pd \in DOMAIN s1.tab /\ at[pd] = <<2, Pre(v, 2)>>
        /\ pdpt \in DOMAIN s1.tab /\ at[pdpt] = <<3, Pre(v, 3)>>
        /\ s1.root \in DOMAIN s1.tab /\ at[s1.root] = <<4, 0>>
    <3>1. s1 \in States
      BY <2>4 DEF Booked
    <3>2. 2 \in 1 .. 4 /\ 3 \in 1 .. 4
      BY SMT
    <3>3. Tb(s1, v, 2) = pd /\ Tb(s1, v, 3) = pdpt
      BY LevelIs
    <3> HIDE DEF pd, pdpt
    <3>4. /\ pd \in DOMAIN s1.tab /\ at[pd] = <<2, Pre(v, 2)>>
          /\ pdpt \in DOMAIN s1.tab /\ at[pdpt] = <<3, Pre(v, 3)>>
      BY <2>4, <2>5, <3>1, <3>2, <3>3, OnTheWay, SMTT(20)
    <3> QED BY <2>4, <3>4, RootPlace
  <2>7. at[pd][1] # 1 /\ pd # s1.root /\ pd # pdpt
    BY <2>6, SMT
  <2> HIDE DEF pdpt, pd
  <2>8. /\ Sound(r) /\ Alike(s1, r) /\ \A u \in VirtualPages : Keeps(s1, r, u)
        /\ ~r.panic => /\ Points(r.tab[pd][Index(v, 2)])
                       /\ user => "USER" \in r.tab[pd][Index(v, 2)].flags
                       /\ \A x \in DOMAIN s1.tab, j \in Indices :
                            (x = pd /\ j = Index(v, 2)) \/ r.tab[x][j] = s1.tab[x][j]
                       /\ Bare(r) \subseteq (Bare(s1) \ {pd}) \cup {r.tab[pd][Index(v, 2)].to}
    <3>1. Entered(s1, r, pd, Index(v, 2), user)
      BY <1>0, <1>3, <2>1, <2>4, <2>6, <2>7, GetOrCreateIs
    <3> QED BY <3>1 DEF Entered
  <2>9. Alike(s, r) /\ \A u \in VirtualPages : Keeps(s, r, u)
    BY <1>1, <2>8, AlikeChain, KeepsChain
  <2>10. ASSUME ~r.panic
         PROVE  /\ Gets(r, v, 1)
                /\ user => /\ "USER" \in Pml4e(r, v).flags /\ "USER" \in Pdpte(r, v).flags
                           /\ "USER" \in Pde(r, v).flags
                /\ Bare(r) \subseteq Bare(s) \cup {Pde(r, v).to}
    <3>1. r.root = s1.root /\ r.tab[s1.root][Index(v, 4)] = s1.tab[s1.root][Index(v, 4)]
      BY <1>0, <2>6, <2>7, <2>8, <2>10 DEF Alike
    <3>2. Pml4e(r, v) = Pml4e(s1, v)
      BY <3>1 DEF Pml4e
    <3>3. r.tab[pdpt][Index(v, 3)] = s1.tab[pdpt][Index(v, 3)]
      BY <1>0, <2>6, <2>7, <2>8, <2>10
    <3>4. Pdpte(r, v) = Pdpte(s1, v)
      BY <3>2, <3>3 DEF Pdpte, pdpt
    <3>5. Pde(r, v) = r.tab[pd][Index(v, 2)]
      BY <3>4 DEF Pde, pd
    <3>6. Gets(r, v, 1)
      BY <2>5, <2>8, <2>10, <3>2, <3>4, <3>5, LevelIs
    <3> QED BY <1>1, <1>3, <2>8, <2>10, <3>2, <3>4, <3>5, <3>6
  <2> QED BY <2>8, <2>9, <2>10
<1> QED BY <1>2, <1>3

-----------------------------------------------------------------------------
(* One page.                                                               *)

\* What r has of s when the entry of page v becomes e.
PteWritten(s, r, v, e) ==
  /\ Sound(r) /\ Alike(s, r) /\ r.panic = s.panic
  /\ \A u \in VirtualPages \ {v} : Keeps(s, r, u)
  /\ Translate(r, v) = [to |-> e.to, flags |-> e.flags] /\ Gets(r, v, 1)
  /\ Pml4e(r, v) = Pml4e(s, v) /\ Pdpte(r, v) = Pdpte(s, v) /\ Pde(r, v) = Pde(s, v)
  /\ Bare(r) \subseteq Bare(s) \cup {Pde(s, v).to}
  /\ Present(e) => Pde(s, v).to \notin Bare(r)

\* The entry for v in the table of level 1 is written.
LEMMA WritesPte ==
  ASSUME NEW s, Sound(s), NEW v \in VirtualPages, Gets(s, v, 1),
         NEW e \in Entries, ~e.ps,
         NEW r, r = SetEntry(s, Pde(s, v).to, Index(v, 1), e)
  PROVE  PteWritten(s, r, v, e)
<1> DEFINE t == Pde(s, v).to
<1>1. PICK at : Booked(s) /\ Tree(s, at)
  BY DEF Sound
<1>2. s \in States
  BY <1>1 DEF Booked
<1>3. t \in DOMAIN s.tab /\ at[t] = <<1, Pre(v, 1)>> /\ Tb(s, v, 1) = t
  <2>1. 1 \in 1 .. 4
    BY SMT
  <2> QED BY <1>1, <1>2, <2>1, OnTheWay, LevelIs
<1>4. Index(v, 1) \in Indices /\ at[t][1] = 1
  BY <1>3, Digits, SMT
<1> HIDE DEF t
<1>5. r = SetEntry(s, t, Index(v, 1), e)
  BY DEF t
<1>6. /\ Booked(r) /\ Tree(r, at) /\ Alike(s, r) /\ r.panic = s.panic
      /\ \A u \in VirtualPages : ~Under(at[t], Index(v, 1), u) => Keeps(s, r, u)
      /\ Bare(r) \subseteq Bare(s) \cup {t}
      /\ Present(e) => t \notin Bare(r)
  <2>1. Written(s, r, at, t, Index(v, 1), e)
    BY <1>1, <1>3, <1>4, <1>5, Writes
  <2> QED BY <2>1 DEF Written
<1>7. /\ r.root = s.root /\ r.tab[t][Index(v, 1)] = e
      /\ \A x \in DOMAIN s.tab \ {t} : r.tab[x] = s.tab[x]
  <2>1. EntrySet(s, r, t, Index(v, 1), e)
    BY <1>2, <1>3, <1>4, <1>5, SetEntryIs
  <2> QED BY <2>1 DEF EntrySet
<1>8. ASSUME NEW u \in VirtualPages \ {v} PROVE Keeps(s, r, u)
  <2>1. ASSUME Under(at[t], Index(v, 1), u) PROVE FALSE
    <3>1. PICK l \in 1 .. 4 : at[t] = <<l, Pre(u, l)>> /\ Index(v, 1) = Index(u, l)
      BY <2>1 DEF Under
    <3>2. l = 1
      BY <3>1, <1>4, SMT
    <3>3. Pre(u, 1) = Pre(v, 1) /\ Index(v, 1) = Index(u, 1)
      BY <3>1, <3>2, <1>3, SMT
    <3>4. /\ u = Slot(Pre(u, 1), Index(u, 1))
          /\ v = Slot(Pre(v, 1), Index(v, 1))
      BY Digits
    <3> QED BY <3>3, <3>4
  <2> QED BY <2>1, <1>6
<1>9. /\ Gets(r, v, 1) /\ En(r, v, 1) = r.tab[Tb(s, v, 1)][Index(v, 1)]
      /\ Pml4e(r, v) = Pml4e(s, v) /\ Pdpte(r, v) = Pdpte(s, v) /\ Pde(r, v) = Pde(s, v)
  <2>1. \A x \in DOMAIN s.tab : at[x][1] > 1 => r.tab[x] = s.tab[x]
    BY <1>4, <1>7, SMT
  <2>2. 1 \in 1 .. 4 /\ 1 <= 3 /\ 1 <= 2
    BY SMT
  <2>3. SameAbove(s, r, at, 1)
    BY <2>1 DEF SameAbove
  <2> QED BY <1>1, <1>2, <1>7, <2>2, <2>3, Above, SMTT(20)
<1>10. Pte(r, v) = e
  BY <1>3, <1>7, <1>9, LevelIs
<1>11. Translate(r, v) = [to |-> e.to, flags |-> e.flags]
  BY <1>9, <1>10, TranslateIs
<1> QED BY <1>6, <1>8, <1>9, <1>11 DEF t, Sound, PteWritten

\* What is not mapped has no flags.
LEMMA FlagsMeanMapped ==
  ASSUME NEW s, Sound(s), NEW v \in VirtualPages
  PROVE  Mapped(s, v) \/ Translate(s, v) = Unmapped
<1>1. CASE ~Gets(s, v, 2) \/ ~Present(Pde(s, v))
  BY <1>1, TranslateIs
<1>2. CASE Large(s, v)
  BY <1>2, TranslateIs, SMT DEF Mapped, Present, Large
<1>3. CASE Gets(s, v, 1)
  <2>1. PICK at : Tree(s, at) /\ s \in States
    BY DEF Sound, Booked
  <2>2. Pde(s, v).to \in DOMAIN s.tab /\ Index(v, 1) \in Indices
    BY <1>3, <2>1, OnTheWay, LevelIs, Digits, SMT
  <2>3. Pte(s, v) \in Entries
    BY <2>1, <2>2, TableIs DEF Pte
  <2>4. Pte(s, v) = ZERO \/ Present(Pte(s, v))
    BY <2>3 DEF Entries
  <2>5. Translate(s, v) = [to |-> Pte(s, v).to, flags |-> Pte(s, v).flags]
    BY <1>3, TranslateIs
  <2> QED BY <2>4, <2>5, SMTT(20) DEF Mapped, Present, ZERO, Unmapped
<1> QED BY <1>1, <1>2, <1>3, LevelIs DEF Large, Points

LEMMA MappedWay ==
  ASSUME NEW s, NEW v, Mapped(s, v)
  PROVE  Gets(s, v, 2) /\ Present(Pde(s, v)) /\ (Large(s, v) \/ Gets(s, v, 1))
<1>1. Gets(s, v, 2) /\ Present(Pde(s, v))
  BY TranslateIs, SMT DEF Mapped, Present, Unmapped
<1> QED BY <1>1, LevelIs DEF Large, Points

LEMMA FlagsToHwIs ==
  ASSUME NEW s, NEW flags \in FlagSets
  PROVE  /\ FlagsToHw(s, flags) \subseteq AllFlags /\ "PRESENT" \in FlagsToHw(s, flags)
         /\ "USER" \in FlagsToHw(s, flags) <=> "USER" \in flags
<1> QED BY DEF FlagsToHw, AllFlags

LEMMA MapPageLockedIs ==
  ASSUME NEW s, Sound(s), ~s.panic, Bare(s) = {}, NEW v \in VirtualPages, NEW p \in Nat,
         NEW flags \in FlagSets, NEW r, r = MapPageLocked(s, v, p, flags)
  PROVE  /\ Sound(r.s) /\ Alike(s, r.s) /\ r.ok \in BOOLEAN
         /\ r.s.panic \/ Bare(r.s) = {}
         /\ r.ok => ~r.s.panic
         /\ \A u \in VirtualPages : u # v \/ ~r.ok => Keeps(s, r.s, u)
         /\ r.ok =>
              /\ ~Mapped(s, v)
              /\ Translate(r.s, v) = [to |-> p, flags |-> FlagsToHw(s, flags)]
              /\ "USER" \in flags => UserReaches(r.s, v)
<1> DEFINE user == "USER" \in flags
           s1 == WalkToPt(s, v, user)
           e == [to |-> p, ps |-> FALSE, flags |-> FlagsToHw(s, flags)]
<1>0. user \in BOOLEAN
  BY SMT
<1>1. CASE Refuses(s, v, flags)
  <2>1. r.s = s /\ r.ok = FALSE
    BY <1>1 DEF MapPageLocked, Fails
  <2>2. Alike(s, s) /\ \A u : Keeps(s, s, u)
    BY DEF Alike, Keeps
  <2> QED BY <2>1, <2>2
<1>2. ASSUME ~Refuses(s, v, flags)
      PROVE  /\ Sound(s1) /\ Alike(s, s1) /\ \A u \in VirtualPages : Keeps(s, s1, u)
             /\ ~s1.panic =>
                  /\ Gets(s1, v, 1)
                  /\ user => /\ "USER" \in Pml4e(s1, v).flags /\ "USER" \in Pdpte(s1, v).flags
                             /\ "USER" \in Pde(s1, v).flags
                  /\ Bare(s1) \subseteq Bare(s) \cup {Pde(s1, v).to}
  BY <1>0, WalkToPtIs
<1>3. CASE ~Refuses(s, v, flags) /\ s1.panic
  <2>1. r.s = s1 /\ r.ok = FALSE
    BY <1>3 DEF MapPageLocked, Fails
  <2> QED BY <1>2, <1>3, <2>1
<1>4. CASE ~Refuses(s, v, flags) /\ ~s1.panic
  <2> DEFINE s2 == SetEntry(s1, Pde(s1, v).to, Index(v, 1), e)
  <2>1. r.s = s2 /\ r.ok = TRUE
    BY <1>4 DEF MapPageLocked, Works
  <2>2. e \in Entries /\ ~e.ps /\ Present(e) /\ e.to = p /\ e.flags = FlagsToHw(s, flags)
    BY FlagsToHwIs DEF Entries, Present
  <2> HIDE DEF s1, e, user
  <2>3. /\ Sound(s2) /\ Alike(s1, s2) /\ s2.panic = s1.panic
        /\ \A u \in VirtualPages \ {v} : Keeps(s1, s2, u)
        /\ Translate(s2, v) = [to |-> e.to, flags |-> e.flags]
        /\ Pml4e(s2, v) = Pml4e(s1, v) /\ Pdpte(s2, v) = Pdpte(s1, v) /\ Pde(s2, v) = Pde(s1, v)
        /\ Bare(s2) \subseteq Bare(s1) \cup {Pde(s1, v).to}
        /\ Pde(s1, v).to \notin Bare(s2)
    <3>1. PteWritten(s1, s2, v, e)
      BY <1>2, <1>4, <2>2, WritesPte
    <3> QED BY <2>2, <3>1 DEF PteWritten
  <2> HIDE DEF s2
  <2>4. Alike(s, s2) /\ \A u \in VirtualPages \ {v} : Keeps(s, s2, u)
    BY <1>2, <1>4, <2>3, AlikeChain, KeepsChain
  <2>5. Bare(s2) = {}
    BY <1>2, <1>4, <2>3
  <2>6. ~Mapped(s, v)
    BY <1>4 DEF Refuses
  <2>7. Translate(s2, v) = [to |-> p, flags |-> FlagsToHw(s, flags)]
    BY <2>2, <2>3
  <2>8. "USER" \in flags => UserReaches(s2, v)
    <3>1. Mapped(s2, v)
      BY <2>7, FlagsToHwIs, SMT DEF Mapped, Present
    <3>2. "USER" \in flags => "USER" \in Translate(s2, v).flags
      BY <2>7, FlagsToHwIs, SMT
    <3>3. "USER" \in flags => /\ "USER" \in Pml4e(s2, v).flags /\ "USER" \in Pdpte(s2, v).flags
                              /\ "USER" \in Pde(s2, v).flags
      BY <1>2, <1>4, <2>3 DEF user
    <3> QED BY <3>1, <3>2, <3>3 DEF UserReaches
  <2> QED BY <1>4, <2>1, <2>3, <2>4, <2>5, <2>6, <2>7, <2>8
<1> QED BY <1>1, <1>3, <1>4

\* A round of free_empty_tables: the empty table below the entry of level l for
\* v is freed.
LEMMA FreesBelow ==
  ASSUME NEW s, Sound(s), NEW v \in VirtualPages, NEW l \in 2 .. 4, Gets(s, v, l),
         Points(En(s, v, l)), IsTableEmpty(s, En(s, v, l).to),
         NEW r, r = FreeTable(s, En(s, v, l).to, Tb(s, v, l), Index(v, l))
  PROVE  /\ Sound(r) /\ Alike(s, r) /\ r.panic = s.panic /\ Gets(r, v, l)
         /\ \A u \in VirtualPages : Keeps(s, r, u)
         /\ Bare(r) \subseteq (Bare(s) \ {En(s, v, l).to}) \cup {Tb(s, v, l)}
         /\ l <= 3 => Pml4e(r, v) = Pml4e(s, v)
         /\ l <= 2 => Pdpte(r, v) = Pdpte(s, v)
<1> DEFINE p == Tb(s, v, l)
           i == Index(v, l)
           y == s.tab[p][i].to
<1>0. y = En(s, v, l).to /\ Points(s.tab[p][i]) /\ IsTableEmpty(s, y)
  BY DEF En
<1>1. PICK at : Booked(s) /\ Tree(s, at)
  BY DEF Sound
<1>2. s \in States /\ l \in 1 .. 4 /\ (l = 2 \/ l = 3 \/ l = 4)
  BY <1>1, SMT DEF Booked
<1>3. p \in DOMAIN s.tab /\ at[p] = <<l, Pre(v, l)>>
  BY <1>1, <1>2, OnTheWay
<1>4. i \in Indices /\ at[p][1] # 1 /\ at[p][1] = l
  <2>1. i \in Indices
    BY <1>2, Digits
  <2> QED BY <1>3, <2>1, SMT
<1>5. r = FreeTable(s, y, p, i)
  BY <1>0
<1> HIDE DEF p, i
<1>6. /\ Booked(r) /\ (\E place : Tree(r, place)) /\ Alike(s, r) /\ r.panic = s.panic
      /\ DOMAIN r.tab = DOMAIN s.tab \ {y}
      /\ \A x \in DOMAIN r.tab \ {p} : r.tab[x] = s.tab[x]
      /\ \A u \in VirtualPages : Keeps(s, r, u)
      /\ Bare(r) \subseteq (Bare(s) \ {y}) \cup {p}
  BY <1>0, <1>1, <1>3, <1>4, <1>5, Shrinks, SMT
<1>7. at[y][1] = l - 1
  <2>1. at[y] = Below(at[p], i)
    BY <1>0, <1>1, <1>3, <1>4, ZenonT(30) DEF Tree
  <2> QED BY <2>1, <1>4, BelowIs
<1> HIDE DEF y
<1>8. \A x \in DOMAIN s.tab : at[x][1] > l => r.tab[x] = s.tab[x]
  <2>1. ~(at[p][1] > l) /\ ~(at[y][1] > l)
    BY <1>2, <1>4, <1>7, SMT
  <2> QED BY <1>6, <2>1
<1>9. r.root = s.root
  BY <1>6 DEF Alike
<1>10. /\ Gets(r, v, l)
       /\ l <= 3 => Pml4e(r, v) = Pml4e(s, v)
       /\ l <= 2 => Pdpte(r, v) = Pdpte(s, v)
  <2>1. SameAbove(s, r, at, l)
    BY <1>8 DEF SameAbove
  <2>2. s \in States /\ l \in 1 .. 4 /\ Tree(s, at)
    BY <1>1, <1>2
  <2> QED BY <1>9, <2>1, <2>2, Above, SMT
<1> QED BY <1>0, <1>6, <1>10 DEF Sound, p

LEMMA FreeEmptyTablesIs ==
  ASSUME NEW s, Sound(s), NEW v \in VirtualPages, Gets(s, v, 1),
         Bare(s) \subseteq {Pde(s, v).to}, NEW r, r = FreeEmptyTables(s, v)
  PROVE  /\ Sound(r) /\ Alike(s, r) /\ r.panic = s.panic /\ Bare(r) = {}
         /\ \A u \in VirtualPages : Keeps(s, r, u)
<1> DEFINE pdpt == Pml4e(s, v).to
           pd == Pdpte(s, v).to
           pt == Pde(s, v).to
           s1 == FreeTable(s, pt, pd, Index(v, 2))
           s2 == FreeTable(s1, pd, pdpt, Index(v, 3))
           s3 == FreeTable(s2, pdpt, s.root, Index(v, 4))
<1>0. 2 \in 2 .. 4 /\ 3 \in 2 .. 4 /\ 4 \in 2 .. 4 /\ 2 <= 3 /\ 2 <= 2 /\ 3 <= 3
  BY SMT
<1>1. Gets(s, v, 2) /\ Points(Pde(s, v)) /\ Gets(s, v, 3)
  BY LevelIs
<1>2. CASE ~IsTableEmpty(s, pt)
  <2>1. r = s
    BY <1>2 DEF FreeEmptyTables
  <2>2. Alike(s, s) /\ \A u : Keeps(s, s, u)
    BY DEF Alike, Keeps
  <2>3. Bare(s) = {}
    BY <1>2 DEF Bare
  <2> QED BY <2>1, <2>2, <2>3
<1>3. ASSUME IsTableEmpty(s, pt)
      PROVE  /\ Sound(s1) /\ Alike(s, s1) /\ s1.panic = s.panic /\ Gets(s1, v, 2)
             /\ \A u \in VirtualPages : Keeps(s, s1, u)
             /\ Bare(s1) \subseteq (Bare(s) \ {pt}) \cup {pd}
             /\ Pml4e(s1, v) = Pml4e(s, v) /\ Pdpte(s1, v) = Pdpte(s, v)
  <2>1. En(s, v, 2) = Pde(s, v) /\ Tb(s, v, 2) = pd
    BY LevelIs
  <2>2. s1 = FreeTable(s, En(s, v, 2).to, Tb(s, v, 2), Index(v, 2))
    BY <2>1
  <2> HIDE DEF s1
  <2> QED BY <1>0, <1>1, <1>3, <2>1, <2>2, FreesBelow, SMT
<1>4. CASE IsTableEmpty(s, pt) /\ ~IsTableEmpty(s1, pd)
  <2>1. r = s1
    BY <1>4 DEF FreeEmptyTables
  <2> HIDE DEF s1
  <2>2. pd \notin Bare(s1)
    BY <1>4 DEF Bare
  <2>3. Bare(s1) = {}
    BY <1>3, <1>4, <2>2
  <2> QED BY <1>3, <1>4, <2>1, <2>3
<1>5. ASSUME IsTableEmpty(s, pt), IsTableEmpty(s1, pd)
      PROVE  /\ Sound(s2) /\ Alike(s, s2) /\ s2.panic = s.panic /\ Gets(s2, v, 3)
             /\ \A u \in VirtualPages : Keeps(s, s2, u)
             /\ Bare(s2) \subseteq {pdpt}
             /\ Pml4e(s2, v) = Pml4e(s, v)
  <2> HIDE DEF s1
  <2>1. Gets(s1, v, 3) /\ Points(Pdpte(s1, v))
    <3>1. Gets(s1, v, 3) /\ Present(Pdpte(s1, v))
      BY <1>3, <1>5, LevelIs
    <3> QED BY <3>1, <1>3, <1>5, PointsUp
  <2>2. En(s1, v, 3) = Pdpte(s1, v) /\ Tb(s1, v, 3) = pdpt /\ En(s1, v, 3).to = pd
    BY <1>3, <1>5, LevelIs
  <2>3. s2 = FreeTable(s1, En(s1, v, 3).to, Tb(s1, v, 3), Index(v, 3))
    BY <2>2
  <2> HIDE DEF s2, pd, pdpt, pt
  <2>4. /\ Sound(s2) /\ Alike(s1, s2) /\ s2.panic = s1.panic /\ Gets(s2, v, 3)
        /\ \A u \in VirtualPages : Keeps(s1, s2, u)
        /\ Bare(s2) \subseteq (Bare(s1) \ {pd}) \cup {pdpt}
        /\ Pml4e(s2, v) = Pml4e(s1, v)
    BY <1>0, <1>3, <1>5, <2>1, <2>2, <2>3, FreesBelow, SMT
  <2>5. Bare(s2) \subseteq {pdpt}
    BY <1>3, <1>5, <2>4 DEF pt
  <2> QED BY <1>3, <1>5, <2>4, <2>5, AlikeChain, KeepsChain
<1>6. CASE IsTableEmpty(s, pt) /\ IsTableEmpty(s1, pd) /\ ~IsTableEmpty(s2, pdpt)
  <2>1. r = s2
    BY <1>6 DEF FreeEmptyTables
  <2> HIDE DEF s1, s2
  <2>2. pdpt \notin Bare(s2)
    BY <1>6 DEF Bare
  <2>3. Bare(s2) = {}
    BY <1>5, <1>6, <2>2
  <2> QED BY <1>5, <1>6, <2>1, <2>3
<1>7. CASE IsTableEmpty(s, pt) /\ IsTableEmpty(s1, pd) /\ IsTableEmpty(s2, pdpt)
  <2>1. r = s3
    BY <1>7 DEF FreeEmptyTables
  <2> HIDE DEF s1, s2
  <2>2. Points(Pml4e(s2, v)) /\ s2.root = s.root /\ Gets(s2, v, 4)
    BY <1>5, <1>7, PointsUp, LevelIs DEF Alike
  <2>3. En(s2, v, 4) = Pml4e(s2, v) /\ Tb(s2, v, 4) = s.root /\ En(s2, v, 4).to = pdpt
    BY <1>5, <1>7, <2>2, LevelIs
  <2>4. r = FreeTable(s2, En(s2, v, 4).to, Tb(s2, v, 4), Index(v, 4))
    BY <2>1, <2>3
  <2>5. /\ Sound(r) /\ Alike(s2, r) /\ r.panic = s2.panic
        /\ \A u \in VirtualPages : Keeps(s2, r, u)
        /\ Bare(r) \subseteq (Bare(s2) \ {pdpt}) \cup {s.root}
    BY <1>0, <1>5, <1>7, <2>2, <2>3, <2>4, FreesBelow, SMT
  <2>6. Bare(r) = {}
    <3>1. r.root \notin Bare(r) /\ r.root = s.root
      BY <2>2, <2>5 DEF Bare, Alike
    <3> QED BY <1>5, <1>7, <2>5, <3>1
  <2> QED BY <1>5, <1>7, <2>5, <2>6, AlikeChain, KeepsChain
<1> QED BY <1>2, <1>4, <1>6, <1>7

LEMMA UnmapPageLockedIs ==
  ASSUME NEW s, Sound(s), ~s.panic, Bare(s) = {}, NEW v \in VirtualPages,
         NEW r, r = UnmapPageLocked(s, v)
  PROVE  \/ r.s = s
         \/ /\ Sound(r.s) /\ Alike(s, r.s) /\ ~r.s.panic /\ Bare(r.s) = {}
            /\ Mapped(s, v) /\ ~Large(s, v) /\ Translate(r.s, v) = Unmapped
            /\ \A u \in VirtualPages \ {v} : Keeps(s, r.s, u)
<1>1. CASE ~HasPte(s, v)
  BY <1>1 DEF UnmapPageLocked, Fails
<1>2. CASE HasPte(s, v)
  <2> DEFINE z == ZERO
             q == SetEntry(s, Pde(s, v).to, Index(v, 1), z)
  <2>1. r.s = FreeEmptyTables(q, v)
    BY <1>2 DEF UnmapPageLocked, Works
  <2>0. z \in Entries /\ ~z.ps
    BY EntryTypes DEF ZERO
  <2>2. Mapped(s, v) /\ ~Large(s, v) /\ Gets(s, v, 1)
    BY <1>2, MappedWay DEF HasPte, Large
  <2>3. /\ Sound(q) /\ Alike(s, q) /\ q.panic = s.panic
        /\ \A u \in VirtualPages \ {v} : Keeps(s, q, u)
        /\ Translate(q, v) = [to |-> z.to, flags |-> z.flags] /\ Gets(q, v, 1)
        /\ Pde(q, v) = Pde(s, v)
        /\ Bare(q) \subseteq Bare(s) \cup {Pde(s, v).to}
    <3> HIDE DEF z
    <3>1. PteWritten(s, q, v, z)
      BY <2>0, <2>2, WritesPte
    <3> QED BY <3>1 DEF PteWritten
  <2> HIDE DEF q
  <2>4. Translate(q, v) = Unmapped
    BY <2>3 DEF ZERO, Unmapped
  <2>5. /\ Sound(r.s) /\ Alike(q, r.s) /\ r.s.panic = q.panic /\ Bare(r.s) = {}
        /\ \A u \in VirtualPages : Keeps(q, r.s, u)
    BY <2>1, <2>3, FreeEmptyTablesIs
  <2>6. Translate(r.s, v) = Unmapped
    BY <2>4, <2>5 DEF Keeps
  <2> QED BY <2>2, <2>3, <2>5, <2>6, AlikeChain, KeepsChain
<1> QED BY <1>1, <1>2

LEMMA ProtectPageLockedIs ==
  ASSUME NEW s, Sound(s), ~s.panic, Bare(s) = {}, NEW v \in VirtualPages,
         NEW flags \in FlagSets, NEW r, r = ProtectPageLocked(s, v, flags)
  PROVE  \/ r.s = s
         \/ /\ Sound(r.s) /\ Alike(s, r.s) /\ ~r.s.panic /\ Bare(r.s) = {}
            /\ Mapped(s, v) /\ ~Large(s, v)
            /\ Translate(r.s, v) = [to |-> Translate(s, v).to, flags |-> FlagsToHw(s, flags)]
            /\ UserReaches(s, v) /\ "USER" \in flags => UserReaches(r.s, v)
            /\ \A u \in VirtualPages \ {v} : Keeps(s, r.s, u)
<1>1. CASE ~HasPte(s, v)
  BY <1>1 DEF ProtectPageLocked, Fails
<1>2. CASE HasPte(s, v)
  <2> DEFINE e == [Pte(s, v) EXCEPT !.flags = FlagsToHw(s, flags)]
             q == SetEntry(s, Pde(s, v).to, Index(v, 1), e)
  <2>1. r.s = q
    BY <1>2 DEF ProtectPageLocked, Works
  <2>2. Mapped(s, v) /\ ~Large(s, v) /\ Gets(s, v, 1)
    BY <1>2, MappedWay DEF HasPte, Large
  <2>3. Pte(s, v) \in Entries /\ ~Pte(s, v).ps
    <3>1. PICK at : Tree(s, at) /\ s \in States
      BY DEF Sound, Booked
    <3>2. Pde(s, v).to \in DOMAIN s.tab /\ Index(v, 1) \in Indices
          /\ at[Pde(s, v).to] = <<1, Pre(v, 1)>>
      <4>1. 1 \in 1 .. 4
        BY SMT
      <4>2. Tb(s, v, 1) = Pde(s, v).to
        BY LevelIs
      <4> QED BY <2>2, <3>1, <4>1, <4>2, OnTheWay, Digits, SMT
    <3>3. Pte(s, v) \in Entries
      BY <3>1, <3>2, TableIs DEF Pte
    <3>4. at[Pde(s, v).to][1] # 2
      BY <3>2, SMT
    <3> QED BY <3>1, <3>2, <3>3, <3>4 DEF Tree, Pte
  <2>4. e \in Entries /\ ~e.ps /\ Present(e) /\ e.to = Pte(s, v).to
        /\ e.flags = FlagsToHw(s, flags)
    BY <2>3, FlagsToHwIs DEF Entries, Present
  <2> HIDE DEF e
  <2>5. /\ Sound(q) /\ Alike(s, q) /\ q.panic = s.panic
        /\ \A u \in VirtualPages \ {v} : Keeps(s, q, u)
        /\ Translate(q, v) = [to |-> e.to, flags |-> e.flags]
        /\ Pml4e(q, v) = Pml4e(s, v) /\ Pdpte(q, v) = Pdpte(s, v) /\ Pde(q, v) = Pde(s, v)
        /\ Bare(q) \subseteq Bare(s) \cup {Pde(s, v).to}
        /\ Pde(s, v).to \notin Bare(q)
    <3>1. PteWritten(s, q, v, e)
      BY <2>2, <2>4, WritesPte, ZenonT(30)
    <3> QED BY <2>4, <3>1 DEF PteWritten
  <2> HIDE DEF q
  <2>7. Translate(s, v).to = Pte(s, v).to
    BY <2>2, TranslateIs, SMT
  <2>8. Translate(q, v) = [to |-> Translate(s, v).to, flags |-> FlagsToHw(s, flags)]
    BY <2>4, <2>5, <2>7
  <2>9. ASSUME UserReaches(s, v), "USER" \in flags PROVE UserReaches(q, v)
    <3>1. Mapped(q, v) /\ "USER" \in Translate(q, v).flags
      BY <2>8, <2>9, FlagsToHwIs, SMT DEF Mapped, Present
    <3> QED BY <2>5, <2>9, <3>1 DEF UserReaches
  <2> QED BY <2>1, <2>2, <2>5, <2>8, <2>9
<1> QED BY <1>1, <1>2

LEMMA KernelFlagsAre ==
  /\ KernelFlags \cup {"PRESENT"} \subseteq AllFlags
  /\ "PRESENT" \in KernelFlags \cup {"PRESENT"}
BY DEF KernelFlags, AllFlags

\* No table is empty; the pages of the large page at v have no table; and
\* unless it panics, a mapping of paging_init puts page v, or the large page
\* at v, on frame p and leaves the others alone.
NoneBare(s) == Bare(s) = {}
NoSmall(s, v) ==
  \A u \in VirtualPages : Pre(u, 1) = Pre(v, 1) => ~Mapped(s, u) \/ Large(s, u)
MapsAt(s, r, v, p) ==
  /\ Sound(r) /\ Alike(s, r)
  /\ ~r.panic => /\ Bare(r) = {} /\ Mapped(r, v) /\ Translate(r, v).to = p
                 /\ \A u \in VirtualPages : u # v \/ Mapped(s, u) => Keeps(s, r, u)
MapsLargeAt(s, r, v, p) ==
  /\ Sound(r) /\ Alike(s, r)
  /\ ~r.panic =>
       /\ Bare(r) = {}
       /\ \A u \in VirtualPages :
            IF Pre(u, 1) = Pre(v, 1)
              THEN Large(r, u) /\ Mapped(r, u) /\ Translate(r, u).to = p + Index(u, 1)
              ELSE Keeps(s, r, u)

LEMMA Map4kIs ==
  ASSUME NEW s, Sound(s), ~s.panic, NoneBare(s), NEW v \in VirtualPages, NEW p \in Nat,
         NEW r, r = Map4k(s, v, p, KernelFlags), ~Mapped(s, v)
  PROVE  MapsAt(s, r, v, p)
<1>0. Bare(s) = {}
  BY DEF NoneBare
<1> DEFINE s1 == WalkToPt(s, v, FALSE)
           e == [to |-> p, ps |-> FALSE, flags |-> KernelFlags \cup {"PRESENT"}]
<1>1. /\ Sound(s1) /\ Alike(s, s1) /\ \A u \in VirtualPages : Keeps(s, s1, u)
      /\ ~s1.panic => Gets(s1, v, 1) /\ Bare(s1) \subseteq Bare(s) \cup {Pde(s1, v).to}
  <2> QED BY WalkToPtIs
<1>2. CASE s1.panic
  <2>1. r = s1
    BY <1>2 DEF Map4k
  <2> QED BY <1>1, <1>2, <2>1 DEF MapsAt
<1>3. CASE ~s1.panic
  <2>1. r = SetEntry(s1, Pde(s1, v).to, Index(v, 1), e)
    BY <1>3 DEF Map4k
  <2>2. e \in Entries /\ ~e.ps /\ Present(e) /\ e.to = p
    BY KernelFlagsAre DEF Entries, Present
  <2> HIDE DEF s1, e
  <2>3. /\ Sound(r) /\ Alike(s1, r) /\ \A u \in VirtualPages \ {v} : Keeps(s1, r, u)
        /\ Translate(r, v) = [to |-> e.to, flags |-> e.flags]
        /\ Bare(r) \subseteq Bare(s1) \cup {Pde(s1, v).to}
        /\ Pde(s1, v).to \notin Bare(r)
    <3>1. PteWritten(s1, r, v, e)
      BY <1>1, <1>3, <2>1, <2>2, WritesPte
    <3> QED BY <2>2, <3>1 DEF PteWritten
  <2>4. Bare(r) = {}
    BY <1>0, <1>1, <1>3, <2>3
  <2>5. Mapped(r, v) /\ Translate(r, v).to = p
    BY <2>2, <2>3, SMT DEF Mapped, Present
  <2>6. Alike(s, r) /\ \A u \in VirtualPages \ {v} : Keeps(s, r, u)
    BY <1>1, <2>3, AlikeChain, KeepsChain
  <2> QED BY <2>3, <2>4, <2>5, <2>6 DEF MapsAt
<1> QED BY <1>2, <1>3

\* map_page_2m does not cut off a table that has pages.
LEMMA Map2mIs ==
  ASSUME NEW s, Sound(s), ~s.panic, NoneBare(s), NEW v \in VirtualPages, NEW p \in Nat,
         NoSmall(s, v), NEW r, r = Map2m(s, v, p, KernelFlags)
  PROVE  MapsLargeAt(s, r, v, p)
<1>0. /\ Bare(s) = {}
      /\ \A u \in VirtualPages : Pre(u, 1) = Pre(v, 1) => ~Mapped(s, u) \/ Large(s, u)
  BY DEF NoneBare, NoSmall
<1> DEFINE s1 == WalkToPd(s, v, FALSE)
           e == [to |-> p, ps |-> TRUE, flags |-> KernelFlags \cup {"PRESENT"}]
<1>1. /\ Sound(s1) /\ Alike(s, s1) /\ \A u \in VirtualPages : Keeps(s, s1, u)
      /\ ~s1.panic => Gets(s1, v, 2) /\ Bare(s1) \subseteq Bare(s) \cup {Pdpte(s1, v).to}
  <2> QED BY WalkToPdIs
<1>2. CASE v % FANOUT # 0 \/ p % FANOUT # 0
  <2>1. r = [s EXCEPT !.panic = TRUE] /\ Booked(s) /\ TRUE \in BOOLEAN
    BY <1>2 DEF Map2m, Sound
  <2>2. Booked(r) /\ Alike(s, r) /\ r.panic = TRUE /\ r.root = s.root /\ r.tab = s.tab
    BY <2>1, Panics
  <2> QED BY <2>2, SameTables DEF Sound, MapsLargeAt
<1>3. CASE ~(v % FANOUT # 0 \/ p % FANOUT # 0) /\ s1.panic
  <2>1. r = s1
    BY <1>3 DEF Map2m
  <2> QED BY <1>1, <1>3, <2>1 DEF MapsLargeAt
<1>4. CASE ~(v % FANOUT # 0 \/ p % FANOUT # 0) /\ ~s1.panic
  <2> DEFINE t == Pdpte(s1, v).to
             i == Index(v, 2)
  <2>1. r = SetEntry(s1, t, i, e)
    BY <1>4 DEF Map2m
  <2>2. e \in Entries /\ e.ps /\ Present(e) /\ e.to = p
    BY KernelFlagsAre DEF Entries, Present
  <2> HIDE DEF s1, e
  <2>3. PICK at : Booked(s1) /\ Tree(s1, at)
    BY <1>1 DEF Sound
  <2>4. s1 \in States /\ i \in Indices
    BY <2>3, Digits DEF Booked
  <2>5. /\ t \in DOMAIN s1.tab /\ at[t] = <<2, Pre(v, 2)>> /\ at[t][1] = 2
        /\ Tb(s1, v, 2) = t /\ En(s1, v, 2) = Pde(s1, v) /\ Pde(s1, v) = s1.tab[t][i]
    <3>1. Tb(s1, v, 2) = t /\ En(s1, v, 2) = Pde(s1, v) /\ Pde(s1, v) = s1.tab[t][i]
      BY LevelIs DEF Pde
    <3>2. 2 \in 1 .. 4 /\ \A x : <<2, x>>[1] = 2
      BY SMT
    <3>3. t \in DOMAIN s1.tab /\ at[t] = <<2, Pre(v, 2)>>
      <4> HIDE DEF t
      <4> QED BY <1>1, <1>4, <2>3, <2>4, <3>1, <3>2, OnTheWay, SMT
    <3> QED BY <3>1, <3>2, <3>3
  <2>6. ASSUME Points(Pde(s1, v)) PROVE FALSE
    <3> DEFINE pt == Pde(s1, v).to
    <3>1. Gets(s1, v, 1)
      BY <1>1, <1>4, <2>6, LevelIs
    <3>2. pt \in DOMAIN s1.tab /\ at[pt] = <<1, Pre(v, 1)>>
      <4>1. 1 \in 1 .. 4
        BY SMT
      <4>2. Tb(s1, v, 1) = pt
        BY LevelIs
      <4> HIDE DEF pt
      <4> QED BY <2>3, <2>4, <3>1, <4>1, <4>2, OnTheWay, SMT
    <3>3. pt # t /\ pt # s1.root
      <4>1. \A x : <<1, x>>[1] = 1 /\ <<1, x>>[1] # 2 /\ <<1, x>>[1] # 4
        BY SMT
      <4>2. at[t][1] = 2 /\ at[pt][1] # 2 /\ at[pt][1] # 4 /\ at[s1.root][1] = 4
        BY <2>3, <2>5, <3>2, <4>1, RootPlace
      <4> QED BY <4>2
    <3>4. ~IsTableEmpty(s1, pt)
      BY <1>0, <1>1, <1>4, <3>2, <3>3 DEF Bare
    <3>5. s1.tab[pt] \in [Indices -> Entries]
      BY <2>4, <3>2, TableIs DEF Tables
    <3>6. PICK j \in Indices : s1.tab[pt][j] # ZERO
      BY <3>4, <3>5 DEF IsTableEmpty, EmptyTable, Indices
    <3>7. Present(s1.tab[pt][j])
      BY <3>5, <3>6 DEF Entries
    <3>8. PICK u \in VirtualPages : Pre(u, 1) = Pre(v, 1) /\ Index(u, 1) = j
      BY Neighbour
    <3>9. Pde(s1, u) = Pde(s1, v) /\ Gets(s1, u, 1) /\ Tb(s1, u, 1) = pt
      <4>1. Pre(u, 1) = Pre(v, 1) /\ 1 \in 1 .. 4
        BY <3>8, SMT
      <4>2. Gets(s1, u, 1) /\ Tb(s1, u, 1) = pt
        <5> HIDE DEF pt
        <5> QED BY <2>3, <2>4, <3>2, <4>1, Reached, SMT
      <4> QED BY <3>8, <4>2, SharedWay
    <3>10. Pte(s1, u) = s1.tab[pt][j]
      BY <3>8, <3>9 DEF Pte
    <3>11. Mapped(s1, u)
      BY <3>7, <3>9, <3>10, TranslateIs, SMT DEF Mapped, Present
    <3>12. Mapped(s, u)
      BY <1>1, <3>11 DEF Keeps, Mapped
    <3>13. Large(s1, u)
      BY <1>0, <1>1, <3>8, <3>12 DEF Keeps
    <3> QED BY <2>6, <3>9, <3>13 DEF Large, Points
  <2>7. ~Points(s1.tab[t][i])
    BY <2>5, <2>6
  <2> HIDE DEF t, i
  <2>8. /\ Booked(r) /\ Tree(r, at) /\ Alike(s1, r)
        /\ \A u \in VirtualPages : ~Under(at[t], i, u) => Keeps(s1, r, u)
        /\ Bare(r) \subseteq Bare(s1) \cup {t} /\ t \notin Bare(r)
    <3>1. Written(s1, r, at, t, i, e)
      BY <2>1, <2>2, <2>3, <2>4, <2>5, <2>7, Writes
    <3> QED BY <2>2, <3>1 DEF Written
  <2>9. /\ r.root = s1.root /\ r.tab[t][i] = e
        /\ \A x \in DOMAIN s1.tab \ {t} : r.tab[x] = s1.tab[x]
    <3>1. EntrySet(s1, r, t, i, e)
      BY <2>1, <2>2, <2>4, <2>5, SetEntryIs
    <3> QED BY <3>1 DEF EntrySet
  <2>10. Bare(r) = {}
    BY <1>0, <1>1, <1>4, <2>8 DEF t
  <2>11. ASSUME NEW u \in VirtualPages, Pre(u, 1) = Pre(v, 1)
         PROVE  Large(r, u) /\ Mapped(r, u) /\ Translate(r, u).to = p + Index(u, 1)
    <3>1. Pre(u, 2) = Pre(v, 2) /\ Index(u, 2) = i
      BY <2>11, Neighbours DEF i
    <3>2. Gets(s1, u, 2) /\ Tb(s1, u, 2) = t
      <4>1. 2 \in 1 .. 4
        BY SMT
      <4> QED BY <2>3, <2>4, <2>5, <3>1, <4>1, Reached, SMT
    <3>3. \A x \in DOMAIN s1.tab : at[x][1] > 2 => r.tab[x] = s1.tab[x]
      BY <2>5, <2>9, SMT
    <3>4. 2 \in 1 .. 4
      BY SMT
    <3>5. Gets(r, u, 2) /\ En(r, u, 2) = r.tab[Tb(s1, u, 2)][Index(u, 2)]
      <4>1. SameAbove(s1, r, at, 2)
        BY <3>3 DEF SameAbove
      <4> QED BY <2>3, <2>4, <2>9, <3>2, <3>4, <4>1, Above, SMTT(20)
    <3>6. Pde(r, u) = e
      BY <2>9, <3>1, <3>2, <3>5, LevelIs
    <3>7. Large(r, u)
      BY <2>2, <3>5, <3>6 DEF Large
    <3>8. Translate(r, u) = [to |-> e.to + Index(u, 1), flags |-> e.flags]
      BY <3>6, <3>7, TranslateIs
    <3> QED BY <2>2, <3>7, <3>8, SMT DEF Mapped, Present
  <2>12. ASSUME NEW u \in VirtualPages, Pre(u, 1) # Pre(v, 1) PROVE Keeps(s, r, u)
    <3>1. ASSUME Under(at[t], i, u) PROVE FALSE
      <4>1. PICK l \in 1 .. 4 : at[t] = <<l, Pre(u, l)>> /\ i = Index(u, l)
        BY <3>1 DEF Under
      <4>2. l = 2
        BY <2>5, <4>1, SMT
      <4>3. Pre(u, 2) = Pre(v, 2) /\ Index(u, 2) = Index(v, 2)
        BY <2>5, <4>1, <4>2, SMT DEF i
      <4>4. Pre(u, 1) = Pre(v, 1)
        BY <4>3, Digits
      <4> QED BY <2>12, <4>4
    <3> QED BY <1>1, <2>8, <3>1, KeepsChain
  <2>13. Sound(r) /\ Alike(s, r)
    BY <1>1, <2>8, AlikeChain DEF Sound
  <2> QED BY <2>10, <2>11, <2>12, <2>13 DEF MapsLargeAt
<1> QED BY <1>2, <1>3, <1>4

LEMMA EnsurePageMappingIs ==
  ASSUME NEW s, Sound(s), ~s.panic, NoneBare(s), NEW v \in VirtualPages, NEW p \in Nat,
         NEW r, r = EnsurePageMapping(s, v, p)
  PROVE  MapsAt(s, r, v, p)
<1>1. CASE Mapped(s, v)
  <2>1. Booked(s) /\ (Translate(s, v).to # p) \in BOOLEAN
    BY DEF Sound
  <2>2. r = [s EXCEPT !.panic = (Translate(s, v).to # p)]
    BY <1>1 DEF EnsurePageMapping
  <2>3. Booked(r) /\ Alike(s, r) /\ r.panic = (Translate(s, v).to # p) /\ r.root = s.root /\ r.tab = s.tab
    BY <2>1, <2>2, Panics
  <2>4. Sound(r) /\ Bare(r) = {} /\ \A u : Keeps(s, r, u)
    BY <2>3, SameTables DEF Sound, NoneBare
  <2>5. Translate(r, v) = Translate(s, v)
    BY <2>4 DEF Keeps
  <2> QED BY <1>1, <2>3, <2>4, <2>5 DEF Mapped, MapsAt
<1>2. CASE ~Mapped(s, v)
  <2>1. r = Map4k(s, v, p, KernelFlags)
    BY <1>2 DEF EnsurePageMapping
  <2> QED BY <1>2, <2>1, Map4kIs
<1> QED BY <1>1, <1>2
-----------------------------------------------------------------------------
(* Ranges.                                                                 *)

\* Page u, which was not mapped, is on frame p.
Puts(s, r, u, p, flags) ==
  /\ ~Mapped(s, u) /\ Translate(r, u) = [to |-> p, flags |-> FlagsToHw(s, flags)]
  /\ "USER" \in flags => UserReaches(r, u)

\* Nothing but some of the i pages from v is mapped, to the frames from p.
MapsOnly(s, r, v, p, i, flags) ==
  /\ Sound(r) /\ Alike(s, r) /\ (r.panic \/ Bare(r) = {})
  /\ \A u \in VirtualPages :
       Keeps(s, r, u) \/ \E k \in 0 .. i - 1 : u = v + k /\ Puts(s, r, u, p + k, flags)

LEMMA MapsNone ==
  ASSUME NEW s, Sound(s), Bare(s) = {}, NEW v, NEW p, NEW i, NEW flags
  PROVE  MapsOnly(s, s, v, p, i, flags)
BY DEF MapsOnly, Alike, Keeps

LEMMA MapsMore ==
  ASSUME NEW s, NEW q, NEW v \in Nat, NEW p \in Nat, NEW i \in Nat, NEW flags \in FlagSets,
         MapsOnly(s, q, v, p, i, flags), ~q.panic, v + i \in VirtualPages,
         NEW r, r = MapPageLocked(q, v + i, p + i, flags)
  PROVE  /\ MapsOnly(s, r.s, v, p, i + 1, flags)
         /\ r.ok \in BOOLEAN /\ (r.ok => ~r.s.panic)
<1>1. /\ Sound(q) /\ Bare(q) = {} /\ Alike(s, q)
      /\ \A u \in VirtualPages :
           Keeps(s, q, u) \/ \E k \in 0 .. i - 1 : u = v + k /\ Puts(s, q, u, p + k, flags)
  BY DEF MapsOnly
<1>2. p + i \in Nat
  BY SMTT(20)
<1>3. /\ Sound(r.s) /\ Alike(q, r.s) /\ r.ok \in BOOLEAN
      /\ r.s.panic \/ Bare(r.s) = {}
      /\ r.ok => ~r.s.panic
      /\ \A u \in VirtualPages : u # v + i \/ ~r.ok => Keeps(q, r.s, u)
      /\ r.ok =>
           /\ ~Mapped(q, v + i)
           /\ Translate(r.s, v + i) = [to |-> p + i, flags |-> FlagsToHw(q, flags)]
           /\ "USER" \in flags => UserReaches(r.s, v + i)
  BY <1>1, <1>2, MapPageLockedIs, SMT
<1>4. FlagsToHw(q, flags) = FlagsToHw(s, flags)
  BY <1>1 DEF FlagsToHw, Alike
<1>5. ASSUME NEW u \in VirtualPages
      PROVE  Keeps(s, r.s, u) \/ \E k \in 0 .. i : u = v + k /\ Puts(s, r.s, u, p + k, flags)
  <2>1. CASE u = v + i /\ r.ok
    <3>1. ~Mapped(s, u)
      BY <1>1, <1>3, <2>1 DEF Keeps, Puts, Mapped
    <3>2. Puts(s, r.s, u, p + i, flags)
      BY <1>3, <1>4, <2>1, <3>1 DEF Puts
    <3> QED BY <2>1, <3>2, SMT
  <2>2. CASE ~(u = v + i /\ r.ok)
    <3>1. Keeps(q, r.s, u)
      BY <1>3, <2>2
    <3>2. CASE Keeps(s, q, u)
      BY <3>1, <3>2, KeepsChain
    <3>3. CASE \E k \in 0 .. i - 1 : u = v + k /\ Puts(s, q, u, p + k, flags)
      <4>1. PICK k \in 0 .. i - 1 : u = v + k /\ Puts(s, q, u, p + k, flags)
        BY <3>3
      <4>2. Puts(s, r.s, u, p + k, flags)
        BY <3>1, <4>1 DEF Puts, Keeps
      <4>3. k \in 0 .. i
        BY SMT
      <4> QED BY <4>1, <4>2, <4>3
    <3> QED BY <1>1, <3>2, <3>3
  <2> QED BY <2>1, <2>2
<1>6. Alike(s, r.s)
  BY <1>1, <1>3, AlikeChain
<1>7. (i + 1) - 1 = i
  BY SMT
<1> QED BY <1>3, <1>5, <1>6, <1>7 DEF MapsOnly

\* The loop of paging_map_range, as a function g of the number of rounds.
MapRound(q, v, p, i, flags) ==
  IF q.ok THEN MapPageLocked(q.s, v + i - 1, p + i - 1, flags) ELSE q
MapLoop(g, s, v, p, n, flags) ==
  g = [i \in 0 .. n |-> IF i = 0 THEN Works(s) ELSE MapRound(g[i - 1], v, p, i, flags)]

LEMMA MapLoopExists ==
  ASSUME NEW s, NEW v, NEW p, NEW flags, NEW n \in Nat
  PROVE  \E g : MapLoop(g, s, v, p, n, flags)
<1> DEFINE T == {m \in Nat : ~ \E g : MapLoop(g, s, v, p, m, flags)}
<1> SUFFICES ASSUME T # {} PROVE FALSE
  OBVIOUS
<1>1. PICK m \in T : \A y \in T : m <= y
  BY Smallest
<1>2. m # 0
  <2> DEFINE g == [i \in 0 .. 0 |-> Works(s)]
  <2>1. MapLoop(g, s, v, p, 0, flags)
    BY SMT DEF MapLoop
  <2> QED BY <2>1
<1>3. PICK k \in Nat : m = k + 1
  BY <1>2, SMT
<1>4. PICK g : MapLoop(g, s, v, p, k, flags)
  BY <1>1, <1>3, SMT
<1> DEFINE h == [i \in 0 .. m |-> IF i = m THEN MapRound(g[k], v, p, m, flags) ELSE g[i]]
<1>5. \A i \in 0 .. k : g[i] = IF i = 0 THEN Works(s) ELSE MapRound(g[i - 1], v, p, i, flags)
  BY <1>4 DEF MapLoop
<1>6. \A i \in 0 .. m : h[i] = IF i = 0 THEN Works(s) ELSE MapRound(h[i - 1], v, p, i, flags)
  <2> SUFFICES ASSUME NEW i \in 0 .. m
               PROVE  h[i] = IF i = 0 THEN Works(s) ELSE MapRound(h[i - 1], v, p, i, flags)
    OBVIOUS
  <2>1. CASE i = m
    <3>1. m # 0 /\ m - 1 = k /\ k \in 0 .. m /\ k # m
      BY <1>3, SMT
    <3> QED BY <2>1, <3>1
  <2>2. CASE i # m
    <3>1. i \in 0 .. k /\ (i # 0 => i - 1 \in 0 .. m /\ i - 1 # m)
      BY <1>3, <2>2, SMT
    <3>2. h[i] = g[i] /\ (i # 0 => h[i - 1] = g[i - 1])
      BY <2>2, <3>1
    <3> HIDE DEF h
    <3> QED BY <1>5, <3>1, <3>2
  <2> QED BY <2>1, <2>2
<1>7. h = [i \in 0 .. m |-> h[i]]
  OBVIOUS
<1> HIDE DEF h
<1>8. h = [i \in 0 .. m |-> IF i = 0 THEN Works(s) ELSE MapRound(h[i - 1], v, p, i, flags)]
  <2> DEFINE G(i) == IF i = 0 THEN Works(s) ELSE MapRound(h[i - 1], v, p, i, flags)
  <2>1. \A i \in 0 .. m : h[i] = G(i)
    BY <1>6
  <2> HIDE DEF G
  <2>2. h = [i \in 0 .. m |-> G(i)]
    BY <1>7, <2>1
  <2> QED BY <2>2 DEF G
<1>9. MapLoop(h, s, v, p, m, flags)
  BY <1>8 DEF MapLoop
<1> QED BY <1>9

LEMMA MapRangeLockedIs ==
  ASSUME NEW s, Sound(s), ~s.panic, Bare(s) = {}, NEW v \in Nat, NEW p \in Nat, NEW n \in Nat,
         v .. v + n - 1 \subseteq VirtualPages, NEW flags \in FlagSets
  PROVE  MapsOnly(s, MapRangeLocked(s, v, p, n, flags).s, v, p, n, flags)
<1> DEFINE h == CHOOSE g : g = [i \in 0 .. n |->
                  IF i = 0 THEN Works(s)
                  ELSE IF g[i - 1].ok
                    THEN MapPageLocked(g[i - 1].s, v + i - 1, p + i - 1, flags)
                    ELSE g[i - 1]]
<1>0. PICK w : MapLoop(w, s, v, p, n, flags)
  BY MapLoopExists
<1>1. w = [i \in 0 .. n |->
                  IF i = 0 THEN Works(s)
                  ELSE IF w[i - 1].ok
                    THEN MapPageLocked(w[i - 1].s, v + i - 1, p + i - 1, flags)
                    ELSE w[i - 1]]
  BY <1>0 DEF MapLoop, MapRound
<1>2. h = [i \in 0 .. n |->
                  IF i = 0 THEN Works(s)
                  ELSE IF h[i - 1].ok
                    THEN MapPageLocked(h[i - 1].s, v + i - 1, p + i - 1, flags)
                    ELSE h[i - 1]]
  BY <1>1
<1>3. MapRangeLocked(s, v, p, n, flags) = h[n]
  BY DEF MapRangeLocked
<1> HIDE DEF h
<1>4. h[0] = Works(s)
  BY <1>2, SMT
<1>5. \A i \in 0 .. n : i # 0 =>
        h[i] = IF h[i - 1].ok
                 THEN MapPageLocked(h[i - 1].s, v + i - 1, p + i - 1, flags) ELSE h[i - 1]
  BY <1>2
<1> DEFINE Fine(i) == /\ MapsOnly(s, h[i].s, v, p, i, flags)
                      /\ h[i].ok \in BOOLEAN /\ (h[i].ok => ~h[i].s.panic)
           T == {i \in 0 .. n : ~Fine(i)}
<1>6. Fine(0)
  BY <1>4, MapsNone, SMT DEF Works
<1>7. ASSUME NEW k \in Nat, k + 1 \in 0 .. n, Fine(k)
      PROVE  Fine(k + 1)
  <2>1. CASE ~h[k].ok
    <3>1. h[k + 1] = h[k]
      <4>1. (k + 1) - 1 = k /\ k + 1 # 0
        BY SMT
      <4> QED BY <1>5, <1>7, <2>1, <4>1
    <3>2. MapsOnly(s, h[k].s, v, p, k + 1, flags)
      BY <1>7, SMT DEF MapsOnly
    <3> QED BY <1>7, <3>1, <3>2
  <2>2. CASE h[k].ok
    <3>1. (k + 1) - 1 = k /\ v + (k + 1) - 1 = v + k /\ p + (k + 1) - 1 = p + k
      BY SMT
    <3>2. h[k + 1] = MapPageLocked(h[k].s, v + k, p + k, flags)
      BY <1>5, <1>7, <2>2, <3>1, SMT
    <3>3. v + k \in VirtualPages
      BY <1>7, SMT
    <3> QED BY <1>7, <2>2, <3>2, <3>3, MapsMore, SMT
  <2> QED BY <2>1, <2>2
<1> HIDE DEF Fine
<1>8. ASSUME T # {} PROVE FALSE
  <2>0. T \subseteq Nat
    BY SMT
  <2>1. PICK i \in T : \A y \in T : i <= y
    BY <1>8, <2>0, Smallest
  <2>2. PICK k \in Nat : i = k + 1
    BY <1>6, <2>1, SMT
  <2>3. Fine(k)
    BY <2>1, <2>2, SMT
  <2> QED BY <1>7, <2>2, <2>3
<1>9. Fine(n)
  BY <1>8, SMT
<1> QED BY <1>3, <1>9 DEF Fine
\* Some of the i pages from v, none of them large, get other flags.
Recasts(s, r, u, flags) ==
  /\ Mapped(s, u) /\ ~Large(s, u)
  /\ Translate(r, u) = [to |-> Translate(s, u).to, flags |-> FlagsToHw(s, flags)]
  /\ UserReaches(s, u) /\ "USER" \in flags => UserReaches(r, u)

RecastsOnly(s, r, v, i, flags) ==
  /\ Sound(r) /\ Alike(s, r) /\ ~r.panic /\ Bare(r) = {}
  /\ \A u \in VirtualPages :
       Keeps(s, r, u) \/ (u \in v .. v + i - 1 /\ Recasts(s, r, u, flags))

LEMMA RecastsNone ==
  ASSUME NEW s, Sound(s), ~s.panic, Bare(s) = {}, NEW v, NEW i, NEW flags
  PROVE  RecastsOnly(s, s, v, i, flags)
BY DEF RecastsOnly, Alike, Keeps

LEMMA RecastsMore ==
  ASSUME NEW s, NEW q, NEW v \in Nat, NEW i \in Nat, NEW flags \in FlagSets,
         RecastsOnly(s, q, v, i, flags), v + i \in VirtualPages,
         NEW r, r = ProtectPageLocked(q, v + i, flags)
  PROVE  RecastsOnly(s, r.s, v, i + 1, flags)
<1>1. /\ Sound(q) /\ Bare(q) = {} /\ Alike(s, q) /\ ~q.panic
      /\ \A u \in VirtualPages :
           Keeps(s, q, u) \/ (u \in v .. v + i - 1 /\ Recasts(s, q, u, flags))
  BY DEF RecastsOnly
<1>2. v + (i + 1) - 1 = v + i /\ v .. v + i - 1 \subseteq v .. v + i /\ v + i \in v .. v + i
      /\ v + i \notin v .. v + i - 1
  BY SMT
<1>3. CASE r.s = q
  BY <1>2, <1>3 DEF RecastsOnly
<1>4. CASE r.s # q
  <2>1. /\ Sound(r.s) /\ Alike(q, r.s) /\ ~r.s.panic /\ Bare(r.s) = {}
        /\ Mapped(q, v + i) /\ ~Large(q, v + i)
        /\ Translate(r.s, v + i) = [to |-> Translate(q, v + i).to, flags |-> FlagsToHw(q, flags)]
        /\ UserReaches(q, v + i) /\ "USER" \in flags => UserReaches(r.s, v + i)
        /\ \A u \in VirtualPages \ {v + i} : Keeps(q, r.s, u)
    BY <1>1, <1>4, ProtectPageLockedIs
  <2>2. FlagsToHw(q, flags) = FlagsToHw(s, flags)
    BY <1>1 DEF FlagsToHw, Alike
  <2>3. Recasts(s, r.s, v + i, flags)
    <3>1. Keeps(s, q, v + i)
      BY <1>1, <1>2
    <3>2. Translate(q, v + i) = Translate(s, v + i)
      BY <3>1 DEF Keeps
    <3>3. Mapped(s, v + i) /\ ~Large(s, v + i) /\ (UserReaches(s, v + i) => UserReaches(q, v + i))
      BY <2>1, <3>1 DEF Keeps, Mapped
    <3> QED BY <2>1, <2>2, <3>2, <3>3 DEF Recasts
  <2>4. ASSUME NEW u \in VirtualPages, u # v + i
        PROVE  Keeps(s, r.s, u) \/ (u \in v .. v + i - 1 /\ Recasts(s, r.s, u, flags))
    <3>1. Keeps(q, r.s, u)
      BY <2>1, <2>4
    <3>2. CASE Keeps(s, q, u)
      BY <3>1, <3>2, KeepsChain
    <3>3. CASE u \in v .. v + i - 1 /\ Recasts(s, q, u, flags)
      BY <3>1, <3>3 DEF Recasts, Keeps
    <3> QED BY <1>1, <3>2, <3>3
  <2>5. Alike(s, r.s)
    BY <1>1, <2>1, AlikeChain
  <2> QED BY <1>2, <2>1, <2>3, <2>4, <2>5 DEF RecastsOnly
<1> QED BY <1>3, <1>4

\* The loop of paging_protect_range.
ProtectRound(q, v, i, flags) ==
  LET r == ProtectPageLocked(q.s, v + i - 1, flags) IN [s |-> r.s, ok |-> q.ok /\ r.ok]
ProtectLoop(g, s, v, n, flags) ==
  g = [i \in 0 .. n |-> IF i = 0 THEN Works(s) ELSE ProtectRound(g[i - 1], v, i, flags)]

LEMMA ProtectLoopExists ==
  ASSUME NEW s, NEW v, NEW flags, NEW n \in Nat
  PROVE  \E g : ProtectLoop(g, s, v, n, flags)
<1> DEFINE T == {m \in Nat : ~ \E g : ProtectLoop(g, s, v, m, flags)}
<1> SUFFICES ASSUME T # {} PROVE FALSE
  OBVIOUS
<1>1. PICK m \in T : \A y \in T : m <= y
  BY Smallest
<1>2. m # 0
  <2> DEFINE g == [i \in 0 .. 0 |-> Works(s)]
  <2>1. ProtectLoop(g, s, v, 0, flags)
    BY SMT DEF ProtectLoop
  <2> QED BY <2>1
<1>3. PICK k \in Nat : m = k + 1
  BY <1>2, SMT
<1>4. PICK g : ProtectLoop(g, s, v, k, flags)
  BY <1>1, <1>3, SMT
<1> DEFINE h == [i \in 0 .. m |-> IF i = m THEN ProtectRound(g[k], v, m, flags) ELSE g[i]]
<1>5. \A i \in 0 .. k : g[i] = IF i = 0 THEN Works(s) ELSE ProtectRound(g[i - 1], v, i, flags)
  BY <1>4 DEF ProtectLoop
<1>6. \A i \in 0 .. m : h[i] = IF i = 0 THEN Works(s) ELSE ProtectRound(h[i - 1], v, i, flags)
  <2> SUFFICES ASSUME NEW i \in 0 .. m
               PROVE  h[i] = IF i = 0 THEN Works(s) ELSE ProtectRound(h[i - 1], v, i, flags)
    OBVIOUS
  <2>1. CASE i = m
    <3>1. m # 0 /\ m - 1 = k /\ k \in 0 .. m /\ k # m
      BY <1>3, SMT
    <3> QED BY <2>1, <3>1
  <2>2. CASE i # m
    <3>1. i \in 0 .. k /\ (i # 0 => i - 1 \in 0 .. m /\ i - 1 # m)
      BY <1>3, <2>2, SMT
    <3>2. h[i] = g[i] /\ (i # 0 => h[i - 1] = g[i - 1])
      BY <2>2, <3>1
    <3> HIDE DEF h
    <3> QED BY <1>5, <3>1, <3>2
  <2> QED BY <2>1, <2>2
<1>7. h = [i \in 0 .. m |-> h[i]]
  OBVIOUS
<1> HIDE DEF h
<1>8. h = [i \in 0 .. m |-> IF i = 0 THEN Works(s) ELSE ProtectRound(h[i - 1], v, i, flags)]
  <2> DEFINE G(i) == IF i = 0 THEN Works(s) ELSE ProtectRound(h[i - 1], v, i, flags)
  <2>1. \A i \in 0 .. m : h[i] = G(i)
    BY <1>6
  <2> HIDE DEF G
  <2>2. h = [i \in 0 .. m |-> G(i)]
    BY <1>7, <2>1
  <2> QED BY <2>2 DEF G
<1>9. ProtectLoop(h, s, v, m, flags)
  BY <1>8 DEF ProtectLoop
<1> QED BY <1>9

LEMMA ProtectRangeLockedIs ==
  ASSUME NEW s, Sound(s), ~s.panic, Bare(s) = {}, NEW v \in Nat, NEW n \in Nat,
         v .. v + n - 1 \subseteq VirtualPages, NEW flags \in FlagSets
  PROVE  RecastsOnly(s, ProtectRangeLocked(s, v, n, flags).s, v, n, flags)
<1> DEFINE h == CHOOSE g : g = [i \in 0 .. n |->
                  IF i = 0 THEN Works(s)
                  ELSE LET r == ProtectPageLocked(g[i - 1].s, v + i - 1, flags)
                       IN [s |-> r.s, ok |-> g[i - 1].ok /\ r.ok]]
<1>0. PICK w : ProtectLoop(w, s, v, n, flags)
  BY ProtectLoopExists
<1>1. w = [i \in 0 .. n |->
                  IF i = 0 THEN Works(s)
                  ELSE LET r == ProtectPageLocked(w[i - 1].s, v + i - 1, flags)
                       IN [s |-> r.s, ok |-> w[i - 1].ok /\ r.ok]]
  BY <1>0 DEF ProtectLoop, ProtectRound
<1>2. h = [i \in 0 .. n |->
                  IF i = 0 THEN Works(s)
                  ELSE LET r == ProtectPageLocked(h[i - 1].s, v + i - 1, flags)
                       IN [s |-> r.s, ok |-> h[i - 1].ok /\ r.ok]]
  BY <1>1
<1>3. ProtectRangeLocked(s, v, n, flags) = h[n]
  BY DEF ProtectRangeLocked
<1> HIDE DEF h
<1>4. h[0] = Works(s)
  BY <1>2, SMTT(20)
<1>5. \A i \in 0 .. n : i # 0 => h[i].s = ProtectPageLocked(h[i - 1].s, v + i - 1, flags).s
  BY <1>2, SMT
<1> DEFINE Fine(i) == RecastsOnly(s, h[i].s, v, i, flags)
           T == {i \in 0 .. n : ~Fine(i)}
<1>6. Fine(0)
  BY <1>4, RecastsNone, SMT DEF Works
<1>7. ASSUME NEW k \in Nat, k + 1 \in 0 .. n, Fine(k)
      PROVE  Fine(k + 1)
  <2>1. (k + 1) - 1 = k /\ v + (k + 1) - 1 = v + k /\ k + 1 # 0
    BY SMT
  <2>2. h[k + 1].s = ProtectPageLocked(h[k].s, v + k, flags).s
    BY <1>5, <1>7, <2>1
  <2>3. v + k \in VirtualPages
    BY <1>7, SMT
  <2>4. RecastsOnly(s, ProtectPageLocked(h[k].s, v + k, flags).s, v, k + 1, flags)
    BY <1>7, <2>3, RecastsMore
  <2> QED BY <2>2, <2>4
<1> HIDE DEF Fine
<1>8. ASSUME T # {} PROVE FALSE
  <2>0. T \subseteq Nat
    BY SMT
  <2>1. PICK i \in T : \A y \in T : i <= y
    BY <1>8, <2>0, Smallest
  <2>2. PICK k \in Nat : i = k + 1
    BY <1>6, <2>1, SMT
  <2>3. Fine(k)
    BY <2>1, <2>2, SMT
  <2> QED BY <1>7, <2>2, <2>3
<1>9. Fine(n)
  BY <1>8, SMT
<1> QED BY <1>3, <1>9 DEF Fine
-----------------------------------------------------------------------------
(* The work of paging_init.                                                *)

LEMMA BootIs ==
  ASSUME boot \in Boots
  PROVE  /\ DOMAIN boot.old \cup boot.kernel \cup boot.preserved \cup boot.pages \subseteq VirtualPages
         /\ \A v \in DOMAIN boot.old : boot.old[v] \in Nat
         /\ boot.hhdm \in Nat /\ boot.span \in Nat
         /\ boot.hhdm .. boot.hhdm + boot.span - 1 \subseteq VirtualPages
         /\ boot.kernel \cap (boot.hhdm .. boot.hhdm + boot.span - 1) = {}
         /\ boot.pages \cap (boot.hhdm + TwoMibLimit(boot) .. boot.hhdm + boot.span - 1) = {}
         /\ boot.free \cup boot.reclaimed \subseteq 1 .. boot.span - 1
         /\ boot.free \cap boot.reclaimed = {}
BY PagingAssumption

\* The large pages cover whole blocks of the direct map.
LEMMA LimitIs ==
  ASSUME boot \in Boots
  PROVE  /\ TwoMibLimit(boot) \in Nat /\ TwoMibLimit(boot) <= boot.span
         /\ \E k \in Nat : TwoMibLimit(boot) = k * FANOUT
         /\ TwoMibLimit(boot) # 0 => boot.hhdm % FANOUT = 0
<1>1. boot.span \in Nat /\ FANOUT \in Nat \ {0}
  BY BootIs, FanoutAssumption
<1> DEFINE n == boot.span
           q == n \div FANOUT
           m == n % FANOUT
<1>2. q \in Nat /\ m \in 0 .. FANOUT - 1 /\ n = q * FANOUT + m
  BY <1>1, Division
<1>3. q * FANOUT \in Nat
  BY <1>1, <1>2, SMT
<1>4. CASE boot.hhdm % FANOUT = 0
  <2>1. TwoMibLimit(boot) = n - m
    BY <1>4 DEF TwoMibLimit
  <2> HIDE DEF n, m, q
  <2>2. TwoMibLimit(boot) = q * FANOUT /\ q * FANOUT <= n
    BY <1>1, <1>2, <1>3, <2>1, SMT
  <2> QED BY <1>2, <1>3, <1>4, <2>2 DEF n
<1>5. CASE boot.hhdm % FANOUT # 0
  <2>1. TwoMibLimit(boot) = 0 /\ 0 = 0 * FANOUT
    BY <1>1, <1>5, SMT DEF TwoMibLimit
  <2> QED BY <1>1, <2>1, SMT
<1> QED BY <1>4, <1>5

LEMMA WorkIs ==
  ASSUME NEW w \in Work
  PROVE  \/ w.kind = "kernel" /\ w.page \in boot.kernel
         \/ w.kind = "large" /\ \E p \in 0 .. TwoMibLimit(boot) - 1 :
                                  p % FANOUT = 0 /\ w.page = boot.hhdm + p
         \/ w.kind = "small" /\ \E p \in TwoMibLimit(boot) .. boot.span - 1 :
                                  w.page = boot.hhdm + p
         \/ w.kind = "preserve" /\ w.page \in boot.preserved
<1>1. CASE w \in Each("kernel", boot.kernel)
  BY <1>1, SMT DEF Each
<1>2. CASE w \in Each("large", {boot.hhdm + p : p \in {p \in 0 .. TwoMibLimit(boot) - 1 : p % FANOUT = 0}})
  BY <1>2, SMT DEF Each
<1>3. CASE w \in Each("small", {boot.hhdm + p : p \in TwoMibLimit(boot) .. boot.span - 1})
  BY <1>3, SMT DEF Each
<1>4. CASE w \in Each("preserve", boot.preserved)
  BY <1>4, SMT DEF Each
<1> QED BY <1>1, <1>2, <1>3, <1>4 DEF Work

LEMMA WorkHas ==
  /\ \A v \in boot.kernel : [kind |-> "kernel", page |-> v] \in Work
  /\ \A v \in boot.preserved : [kind |-> "preserve", page |-> v] \in Work
  /\ \A p \in 0 .. TwoMibLimit(boot) - 1 :
       p % FANOUT = 0 => [kind |-> "large", page |-> boot.hhdm + p] \in Work
  /\ \A p \in TwoMibLimit(boot) .. boot.span - 1 :
       [kind |-> "small", page |-> boot.hhdm + p] \in Work
BY DEF Work, Each

LEMMA WorkIsItsKindAndPage ==
  ASSUME NEW w \in Work, NEW x \in Work, w.kind = x.kind, w.page = x.page
  PROVE  w = x
<1>1. \A y \in Work : y = [kind |-> y.kind, page |-> y.page]
  BY SMT DEF Work, Each
<1> QED BY <1>1

LEMMA Ranks ==
  ASSUME NEW w \in Work
  PROVE  /\ w.kind \in {"kernel", "large", "small", "preserve"} /\ Rank(w) \in 1 .. 4
         /\ (w.kind = "kernel" <=> Rank(w) = 1) /\ (w.kind = "large" <=> Rank(w) = 2)
         /\ (w.kind = "small" <=> Rank(w) = 3) /\ (w.kind = "preserve" <=> Rank(w) = 4)
<1>1. w.kind \in {"kernel", "large", "small", "preserve"}
  BY WorkIs
<1> QED BY <1>1, SMT DEF Rank

\* The pages of a large page: one block, in the part of the direct map that
\* large pages cover.
LEMMA LargeBlock ==
  ASSUME boot \in Boots, NEW w \in Work, w.kind = "large"
  PROVE  /\ w.page \in VirtualPages /\ w.page \in Nat /\ w.page % FANOUT = 0
         /\ w.page - boot.hhdm \in Nat
         /\ \A u \in VirtualPages : Pre(u, 1) = Pre(w.page, 1) =>
              /\ u = w.page + Index(u, 1)
              /\ u \in boot.hhdm .. boot.hhdm + TwoMibLimit(boot) - 1
<1> DEFINE F == FANOUT
           limit == TwoMibLimit(boot)
<1>1. PICK p \in 0 .. limit - 1 : p % F = 0 /\ w.page = boot.hhdm + p
  BY WorkIs
<1>2. PICK k \in Nat : limit = k * F
  BY LimitIs
<1>3. /\ limit \in Nat /\ limit <= boot.span /\ limit # 0 /\ boot.hhdm % F = 0
      /\ boot.hhdm \in Nat /\ boot.span \in Nat
      /\ boot.hhdm .. boot.hhdm + boot.span - 1 \subseteq VirtualPages
  BY <1>1, LimitIs, BootIs, SMT
<1> HIDE DEF limit
<1>4. F \in Nat \ {0}
  BY FanoutAssumption
<1>5. PICK a \in Nat : boot.hhdm = a * F
  <2>1. boot.hhdm = (boot.hhdm \div F) * F + (boot.hhdm % F) /\ boot.hhdm \div F \in Nat
    BY <1>3, <1>4, Division
  <2>2. (boot.hhdm \div F) * F \in Nat
    BY <1>4, <2>1, SMT
  <2> QED BY <1>3, <2>1, <2>2, SMT
<1>6. PICK b \in Nat : p = b * F
  <2>0. p \in Nat
    BY <1>1, SMT
  <2>1. p = (p \div F) * F + (p % F) /\ p \div F \in Nat
    BY <1>4, <2>0, Division
  <2>2. (p \div F) * F \in Nat
    BY <1>4, <2>1, SMT
  <2> QED BY <1>1, <2>1, <2>2, SMT
<1>7. w.page \in VirtualPages /\ w.page \in Nat /\ w.page - boot.hhdm \in Nat
  BY <1>1, <1>3, SMT
<1>8. w.page = (a + b) * F + 0 /\ a + b \in Nat
  BY <1>1, <1>4, <1>5, <1>6, SMT
<1>9. w.page \div F = a + b /\ w.page % F = 0
  <2>1. 0 \in 0 .. F - 1
    BY <1>4, SMT
  <2> QED BY <1>4, <1>8, <2>1, Quotient, SMT
<1>10. Pre(w.page, 1) = a + b
  BY <1>9, SMT DEF Pre
<1>11. ASSUME NEW u \in VirtualPages, Pre(u, 1) = Pre(w.page, 1)
       PROVE  /\ u = w.page + Index(u, 1)
              /\ u \in boot.hhdm .. boot.hhdm + limit - 1
  <2>1. u = Slot(a + b, Index(u, 1)) /\ Index(u, 1) \in 0 .. F - 1
    BY <1>10, <1>11, Digits DEF Indices
  <2>2. u = w.page + Index(u, 1)
    BY <1>4, <1>8, <2>1, SMT DEF Slot
  <2>3. b < k
    <3>1. ASSUME k <= b PROVE FALSE
      <4>1. PICK e \in Nat : b = k + e
        BY <3>1, SMT
      <4>2. b * F = k * F + e * F /\ e * F \in Nat /\ k * F \in Nat
        BY <1>4, <4>1, SMT
      <4> QED BY <1>1, <1>2, <1>3, <1>6, <4>2, SMTT(20)
    <3> QED BY <3>1, SMT
  <2>4. PICK e \in Nat : k = b + 1 + e
    BY <2>3, SMT
  <2>5. k * F = b * F + F + e * F /\ e * F \in Nat /\ b * F \in Nat
    BY <1>4, <2>4, SMT
  <2>6. p + Index(u, 1) \in 0 .. limit - 1
    <3> DEFINE j == Index(u, 1)
               bF == b * F
               eF == e * F
    <3>1. j \in 0 .. F - 1 /\ bF \in Nat /\ eF \in Nat /\ p = bF /\ limit = bF + F + eF
      BY <1>2, <1>6, <2>1, <2>5
    <3> HIDE DEF j, bF, eF
    <3>2. p + j \in 0 .. limit - 1
      BY <1>4, <3>1, SMT
    <3> QED BY <3>2 DEF j
  <2>7. Index(u, 1) \in Nat
    BY <1>4, <2>1, SMT
  <2> QED BY <1>1, <1>3, <2>2, <2>6, <2>7, SMT
<1> QED BY <1>7, <1>9, <1>11 DEF limit
\* No page is part of two pieces of work, if the stack window and the frame
\* buffer are left aside.
LEMMA Apart ==
  ASSUME boot \in Boots, NEW w \in Work, NEW x \in Work, w # x,
         w.kind # "preserve", x.kind # "preserve",
         NEW u \in VirtualPages, Covers(w, u), Covers(x, u)
  PROVE  FALSE
<1> DEFINE first == boot.hhdm
           limit == TwoMibLimit(boot)
           last == boot.hhdm + boot.span - 1
           Where(y) == /\ y.kind = "kernel" => u \notin first .. last /\ u = y.page
                       /\ y.kind = "large" => u \in first .. first + limit - 1
                       /\ y.kind = "small" => u \in first + limit .. last /\ u = y.page
<1>1. first \in Nat /\ limit \in Nat /\ boot.span \in Nat /\ limit <= boot.span /\ u \in Nat
  BY BootIs, LimitIs, SMT DEF VirtualPages
<1>2. ASSUME NEW y \in Work, Covers(y, u) PROVE Where(y)
  <2>1. CASE y.kind = "kernel"
    <3>1. u = y.page /\ y.page \in boot.kernel
      BY <1>2, <2>1, WorkIs DEF Covers
    <3>2. u \notin first .. last
      BY <3>1, BootIs
    <3> QED BY <2>1, <3>1, <3>2
  <2>2. CASE y.kind = "large"
    <3>1. Pre(u, 1) = Pre(y.page, 1)
      BY <1>2 DEF Covers
    <3> QED BY <2>2, <3>1, LargeBlock
  <2>3. CASE y.kind = "small"
    <3>1. u = y.page /\ \E p \in limit .. boot.span - 1 : y.page = first + p
      BY <1>2, <2>3, WorkIs DEF Covers
    <3>2. u \in first + limit .. last
      BY <1>1, <3>1, SMT
    <3> QED BY <2>3, <3>1, <3>2
  <2> QED BY <2>1, <2>2, <2>3
<1>3. Where(w) /\ Where(x) /\ w.kind \in {"kernel", "large", "small"}
      /\ x.kind \in {"kernel", "large", "small"}
  BY <1>2, Ranks
<1>4. w.kind = x.kind
  <2>1. u \in first .. first + limit - 1 => u \in first .. last /\ u \notin first + limit .. last
    BY <1>1, SMT
  <2>2. u \in first + limit .. last => u \in first .. last
    BY <1>1, SMT
  <2> QED BY <1>3, <2>1, <2>2
<1>5. w.page = x.page
  <2>1. CASE w.kind # "large"
    BY <1>3, <1>4, <2>1
  <2>2. CASE w.kind = "large"
    <3>1. Pre(u, 1) = Pre(w.page, 1) /\ Pre(u, 1) = Pre(x.page, 1)
      BY DEF Covers
    <3>2. w.page \in Nat /\ x.page \in Nat /\ Index(u, 1) \in Int
      <4>1. w.page \in Nat /\ x.page \in Nat
        BY <1>4, <2>2, LargeBlock
      <4>2. Index(u, 1) \in Indices
        BY Digits
      <4> QED BY <4>1, <4>2, SMT DEF Indices
    <3>3. u = w.page + Index(u, 1) /\ u = x.page + Index(u, 1)
      BY <1>4, <2>2, <3>1, LargeBlock
    <3> QED BY <3>2, <3>3, SMT
  <2> QED BY <2>1, <2>2
<1> QED BY <1>4, <1>5, WorkIsItsKindAndPage

LEMMA WorkPages ==
  ASSUME boot \in Boots, NEW w \in Work
  PROVE  /\ w.page \in VirtualPages /\ Covers(w, w.page)
         /\ w.kind \in {"large", "small"} => w.page - boot.hhdm \in Nat
<1>1. Covers(w, w.page)
  BY DEF Covers
<1>2. CASE w.kind \in {"kernel", "preserve"}
  BY <1>1, <1>2, WorkIs, BootIs
<1>3. CASE w.kind = "large"
  BY <1>1, <1>3, LargeBlock
<1>4. CASE w.kind = "small"
  <2>1. PICK p \in TwoMibLimit(boot) .. boot.span - 1 : w.page = boot.hhdm + p
    BY <1>4, WorkIs
  <2>2. TwoMibLimit(boot) \in Nat /\ boot.hhdm \in Nat /\ boot.span \in Nat
        /\ boot.hhdm .. boot.hhdm + boot.span - 1 \subseteq VirtualPages
    BY LimitIs, BootIs
  <2>3. w.page \in boot.hhdm .. boot.hhdm + boot.span - 1 /\ w.page - boot.hhdm \in Nat
    BY <2>1, <2>2, SMT
  <2> QED BY <1>1, <2>2, <2>3
<1> QED BY <1>2, <1>3, <1>4, Ranks

-----------------------------------------------------------------------------
(* Every step preserves the invariant.                                     *)

\* What was done stays done where pages keep their translation.
LEMMA PlacedStays ==
  ASSUME NEW w \in Work, Placed(w), boot \in Boots, boot' = boot, ready => ready',
         \A u \in VirtualPages : Covers(w, u) =>
            Keeps(pg, pg', u) \/ (ready' /\ w.kind \in {"kernel", "preserve"} /\ u \in boot.pages)
  PROVE  Placed(w)'
<1>1. w.page \in VirtualPages /\ Covers(w, w.page)
  BY WorkPages
<1>2. \A u \in VirtualPages : Keeps(pg, pg', u) =>
        /\ Translate(pg', u) = Translate(pg, u) /\ (Mapped(pg, u) => Mapped(pg', u))
        /\ Large(pg, u) => Large(pg', u)
  BY DEF Keeps, Mapped
<1>3. CASE w.kind = "large"
  BY <1>2, <1>3 DEF Placed
<1>4. CASE w.kind = "small"
  BY <1>1, <1>2, <1>4 DEF Placed
<1>5. CASE w.kind \in {"kernel", "preserve"}
  BY <1>1, <1>2, <1>5 DEF Placed
<1> QED BY <1>3, <1>4, <1>5, Ranks

\* What paging_init has placed is mapped.
LEMMA PlacedIsMapped ==
  ASSUME NEW w \in Work, Placed(w), ~ready, NEW u \in VirtualPages, Covers(w, u)
  PROVE  Mapped(pg, u)
<1>1. CASE w.kind = "large"
  BY <1>1 DEF Placed
<1>2. CASE w.kind # "large"
  BY Ranks DEF Placed, Covers
<1> QED BY <1>1, <1>2

LEMMA Untouched ==
  ASSUME IInv, ~ready, ~pg.panic, pg.root # 0,
         NEW w \in todo, \A x \in todo : NotAfter(w, x), w.kind # "preserve",
         NEW u \in VirtualPages, Covers(w, u)
  PROVE  ~Mapped(pg, u)
<1>1. Progress /\ todo \subseteq Work /\ boot \in Boots
  BY DEF IInv
<1>2. SUFFICES ASSUME Mapped(pg, u) PROVE FALSE
  OBVIOUS
<1>3. PICK x \in Work \ todo : Covers(x, u)
  BY <1>1, <1>2 DEF Progress
<1>4. NotAfter(x, w) /\ x \in Work /\ w \in Work /\ x # w
  BY <1>1 DEF Progress
<1>5. x.kind # "preserve"
  <2>1. Rank(w) \in 1 .. 3 /\ Rank(x) \in 1 .. 4
    BY <1>4, Ranks, SMT
  <2>2. Rank(x) # 4
    BY <1>4, <2>1, SMT DEF NotAfter
  <2> QED BY <2>2, Ranks
<1> QED BY <1>1, <1>3, <1>5, Apart
\* A round of the loops of paging_init that maps the pages of w.
LEMMA RoundKeeps ==
  ASSUME IInv, ~ready, ~pg.panic, pg.root # 0, NEW w \in todo, \A x \in todo : NotAfter(w, x),
         todo' = todo \ {w}, UNCHANGED <<boot, ready>>,
         Sound(pg'), Alike(pg, pg'),
         ~pg'.panic =>
           /\ Bare(pg') = {} /\ Placed(w)'
           /\ \A u \in VirtualPages : ~Covers(w, u) \/ Mapped(pg, u) => Keeps(pg, pg', u)
  PROVE  IInv'
<1>1. /\ Progress /\ todo \subseteq Work /\ boot \in Boots
      /\ FramesOf(pg) = boot.free
  BY DEF IInv
<1>2. Work' = Work
  BY DEF Work
<1>3. FramesOf(pg') = boot.free /\ pg'.root = pg.root
  BY <1>1 DEF Alike
<1>4. Booked(pg')
  BY DEF Sound
<1>5. ASSUME ~pg'.panic PROVE Progress'
  <2>1. ASSUME NEW x \in Work \ todo PROVE Placed(x)'
    <3>1. Placed(x)
      BY <1>1 DEF Progress
    <3>2. \A u \in VirtualPages : Covers(x, u) => Keeps(pg, pg', u)
      BY <1>5, <3>1, PlacedIsMapped
    <3> QED BY <1>1, <3>1, <3>2, PlacedStays
  <2>2. \A x \in Work \ todo' : Placed(x)'
    BY <1>5, <2>1
  <2>3. \A x \in Work \ todo', y \in todo' : NotAfter(x, y)
    BY <1>1 DEF Progress
  <2>4. ASSUME NEW u \in VirtualPages, Mapped(pg', u)
        PROVE  \E x \in Work \ todo' : Covers(x, u)
    <3>1. CASE Covers(w, u)
      BY <1>1, <3>1
    <3>2. CASE ~Covers(w, u)
      <4>1. Keeps(pg, pg', u)
        BY <1>5, <3>2
      <4>2. Mapped(pg, u)
        BY <2>4, <4>1 DEF Keeps, Mapped
      <4> QED BY <1>1, <4>2 DEF Progress
    <3> QED BY <3>1, <3>2
  <2> QED BY <1>2, <2>2, <2>3, <2>4 DEF Progress
<1> QED BY <1>2, <1>3, <1>4, <1>5 DEF IInv

LEMMA PagingInitMapKeeps ==
  ASSUME IInv, PagingInitMap
  PROVE  IInv'
<1>1. ~ready /\ ~pg.panic /\ UNCHANGED <<boot, ready>>
  BY DEF PagingInitMap
<1>2. PICK w \in todo :
        /\ \A x \in todo : NotAfter(w, x)
        /\ pg' = CASE MissingInOld(w) -> [pg EXCEPT !.panic = TRUE]
                   [] w.kind = "kernel" /\ ~MissingInOld(w) ->
                        Map4k(pg, w.page, boot.old[w.page], KernelFlags)
                   [] w.kind = "large" -> Map2m(pg, w.page, w.page - boot.hhdm, KernelFlags)
                   [] w.kind = "small" -> Map4k(pg, w.page, w.page - boot.hhdm, KernelFlags)
                   [] w.kind = "preserve" /\ ~MissingInOld(w) ->
                        EnsurePageMapping(pg, w.page, boot.old[w.page])
        /\ todo' = todo \ {w}
  BY DEF PagingInitMap
<1> DEFINE v == w.page
<1>3. /\ pg.root # 0 /\ Sound(pg) /\ Bare(pg) = {} /\ boot \in Boots /\ w \in Work
      /\ todo \subseteq Work /\ NoneBare(pg)
  BY <1>1 DEF IInv, NoneBare
<1>4. /\ v \in VirtualPages /\ Covers(w, v)
      /\ w.kind \in {"large", "small"} => v - boot.hhdm \in Nat
      /\ ~MissingInOld(w) /\ w.kind \in {"kernel", "preserve"} => boot.old[v] \in Nat
  BY <1>3, WorkPages, BootIs DEF MissingInOld
<1>5. w.kind \in {"kernel", "large", "small", "preserve"}
  BY <1>3, Ranks
<1>6. /\ w.kind # "large" => \A u \in VirtualPages : Covers(w, u) <=> u = v
      /\ w.kind = "large" => \A u \in VirtualPages : Covers(w, u) <=> Pre(u, 1) = Pre(v, 1)
  BY DEF Covers
<1>7. ASSUME w.kind # "preserve", NEW u \in VirtualPages, Covers(w, u) PROVE ~Mapped(pg, u)
  BY <1>1, <1>2, <1>3, <1>7, Untouched
<1>8. CASE MissingInOld(w)
  <2>1. pg' = [pg EXCEPT !.panic = TRUE] /\ Booked(pg) /\ TRUE \in BOOLEAN
    BY <1>2, <1>3, <1>8 DEF MissingInOld, Sound
  <2>2. Booked(pg') /\ Alike(pg, pg') /\ pg'.panic = TRUE /\ pg'.root = pg.root /\ pg'.tab = pg.tab
    BY <2>1, Panics
  <2>3. Sound(pg')
    BY <1>3, <2>2, SameTables DEF Sound
  <2> QED BY <1>1, <1>2, <1>3, <2>2, <2>3, RoundKeeps
<1>9. CASE w.kind = "kernel" /\ ~MissingInOld(w)
  <2>1. pg' = Map4k(pg, v, boot.old[v], KernelFlags)
    BY <1>2, <1>9
  <2>2. /\ Sound(pg') /\ Alike(pg, pg')
        /\ ~pg'.panic => /\ Bare(pg') = {} /\ Mapped(pg', v) /\ Translate(pg', v).to = boot.old[v]
                         /\ \A u \in VirtualPages \ {v} : Keeps(pg, pg', u)
    <3>1. boot.old[v] \in Nat /\ ~Mapped(pg, v)
      BY <1>4, <1>7, <1>9
    <3>2. MapsAt(pg, pg', v, boot.old[v])
      BY <1>1, <1>3, <1>4, <2>1, <3>1, Map4kIs
    <3> QED BY <3>2 DEF MapsAt
  <2>3. ~pg'.panic => Placed(w)'
    BY <1>1, <1>9, <2>2 DEF Placed
  <2>4. ~pg'.panic => \A u \in VirtualPages : ~Covers(w, u) \/ Mapped(pg, u) => Keeps(pg, pg', u)
    BY <1>4, <1>7, <1>9, <2>2
  <2> QED BY <1>1, <1>2, <1>3, <2>2, <2>3, <2>4, RoundKeeps
<1>10. CASE w.kind = "large"
  <2>1. pg' = Map2m(pg, v, v - boot.hhdm, KernelFlags)
    BY <1>2, <1>10 DEF MissingInOld
  <2>2. NoSmall(pg, v)
    BY <1>6, <1>7, <1>10 DEF NoSmall
  <2>3. /\ Sound(pg') /\ Alike(pg, pg')
        /\ ~pg'.panic =>
             /\ Bare(pg') = {}
             /\ \A u \in VirtualPages :
                  IF Pre(u, 1) = Pre(v, 1)
                    THEN /\ Large(pg', u) /\ Mapped(pg', u)
                         /\ Translate(pg', u).to = (v - boot.hhdm) + Index(u, 1)
                    ELSE Keeps(pg, pg', u)
    <3>1. v - boot.hhdm \in Nat
      BY <1>4, <1>10
    <3>2. MapsLargeAt(pg, pg', v, v - boot.hhdm)
      BY <1>1, <1>3, <1>4, <2>1, <2>2, <3>1, Map2mIs
    <3> QED BY <3>2 DEF MapsLargeAt
  <2>4. \A u \in VirtualPages : Covers(w, u) => (v - boot.hhdm) + Index(u, 1) = u - boot.hhdm
    <3> SUFFICES ASSUME NEW u \in VirtualPages, Covers(w, u)
                 PROVE  (v - boot.hhdm) + Index(u, 1) = u - boot.hhdm
      OBVIOUS
    <3>1. u = v + Index(u, 1) /\ v \in Nat
      BY <1>3, <1>6, <1>10, LargeBlock
    <3>2. boot.hhdm \in Nat /\ Index(u, 1) \in Indices
      BY <1>3, BootIs, Digits
    <3>3. \A j \in Indices : j \in Nat
      BY FanoutAssumption, SMT DEF Indices
    <3>4. Index(u, 1) \in Nat
      BY <3>2, <3>3
    <3> QED BY <3>1, <3>2, <3>4, SMT
  <2>5. ~pg'.panic => Placed(w)'
    BY <1>1, <1>6, <1>10, <2>3, <2>4 DEF Placed
  <2>6. ~pg'.panic => \A u \in VirtualPages : ~Covers(w, u) \/ Mapped(pg, u) => Keeps(pg, pg', u)
    BY <1>6, <1>7, <1>10, <2>3
  <2> QED BY <1>1, <1>2, <1>3, <2>3, <2>5, <2>6, RoundKeeps
<1>11. CASE w.kind = "small"
  <2>1. pg' = Map4k(pg, v, v - boot.hhdm, KernelFlags)
    BY <1>2, <1>11 DEF MissingInOld
  <2>2. /\ Sound(pg') /\ Alike(pg, pg')
        /\ ~pg'.panic => /\ Bare(pg') = {} /\ Mapped(pg', v) /\ Translate(pg', v).to = v - boot.hhdm
                         /\ \A u \in VirtualPages \ {v} : Keeps(pg, pg', u)
    <3>1. v - boot.hhdm \in Nat /\ ~Mapped(pg, v)
      BY <1>4, <1>7, <1>11
    <3>2. MapsAt(pg, pg', v, v - boot.hhdm)
      BY <1>1, <1>3, <1>4, <2>1, <3>1, Map4kIs
    <3> QED BY <3>2 DEF MapsAt
  <2>3. ~pg'.panic => Placed(w)'
    BY <1>1, <1>11, <2>2 DEF Placed
  <2>4. ~pg'.panic => \A u \in VirtualPages : ~Covers(w, u) \/ Mapped(pg, u) => Keeps(pg, pg', u)
    BY <1>4, <1>7, <1>11, <2>2
  <2> QED BY <1>1, <1>2, <1>3, <2>2, <2>3, <2>4, RoundKeeps
<1>12. CASE w.kind = "preserve" /\ ~MissingInOld(w)
  <2>1. pg' = EnsurePageMapping(pg, v, boot.old[v])
    BY <1>2, <1>12
  <2>2. /\ Sound(pg') /\ Alike(pg, pg')
        /\ ~pg'.panic => /\ Bare(pg') = {} /\ Mapped(pg', v) /\ Translate(pg', v).to = boot.old[v]
                         /\ \A u \in VirtualPages : u # v \/ Mapped(pg, u) => Keeps(pg, pg', u)
    <3>1. boot.old[v] \in Nat
      BY <1>4, <1>12
    <3>2. MapsAt(pg, pg', v, boot.old[v])
      BY <1>1, <1>3, <1>4, <2>1, <3>1, EnsurePageMappingIs
    <3> QED BY <3>2 DEF MapsAt
  <2>3. ~pg'.panic => Placed(w)'
    BY <1>1, <1>12, <2>2 DEF Placed
  <2>4. ~pg'.panic => \A u \in VirtualPages : ~Covers(w, u) \/ Mapped(pg, u) => Keeps(pg, pg', u)
    BY <1>6, <2>2
  <2> QED BY <1>1, <1>2, <1>3, <2>2, <2>3, <2>4, RoundKeeps
<1> QED BY <1>5, <1>8, <1>9, <1>10, <1>11, <1>12
\* One empty table is a tree.
LEMMA RootAlone ==
  ASSUME NEW s, Booked(s), NEW f \in Frames, s.root = f, DOMAIN s.tab = {f}, s.tab[f] = EmptyTable
  PROVE  Sound(s) /\ Bare(s) = {} /\ \A v \in VirtualPages : ~Mapped(s, v)
<1> DEFINE at == [t \in {f} |-> <<4, 0>>]
<1>1. /\ at \in [DOMAIN s.tab -> (1 .. 4) \X Nat] /\ at[f] = <<4, 0>>
      /\ \A i \in Indices : s.tab[f][i] = ZERO
  BY EntryTypes, SMT
<1>2. ~ZERO.ps /\ ~Points(ZERO)
  BY EntryTypes
<1> HIDE DEF at
<1>3. Tree(s, at)
  <2>1. \A t \in DOMAIN s.tab, i \in Indices : s.tab[t][i] = ZERO
    BY <1>1
  <2>2. \A t \in DOMAIN s.tab, i \in Indices : ~s.tab[t][i].ps /\ ~Points(s.tab[t][i])
    BY <1>2, <2>1
  <2> QED BY <1>1, <2>2 DEF Tree
<1>4. ASSUME NEW v \in VirtualPages PROVE ~Mapped(s, v)
  <2>1. Index(v, 4) \in Indices
    BY Digits
  <2>2. Pml4e(s, v) = ZERO
    BY <1>1, <2>1 DEF Pml4e
  <2>3. ~Present(Pml4e(s, v))
    BY <2>2, EntryTypes
  <2>4. ~Gets(s, v, 2)
    BY <2>3, LevelIs
  <2> QED BY <2>4, MappedWay
<1> QED BY <1>3, <1>4 DEF Sound, Bare

LEMMA InitKeeps ==
  ASSUME Init
  PROVE  IInv
<1>1. /\ boot \in Boots /\ todo = {} /\ ready = FALSE
      /\ pg = [root |-> 0, tab |-> [f \in {} |-> EmptyTable], free |-> boot.free,
               tables |-> 0, nx |-> FALSE, panic |-> FALSE]
  BY DEF Init
<1>2. boot.free \subseteq Frames
  BY <1>1, BootIs, SMT DEF Frames
<1>3. /\ pg.root = 0 /\ DOMAIN pg.tab = {} /\ pg.free = boot.free /\ pg.tables = 0
      /\ pg.nx = FALSE /\ pg.panic = FALSE /\ pg.tab \in [{} -> Tables]
  BY <1>1
<1>4. pg \in States
  <2>1. pg.tab \in TableSets
    BY <1>3 DEF TableSets
  <2> QED BY <1>1, <1>2, <2>1 DEF States
<1>5. Booked(pg)
  BY <1>3, <1>4, FS_EmptySet DEF Booked
<1>6. Bare(pg) = {}
  BY <1>3 DEF Bare
<1> QED BY <1>1, <1>5, <1>6 DEF IInv, FramesOf

LEMMA PagingInitKeeps ==
  ASSUME IInv, PagingInit
  PROVE  IInv'
<1> DEFINE s == AllocTablePage(pg)
           f == Min(pg.free)
<1>1. /\ ~ready /\ ~pg.panic /\ pg.root = 0 /\ todo' = Work /\ UNCHANGED <<boot, ready>>
      /\ pg' = IF s.panic THEN s ELSE [s EXCEPT !.root = f]
  BY DEF PagingInit
<1>2. Work' = Work
  BY <1>1, SMT DEF Work
<1>3. /\ Booked(pg) /\ DOMAIN pg.tab = {} /\ pg.free = boot.free /\ boot \in Boots
  BY <1>1 DEF IInv, FramesOf
<1>4. CASE pg.free = {}
  <2>1. s = [pg EXCEPT !.panic = TRUE] /\ TRUE \in BOOLEAN
    BY <1>4 DEF AllocTablePage
  <2> HIDE DEF s
  <2>2. Booked(s) /\ Alike(pg, s) /\ s.panic = TRUE /\ s.root = 0 /\ s.tab = pg.tab
    BY <1>1, <1>3, <2>1, Panics
  <2>3. pg' = s
    BY <1>1, <2>2
  <2>4. FramesOf(pg') = boot.free
    BY <1>3, <2>2, <2>3 DEF Alike, FramesOf
  <2> QED BY <1>1, <1>2, <2>2, <2>4 DEF IInv
<1>5. CASE pg.free # {}
  <2>1. /\ f \in pg.free /\ f \in Frames
        /\ Booked(s) /\ s.root = 0 /\ s.panic = pg.panic
        /\ s.free = pg.free \ {f} /\ DOMAIN s.tab = {f} /\ s.tab[f] = EmptyTable
    BY <1>1, <1>3, <1>5, AllocTablePageIs, SMT
  <2> HIDE DEF s, f
  <2>2. pg' = [s EXCEPT !.root = f] /\ s \in States
    BY <1>1, <2>1 DEF Booked
  <2>3. /\ pg'.root = f /\ pg'.tab = s.tab /\ pg'.free = s.free /\ pg'.tables = s.tables
        /\ pg'.panic = s.panic /\ pg' \in States
    BY <2>1, <2>2 DEF States, Frames
  <2>4. Booked(pg')
    BY <2>1, <2>3 DEF Booked
  <2>5. Sound(pg') /\ Bare(pg') = {} /\ \A v \in VirtualPages : ~Mapped(pg', v)
    BY <2>1, <2>3, <2>4, RootAlone
  <2>6. FramesOf(pg') = boot.free
    BY <1>3, <2>1, <2>3 DEF FramesOf
  <2>7. f # 0
    BY <2>1 DEF Frames
  <2>8. Progress'
    BY <1>1, <1>2, <2>5 DEF Progress
  <2> QED BY <1>1, <1>2, <2>3, <2>4, <2>5, <2>6, <2>7, <2>8 DEF IInv
<1> QED BY <1>4, <1>5

LEMMA PagingInitSwitchKeeps ==
  ASSUME IInv, PagingInitSwitch
  PROVE  IInv'
<1>1. /\ ~ready /\ ~pg.panic /\ pg.root # 0 /\ todo = {} /\ ready' = TRUE /\ UNCHANGED <<boot, todo>>
      /\ pg' = [pg EXCEPT !.free = pg.free \cup boot.reclaimed]
  BY DEF PagingInitSwitch
<1>2. /\ Booked(pg) /\ Sound(pg) /\ Bare(pg) = {} /\ boot \in Boots /\ Progress
      /\ FramesOf(pg) = boot.free
  BY <1>1 DEF IInv
<1>3. boot.reclaimed \subseteq Frames /\ boot.reclaimed \cap boot.free = {}
  BY <1>2, BootIs, SMT DEF Frames
<1>4. /\ pg'.root = pg.root /\ pg'.tab = pg.tab /\ pg'.free = pg.free \cup boot.reclaimed
      /\ pg'.tables = pg.tables /\ pg'.panic = pg.panic /\ pg' \in States
  <2>1. pg \in States
    BY <1>2 DEF Booked
  <2> QED BY <1>1, <1>3, <2>1 DEF States
<1>5. Booked(pg') /\ FramesOf(pg') = boot.free \cup boot.reclaimed
  BY <1>2, <1>3, <1>4 DEF Booked, FramesOf
<1>6. /\ Sound(pg') /\ Bare(pg') = {} /\ \A v : Keeps(pg, pg', v)
  BY <1>2, <1>4, <1>5, SameTables DEF Sound
<1>7. Work' = Work
  BY <1>1 DEF Work
<1>8. Progress'
  <2>1. ASSUME NEW w \in Work PROVE Placed(w)'
    <3>1. Placed(w)
      BY <1>1, <1>2 DEF Progress
    <3> QED BY <1>1, <1>2, <1>6, <3>1, PlacedStays
  <2> QED BY <1>1, <1>7, <2>1 DEF Progress
<1> QED BY <1>1, <1>4, <1>5, <1>6, <1>8 DEF IInv

\* A call changes pages that callers own and that are not part of large pages.
LEMMA CallKeeps ==
  ASSUME IInv, ready, UNCHANGED <<boot, todo, ready>>,
         Sound(pg'), pg'.root = pg.root, FramesOf(pg') = FramesOf(pg), pg'.panic \/ Bare(pg') = {},
         \A u \in VirtualPages : Keeps(pg, pg', u) \/ (u \in boot.pages /\ ~Large(pg, u))
  PROVE  IInv'
<1>1. /\ pg.root # 0 /\ Progress /\ boot \in Boots /\ todo = {}
      /\ FramesOf(pg) = boot.free \cup boot.reclaimed
  BY DEF IInv
<1>2. Work' = Work
  BY DEF Work
<1>3. ASSUME NEW w \in Work PROVE Placed(w)'
  <2>1. Placed(w)
    BY <1>1 DEF Progress
  <2>2. ASSUME NEW u \in VirtualPages, Covers(w, u)
        PROVE  Keeps(pg, pg', u) \/ (ready' /\ w.kind \in {"kernel", "preserve"} /\ u \in boot.pages)
    <3>1. CASE w.kind = "large"
      BY <2>1, <2>2, <3>1 DEF Placed
    <3>2. CASE w.kind = "small"
      <4>1. PICK p \in TwoMibLimit(boot) .. boot.span - 1 : u = boot.hhdm + p
        BY <2>2, <3>2, WorkIs DEF Covers
      <4>2. TwoMibLimit(boot) \in Nat /\ boot.hhdm \in Nat /\ boot.span \in Nat
        BY <1>1, LimitIs, BootIs
      <4>3. u \in boot.hhdm + TwoMibLimit(boot) .. boot.hhdm + boot.span - 1
        BY <4>1, <4>2, SMT
      <4>4. u \notin boot.pages
        BY <1>1, <4>3, BootIs
      <4> QED BY <4>4
    <3> QED BY <3>1, <3>2, Ranks
  <2> QED BY <1>1, <2>1, <2>2, PlacedStays
<1>4. Progress'
  BY <1>1, <1>2, <1>3 DEF Progress
<1>5. Booked(pg')
  BY DEF Sound
<1> QED BY <1>4, <1>5 DEF IInv
-----------------------------------------------------------------------------
(* What the calls of paging do, as callers see it.                         *)

Mapping ==
  \E v \in boot.pages, p \in Nat, n \in Nat, flags \in FlagSets :
    v .. v + n - 1 \subseteq boot.pages /\ MapsOnly(pg, pg', v, p, n, flags)

Unmaps(s, r, v) ==
  /\ Sound(r) /\ Alike(s, r) /\ ~r.panic /\ Bare(r) = {}
  /\ Mapped(s, v) /\ ~Large(s, v) /\ Translate(r, v) = Unmapped
  /\ \A u \in VirtualPages \ {v} : Keeps(s, r, u)

Protecting ==
  \E v \in boot.pages, n \in Nat, flags \in FlagSets :
    v .. v + n - 1 \subseteq boot.pages /\ RecastsOnly(pg, pg', v, n, flags)

\* A step that leaves the tables alone.
Idling == Sound(pg') /\ pg'.root = pg.root /\ pg'.tab = pg.tab /\ FramesOf(pg') = FramesOf(pg)

Called ==
  /\ ready /\ ~pg.panic /\ UNCHANGED <<boot, todo, ready>>
  /\ Idling \/ Mapping \/ Protecting \/ \E v \in boot.pages : Unmaps(pg, pg', v)

LEMMA ReadyIs ==
  ASSUME IInv, ready, ~pg.panic
  PROVE  /\ Sound(pg) /\ Booked(pg) /\ Bare(pg) = {} /\ boot \in Boots /\ pg.root # 0
         /\ boot.pages \subseteq VirtualPages /\ boot.pages \subseteq Nat
         /\ Targets \subseteq Nat /\ Lengths \subseteq Nat \ {0}
<1>1. Sound(pg) /\ Booked(pg) /\ Bare(pg) = {} /\ boot \in Boots /\ pg.root # 0
  BY DEF IInv
<1>2. boot.pages \subseteq VirtualPages /\ Targets \subseteq Nat /\ Lengths \subseteq Nat \ {0}
  BY <1>1, PagingAssumption
<1> QED BY <1>1, <1>2, SMT DEF VirtualPages

LEMMA SetNxIs ==
  ASSUME IInv, NEW on \in BOOLEAN, SetNx(on)
  PROVE  Called
<1>1. ready /\ ~pg.panic /\ UNCHANGED <<boot, todo, ready>> /\ pg' = [pg EXCEPT !.nx = on]
  BY DEF SetNx
<1>2. Sound(pg) /\ pg \in States
  BY <1>1, ReadyIs DEF Booked
<1>3. /\ pg' \in States /\ pg'.root = pg.root /\ pg'.tab = pg.tab /\ pg'.free = pg.free
      /\ pg'.tables = pg.tables
  BY <1>1, <1>2 DEF States
<1>4. Booked(pg') /\ FramesOf(pg') = FramesOf(pg)
  BY <1>2, <1>3 DEF Booked, FramesOf, Sound
<1>5. Sound(pg')
  BY <1>2, <1>3, <1>4, SameTables DEF Sound
<1> QED BY <1>1, <1>3, <1>4, <1>5 DEF Called, Idling

LEMMA MapPageIs ==
  ASSUME IInv, NEW v \in boot.pages, NEW p \in Targets, NEW f \in FlagSets, MapPage(v, p, f)
  PROVE  Called
<1> DEFINE r == MapPageLocked(pg, v, p, f)
<1>1. ready /\ ~pg.panic /\ UNCHANGED <<boot, todo, ready>> /\ pg' = r.s
  BY DEF MapPage, Returns
<1>2. /\ Sound(pg) /\ Bare(pg) = {} /\ v \in VirtualPages /\ v \in Nat /\ p \in Nat
  BY <1>1, ReadyIs
<1> DEFINE i == 0
<1>3. v + i = v /\ p + i = p /\ i \in Nat /\ i + 1 = 1 /\ v .. v + 1 - 1 = {v}
  BY <1>2, SMT
<1> HIDE DEF i
<1>4. MapsOnly(pg, pg, v, p, i, f)
  BY <1>2, MapsNone
<1>5. r = MapPageLocked(pg, v + i, p + i, f)
  BY <1>3
<1> HIDE DEF r
<1>6. MapsOnly(pg, r.s, v, p, i + 1, f)
  BY <1>1, <1>2, <1>3, <1>4, <1>5, MapsMore
<1>7. Mapping
  BY <1>1, <1>2, <1>3, <1>6 DEF Mapping
<1> QED BY <1>1, <1>7 DEF Called

LEMMA MapRangeIs ==
  ASSUME IInv, NEW n \in Lengths, NEW p \in Targets, NEW f \in FlagSets,
         NEW v \in RangesOf(n), MapRange(v, p, n, f)
  PROVE  Called
<1>1. ready /\ ~pg.panic /\ UNCHANGED <<boot, todo, ready>>
      /\ pg' = MapRangeLocked(pg, v, p, n, f).s
  BY DEF MapRange, Returns
<1>2. /\ Sound(pg) /\ Bare(pg) = {} /\ v \in boot.pages /\ v \in Nat /\ p \in Nat /\ n \in Nat
      /\ v .. v + n - 1 \subseteq boot.pages /\ v .. v + n - 1 \subseteq VirtualPages
  BY <1>1, ReadyIs DEF RangesOf
<1>3. MapsOnly(pg, pg', v, p, n, f)
  BY <1>1, <1>2, MapRangeLockedIs
<1> QED BY <1>1, <1>2, <1>3 DEF Called, Mapping

LEMMA UnmapPageIs ==
  ASSUME IInv, NEW v \in boot.pages, UnmapPage(v)
  PROVE  Called
<1> DEFINE r == UnmapPageLocked(pg, v)
<1>1. ready /\ ~pg.panic /\ UNCHANGED <<boot, todo, ready>> /\ pg' = r.s
  BY DEF UnmapPage, Returns
<1>2. Sound(pg) /\ Bare(pg) = {} /\ v \in VirtualPages
  BY <1>1, ReadyIs
<1>3. r.s = pg \/ Unmaps(pg, r.s, v)
  BY <1>1, <1>2, UnmapPageLockedIs DEF Unmaps
<1> QED BY <1>1, <1>2, <1>3 DEF Called, Idling

LEMMA ProtectPageIs ==
  ASSUME IInv, NEW v \in boot.pages, NEW f \in FlagSets, ProtectPage(v, f)
  PROVE  Called
<1> DEFINE r == ProtectPageLocked(pg, v, f)
<1>1. ready /\ ~pg.panic /\ UNCHANGED <<boot, todo, ready>> /\ pg' = r.s
  BY DEF ProtectPage, Returns
<1>2. Sound(pg) /\ Bare(pg) = {} /\ v \in VirtualPages /\ v \in Nat
  BY <1>1, ReadyIs
<1> DEFINE i == 0
<1>3. v + i = v /\ i \in Nat /\ i + 1 = 1 /\ v .. v + 1 - 1 = {v}
  BY <1>2, SMT
<1> HIDE DEF i
<1>4. RecastsOnly(pg, pg, v, i, f)
  BY <1>1, <1>2, RecastsNone
<1>5. r = ProtectPageLocked(pg, v + i, f)
  BY <1>3
<1> HIDE DEF r
<1>6. RecastsOnly(pg, r.s, v, i + 1, f)
  BY <1>2, <1>3, <1>4, <1>5, RecastsMore
<1>7. Protecting
  BY <1>1, <1>3, <1>6 DEF Protecting
<1> QED BY <1>1, <1>7 DEF Called

LEMMA ProtectRangeIs ==
  ASSUME IInv, NEW n \in Lengths, NEW f \in FlagSets, NEW v \in RangesOf(n), ProtectRange(v, n, f)
  PROVE  Called
<1>1. ready /\ ~pg.panic /\ UNCHANGED <<boot, todo, ready>>
      /\ pg' = ProtectRangeLocked(pg, v, n, f).s
  BY DEF ProtectRange, Returns
<1>2. /\ Sound(pg) /\ Bare(pg) = {} /\ v \in boot.pages /\ v \in Nat /\ n \in Nat
      /\ v .. v + n - 1 \subseteq boot.pages /\ v .. v + n - 1 \subseteq VirtualPages
  BY <1>1, ReadyIs DEF RangesOf
<1>3. RecastsOnly(pg, pg', v, n, f)
  BY <1>1, <1>2, ProtectRangeLockedIs
<1> QED BY <1>1, <1>2, <1>3 DEF Called, Protecting

LEMMA NextIs ==
  ASSUME IInv, Next
  PROVE  PagingInit \/ PagingInitMap \/ PagingInitSwitch \/ Called
BY SetNxIs, MapPageIs, MapRangeIs, UnmapPageIs, ProtectPageIs, ProtectRangeIs DEF Next
LEMMA LargeIsMapped ==
  ASSUME NEW s, NEW v, Large(s, v)
  PROVE  Mapped(s, v)
BY TranslateIs, SMT DEF Mapped, Present, Large

\* What a call does to each page.
LEMMA CalledPages ==
  ASSUME IInv, Called
  PROVE  /\ Sound(pg') /\ pg'.root = pg.root /\ FramesOf(pg') = FramesOf(pg)
         /\ pg'.panic \/ Bare(pg') = {}
         /\ \A u \in VirtualPages :
              \/ Keeps(pg, pg', u)
              \/ /\ u \in boot.pages /\ ~Large(pg, u)
                 /\ \/ \E p \in Nat, flags \in FlagSets : Puts(pg, pg', u, p, flags)
                    \/ \E flags \in FlagSets : Recasts(pg, pg', u, flags)
                    \/ Translate(pg', u) = Unmapped
<1>1. /\ Sound(pg) /\ Bare(pg) = {} /\ boot.pages \subseteq VirtualPages /\ boot.pages \subseteq Nat
  BY ReadyIs DEF Called
<1>2. CASE Idling
  <2>1. Bare(pg') = Bare(pg) /\ \A u : Keeps(pg, pg', u)
    BY <1>2, SameTables DEF Idling
  <2> QED BY <1>1, <1>2, <2>1 DEF Idling
<1>3. CASE Mapping
  <2>1. PICK v \in boot.pages, p \in Nat, n \in Nat, flags \in FlagSets :
          v .. v + n - 1 \subseteq boot.pages /\ MapsOnly(pg, pg', v, p, n, flags)
    BY <1>3 DEF Mapping
  <2>2. ASSUME NEW u \in VirtualPages, ~Keeps(pg, pg', u)
        PROVE  u \in boot.pages /\ ~Large(pg, u) /\ \E q \in Nat : Puts(pg, pg', u, q, flags)
    <3>1. PICK k \in 0 .. n - 1 : u = v + k /\ Puts(pg, pg', u, p + k, flags)
      BY <2>1, <2>2 DEF MapsOnly
    <3>2. v \in Nat /\ p + k \in Nat
      BY <1>1, SMT
    <3>3. u \in v .. v + n - 1
      BY <3>1, <3>2, SMT
    <3>4. ~Large(pg, u)
      BY <3>1, LargeIsMapped DEF Puts
    <3> QED BY <2>1, <3>1, <3>2, <3>3, <3>4
  <2> QED BY <2>1, <2>2 DEF MapsOnly, Alike
<1>4. CASE Protecting
  <2>1. PICK v \in boot.pages, n \in Nat, flags \in FlagSets :
          v .. v + n - 1 \subseteq boot.pages /\ RecastsOnly(pg, pg', v, n, flags)
    BY <1>4 DEF Protecting
  <2>2. ASSUME NEW u \in VirtualPages, ~Keeps(pg, pg', u)
        PROVE  u \in boot.pages /\ ~Large(pg, u) /\ Recasts(pg, pg', u, flags)
    BY <2>1, <2>2 DEF RecastsOnly, Recasts
  <2> QED BY <2>1, <2>2 DEF RecastsOnly, Alike
<1>5. CASE \E v \in boot.pages : Unmaps(pg, pg', v)
  <2>1. PICK v \in boot.pages : Unmaps(pg, pg', v)
    BY <1>5
  <2> QED BY <2>1 DEF Unmaps, Alike
<1> QED BY <1>2, <1>3, <1>4, <1>5 DEF Called

\* The inductive invariant.
THEOREM Invariance == Spec => []IInv
<1>1. Init => IInv
  BY InitKeeps
<1>2. IInv /\ [Next]_vars => IInv'
  <2> SUFFICES ASSUME IInv, [Next]_vars PROVE IInv'
    OBVIOUS
  <2>1. CASE PagingInit
    BY <2>1, PagingInitKeeps
  <2>2. CASE PagingInitMap
    BY <2>2, PagingInitMapKeeps
  <2>3. CASE PagingInitSwitch
    BY <2>3, PagingInitSwitchKeeps
  <2>4. CASE Called
    <3>1. /\ Sound(pg') /\ pg'.root = pg.root /\ FramesOf(pg') = FramesOf(pg)
          /\ pg'.panic \/ Bare(pg') = {}
          /\ \A u \in VirtualPages : Keeps(pg, pg', u) \/ (u \in boot.pages /\ ~Large(pg, u))
      BY <2>4, CalledPages
    <3>2. ready /\ UNCHANGED <<boot, todo, ready>>
      BY <2>4 DEF Called
    <3> QED BY <3>1, <3>2, CallKeeps
  <2>5. CASE UNCHANGED vars
    <3>1. boot' = boot /\ pg' = pg /\ todo' = todo /\ ready' = ready
      BY <2>5 DEF vars
    <3>2. Work' = Work
      BY <3>1 DEF Work
    <3>3. \A w : Placed(w)' <=> Placed(w)
      BY <3>1 DEF Placed
    <3>4. Progress' <=> Progress
      BY <3>1, <3>2, <3>3 DEF Progress
    <3> QED BY <3>1, <3>2, <3>4 DEF IInv
  <2> QED BY <2>1, <2>2, <2>3, <2>4, <2>5, NextIs
<1> QED BY <1>1, <1>2, PTL DEF Spec

-----------------------------------------------------------------------------
(* The boot mappings.                                                      *)

\* The large page that page hhdm + p is part of.
LEMMA LargeCovers ==
  ASSUME boot \in Boots, NEW p \in 0 .. TwoMibLimit(boot) - 1
  PROVE  \E w \in Work : w.kind = "large" /\ Covers(w, boot.hhdm + p)
<1> DEFINE F == FANOUT
           limit == TwoMibLimit(boot)
           b == p \div F
           i == p % F
           a == boot.hhdm \div F
<1>1. /\ F \in Nat \ {0} /\ limit \in Nat /\ p \in Nat /\ limit # 0 /\ boot.hhdm \in Nat
      /\ boot.hhdm % F = 0
  BY FanoutAssumption, LimitIs, BootIs, SMT
<1>2. b \in Nat /\ i \in 0 .. F - 1 /\ p = b * F + i
  BY <1>1, Division
<1>3. a \in Nat /\ boot.hhdm = a * F
  <2>1. a \in Nat /\ boot.hhdm = a * F + (boot.hhdm % F)
    BY <1>1, Division
  <2>2. a * F \in Nat
    BY <1>1, <2>1, SMT
  <2> HIDE DEF a
  <2> QED BY <1>1, <2>1, <2>2, SMT
<1> HIDE DEF a, b, i
<1>4. b * F \in Nat /\ b * F \in 0 .. limit - 1
  <2>1. b * F \in Nat
    BY <1>1, <1>2, SMT
  <2> QED BY <1>1, <1>2, <2>1, SMT
<1>5. (b * F) % F = 0
  <2>1. 0 \in 0 .. F - 1 /\ b * F + 0 = b * F
    BY <1>1, <1>4, SMT
  <2>2. (b * F + 0) % F = 0
    BY <1>1, <1>2, <2>1, Quotient
  <2> QED BY <2>1, <2>2
<1> DEFINE w == [kind |-> "large", page |-> boot.hhdm + b * F]
<1>6. w \in Work
  BY <1>4, <1>5, WorkHas
<1>7. (boot.hhdm + b * F) \div F = a + b /\ (boot.hhdm + p) \div F = a + b
  <2>1. a + b \in Nat /\ 0 \in 0 .. F - 1
    BY <1>1, <1>2, <1>3, SMT
  <2>2. boot.hhdm + b * F = (a + b) * F + 0 /\ boot.hhdm + p = (a + b) * F + i
    BY <1>1, <1>2, <1>3, SMT
  <2>3. ((a + b) * F + 0) \div F = a + b
    BY <1>1, <2>1, Quotient
  <2>4. ((a + b) * F + i) \div F = a + b
    BY <1>1, <1>2, <2>1, Quotient
  <2> QED BY <2>2, <2>3, <2>4
<1>8. Pre(boot.hhdm + p, 1) = Pre(boot.hhdm + b * F, 1)
  BY <1>7, SMT DEF Pre
<1>9. Covers(w, boot.hhdm + p)
  BY <1>8 DEF Covers
<1> QED BY <1>6, <1>9

\* paging_init and the calls after it leave the kernel, its stack, the frame
\* buffer and the direct map where the boot loader had them.
THEOREM BootMapIsKept == Spec => []BootMapKept
<1>1. IInv => BootMapKept
  <2> SUFFICES ASSUME IInv, ready PROVE BootMapKept
    BY DEF BootMapKept
  <2>1. boot \in Boots /\ \A w \in Work : Placed(w)
    BY DEF IInv, Progress
  <2>2. ASSUME NEW v \in (boot.kernel \cup boot.preserved) \ boot.pages
        PROVE  Translate(pg, v).to = boot.old[v]
    <3>1. PICK w \in Work : w.kind \in {"kernel", "preserve"} /\ w.page = v
      BY WorkHas
    <3>2. Placed(w)
      BY <2>1
    <3> QED BY <3>1, <3>2 DEF Placed
  <2>3. ASSUME NEW p \in 0 .. boot.span - 1
        PROVE  Mapped(pg, boot.hhdm + p) /\ Translate(pg, boot.hhdm + p).to = p
    <3>1. /\ boot.hhdm \in Nat /\ boot.span \in Nat /\ TwoMibLimit(boot) \in Nat
          /\ boot.hhdm .. boot.hhdm + boot.span - 1 \subseteq VirtualPages
      BY <2>1, BootIs, LimitIs
    <3>2. boot.hhdm + p \in VirtualPages /\ (boot.hhdm + p) - boot.hhdm = p
      BY <3>1, SMT
    <3>3. CASE p < TwoMibLimit(boot)
      <4>1. PICK w \in Work : w.kind = "large" /\ Covers(w, boot.hhdm + p)
        <5>1. p \in 0 .. TwoMibLimit(boot) - 1
          BY <3>1, <3>3, SMT
        <5> QED BY <2>1, <5>1, LargeCovers
      <4>2. Placed(w)
        BY <2>1
      <4> QED BY <3>2, <4>1, <4>2 DEF Placed
    <3>4. CASE ~(p < TwoMibLimit(boot))
      <4>1. PICK w \in Work : w.kind = "small" /\ w.page = boot.hhdm + p
        <5>1. p \in TwoMibLimit(boot) .. boot.span - 1
          BY <3>1, <3>4, SMT
        <5> QED BY <5>1, WorkHas
      <4>2. Placed(w)
        BY <2>1
      <4> QED BY <3>2, <4>1, <4>2 DEF Placed
    <3> QED BY <3>3, <3>4
  <2> QED BY <2>2, <2>3 DEF BootMapKept
<1> QED BY <1>1, Invariance, PTL
-----------------------------------------------------------------------------
(* User pages.                                                             *)

\* What the map calls map for the user it reaches: PAGE_USER on all levels,
\* whatever the calls for other pages do to the tables it shares with them.
\* Only a protect call of a kernel's page sets PAGE_USER in the PTE alone.
THEOREM UserMapsAreReachable == Spec => UserMapsReachable
<1>1. ASSUME IInv, Called, NEW v \in boot.pages,
             ~Mapped(pg, v) \/ UserReaches(pg, v), "USER" \in Translate(pg', v).flags
      PROVE  UserReaches(pg', v)
  <2>1. Sound(pg) /\ v \in VirtualPages
    BY <1>1, ReadyIs DEF Called
  <2>2. CASE Keeps(pg, pg', v)
    <3>1. Translate(pg, v) # Unmapped
      BY <1>1, <2>2, SMT DEF Keeps, Unmapped
    <3>2. Mapped(pg, v)
      BY <2>1, <3>1, FlagsMeanMapped
    <3> QED BY <1>1, <2>2, <3>2 DEF Keeps
  <2>3. CASE \E p \in Nat, flags \in FlagSets : Puts(pg, pg', v, p, flags)
    <3>1. PICK p \in Nat, flags \in FlagSets : Puts(pg, pg', v, p, flags)
      BY <2>3
    <3>2. "USER" \in FlagsToHw(pg, flags)
      BY <1>1, <3>1, SMT DEF Puts
    <3>3. "USER" \in flags
      BY <3>2, FlagsToHwIs
    <3> QED BY <3>1, <3>3 DEF Puts
  <2>4. CASE \E flags \in FlagSets : Recasts(pg, pg', v, flags)
    <3>1. PICK flags \in FlagSets : Recasts(pg, pg', v, flags)
      BY <2>4
    <3>2. "USER" \in FlagsToHw(pg, flags)
      BY <1>1, <3>1, SMT DEF Recasts
    <3>3. "USER" \in flags
      BY <3>2, FlagsToHwIs
    <3> QED BY <1>1, <3>1, <3>3 DEF Recasts
  <2>5. CASE Translate(pg', v) = Unmapped
    BY <1>1, <2>5, SMT DEF Unmapped
  <2> QED BY <1>1, <2>1, <2>2, <2>3, <2>4, <2>5, CalledPages
<1>2. ASSUME IInv, Called, NEW v \in boot.pages, "USER" \in Translate(pg', v).flags,
             "USER" \notin Translate(pg, v).flags
      PROVE  UserReaches(pg', v) \/ Translate(pg', v).to = Translate(pg, v).to
  <2>1. v \in VirtualPages
    BY <1>2, ReadyIs DEF Called
  <2>2. CASE Keeps(pg, pg', v)
    BY <1>2, <2>2 DEF Keeps
  <2>3. CASE \E p \in Nat, flags \in FlagSets : Puts(pg, pg', v, p, flags)
    <3>1. PICK p \in Nat, flags \in FlagSets : Puts(pg, pg', v, p, flags)
      BY <2>3
    <3>2. "USER" \in FlagsToHw(pg, flags)
      BY <1>2, <3>1, SMT DEF Puts
    <3>3. "USER" \in flags
      BY <3>2, FlagsToHwIs
    <3> QED BY <3>1, <3>3 DEF Puts
  <2>4. CASE \E flags \in FlagSets : Recasts(pg, pg', v, flags)
    <3>1. PICK flags \in FlagSets : Recasts(pg, pg', v, flags)
      BY <2>4
    <3> QED BY <3>1, SMT DEF Recasts
  <2>5. CASE Translate(pg', v) = Unmapped
    BY <1>2, <2>5, SMT DEF Unmapped
  <2> QED BY <1>2, <2>1, <2>2, <2>3, <2>4, <2>5, CalledPages
<1>3. IInv /\ [Next]_vars =>
        [ready => \A v \in boot.pages :
           LET was == Translate(pg, v)
               now == Translate(pg', v)
           IN "USER" \in now.flags /\ ~UserReaches(pg', v)
                => \/ Mapped(pg, v) /\ "USER" \notin was.flags /\ now.to = was.to
                   \/ "USER" \in was.flags /\ ~UserReaches(pg, v)]_vars
  <2>2. ASSUME IInv, Next, ready PROVE Called
    BY <2>2, NextIs DEF PagingInit, PagingInitMap, PagingInitSwitch
  <2>3. ASSUME IInv, Next, ready, NEW v \in boot.pages,
               "USER" \in Translate(pg', v).flags, ~UserReaches(pg', v)
        PROVE  \/ /\ Mapped(pg, v) /\ "USER" \notin Translate(pg, v).flags
                  /\ Translate(pg', v).to = Translate(pg, v).to
               \/ "USER" \in Translate(pg, v).flags /\ ~UserReaches(pg, v)
    BY <1>1, <1>2, <2>2, <2>3
  <2> QED BY <2>3
<1> QED BY <1>3, Invariance, PTL DEF Spec, UserMapsReachable

-----------------------------------------------------------------------------
(* Callers see a partial map.                                              *)

LEMMA AddressMapIs ==
  /\ DOMAIN AddressMap = {u \in VirtualPages : Mapped(pg, u)}
  /\ \A u \in DOMAIN AddressMap : AddressMap[u] = Translate(pg, u)
BY DEF AddressMap, Mapped

LEMMA AddressMapNext ==
  /\ DOMAIN AddressMap' = {u \in VirtualPages : Mapped(pg', u)}
  /\ \A u \in DOMAIN AddressMap' : AddressMap'[u] = Translate(pg', u)
BY DEF AddressMap, Mapped

LEMMA AddressMapSame ==
  ASSUME \A u \in VirtualPages : Translate(pg', u) = Translate(pg, u)
  PROVE  AddressMap' = AddressMap
BY DEF AddressMap

LEMMA CalledIsSpace ==
  ASSUME IInv, Called
  PROVE  Space!Map(AddressMap, AddressMap') \/ Space!Unmap(AddressMap, AddressMap')
         \/ Space!Protect(AddressMap, AddressMap') \/ UNCHANGED AddressMap
<1> DEFINE m == AddressMap
           n == AddressMap'
<1>1. /\ DOMAIN m = {u \in VirtualPages : Mapped(pg, u)}
      /\ \A u \in DOMAIN m : m[u] = Translate(pg, u)
  BY AddressMapIs
<1>2. /\ DOMAIN n = {u \in VirtualPages : Mapped(pg', u)}
      /\ \A u \in DOMAIN n : n[u] = Translate(pg', u)
  BY AddressMapNext
<1>3. boot.pages \subseteq VirtualPages /\ boot.pages \subseteq Nat
  BY ReadyIs DEF Called
<1>4. ASSUME NEW u \in VirtualPages, Keeps(pg, pg', u)
      PROVE  (u \in DOMAIN n <=> u \in DOMAIN m) /\ (u \in DOMAIN m => n[u] = m[u])
  BY <1>1, <1>2, <1>4 DEF Keeps, Mapped
<1>5. CASE Idling
  <2>1. \A u : Keeps(pg, pg', u)
    BY <1>5, SameTables DEF Idling
  <2> QED BY <2>1, AddressMapSame DEF Keeps
<1>6. CASE Mapping
  <2>1. PICK v \in boot.pages, p \in Nat, len \in Nat, flags \in FlagSets :
          MapsOnly(pg, pg', v, p, len, flags)
    BY <1>6 DEF Mapping
  <2>2. ASSUME NEW u \in VirtualPages
        PROVE  Keeps(pg, pg', u) \/ \E k \in 0 .. len - 1 : u = v + k /\ Puts(pg, pg', u, p + k, flags)
    BY <2>1 DEF MapsOnly
  <2>3. ASSUME NEW u \in DOMAIN m PROVE Space!Same(m, n, u)
    <3>1. u \in VirtualPages /\ Mapped(pg, u)
      BY <1>1
    <3>2. Keeps(pg, pg', u)
      BY <2>2, <3>1 DEF Puts
    <3> QED BY <1>4, <3>1, <3>2 DEF Space!Same
  <2>4. ASSUME NEW u \in DOMAIN n \ DOMAIN m
        PROVE  u - v \in Nat /\ n[u].to = p + (u - v) /\ n[u].flags = FlagsToHw(pg, flags)
    <3>1. u \in VirtualPages /\ ~Keeps(pg, pg', u)
      BY <1>2, <1>4
    <3>2. PICK k \in 0 .. len - 1 : u = v + k /\ Puts(pg, pg', u, p + k, flags)
      BY <2>2, <3>1
    <3>3. n[u] = [to |-> p + k, flags |-> FlagsToHw(pg, flags)]
      BY <1>2, <3>2 DEF Puts
    <3>4. u - v = k /\ k \in Nat
      BY <1>3, <3>2, SMT
    <3> HIDE DEF n
    <3> QED BY <3>3, <3>4, SMT
  <2>5. ASSUME NEW u \in DOMAIN n \ DOMAIN m, NEW w \in DOMAIN n \ DOMAIN m
        PROVE  n[u].to - n[w].to = u - w /\ n[u].flags = n[w].flags
    <3>1. u \in Nat /\ w \in Nat /\ v \in Nat
      BY <1>2, <1>3, SMT DEF VirtualPages
    <3>2. /\ n[u].to = p + (u - v) /\ n[w].to = p + (w - v)
          /\ n[u].flags = FlagsToHw(pg, flags) /\ n[w].flags = FlagsToHw(pg, flags)
      BY <2>4
    <3> HIDE DEF n, m
    <3> QED BY <3>1, <3>2, SMT
  <2> QED BY <2>3, <2>5 DEF Space!Map
<1>7. CASE Protecting
  <2>1. PICK v \in boot.pages, len \in Nat, flags \in FlagSets :
          RecastsOnly(pg, pg', v, len, flags)
    BY <1>7 DEF Protecting
  <2>2. ASSUME NEW u \in VirtualPages
        PROVE  Keeps(pg, pg', u) \/ Recasts(pg, pg', u, flags)
    BY <2>1 DEF RecastsOnly
  <2>3. ASSUME NEW u \in VirtualPages, Recasts(pg, pg', u, flags)
        PROVE  /\ u \in DOMAIN m /\ u \in DOMAIN n /\ n[u].to = m[u].to
               /\ n[u].flags = FlagsToHw(pg, flags)
    <3>1. Mapped(pg, u) /\ Translate(pg', u) = [to |-> Translate(pg, u).to, flags |-> FlagsToHw(pg, flags)]
      BY <2>3 DEF Recasts
    <3>2. Mapped(pg', u)
      BY <3>1, FlagsToHwIs, SMT DEF Mapped, Present
    <3>3. u \in DOMAIN m /\ u \in DOMAIN n /\ n[u] = Translate(pg', u) /\ m[u] = Translate(pg, u)
      BY <1>1, <1>2, <3>1, <3>2
    <3> HIDE DEF m, n
    <3> QED BY <3>1, <3>3, SMT
  <2>4. DOMAIN n = DOMAIN m
    <3>1. DOMAIN n \subseteq VirtualPages /\ DOMAIN m \subseteq VirtualPages
      BY <1>1, <1>2
    <3>2. \A u \in VirtualPages : u \in DOMAIN n <=> u \in DOMAIN m
      BY <1>4, <2>2, <2>3
    <3> QED BY <3>1, <3>2
  <2>5. ASSUME NEW u \in DOMAIN m
        PROVE  n[u].to = m[u].to /\ (Space!Same(m, n, u) \/ n[u].flags = FlagsToHw(pg, flags))
    <3>1. u \in VirtualPages
      BY <1>1
    <3>2. CASE Keeps(pg, pg', u)
      BY <1>4, <3>1, <3>2 DEF Space!Same
    <3>3. CASE Recasts(pg, pg', u, flags)
      BY <2>3, <3>1, <3>3
    <3> QED BY <2>2, <3>1, <3>2, <3>3
  <2> HIDE DEF m, n
  <2>6. Space!Protect(m, n)
    BY <2>4, <2>5 DEF Space!Protect
  <2> QED BY <2>6 DEF m, n
<1>8. CASE \E v \in boot.pages : Unmaps(pg, pg', v)
  <2>1. PICK v \in boot.pages : Unmaps(pg, pg', v)
    BY <1>8
  <2>2. v \in VirtualPages /\ Mapped(pg, v) /\ ~Mapped(pg', v)
    BY <1>3, <2>1, SMT DEF Unmaps, Mapped, Present, Unmapped
  <2>3. v \in DOMAIN m /\ v \notin DOMAIN n
    BY <1>1, <1>2, <2>2
  <2>4. \A u \in VirtualPages \ {v} : Keeps(pg, pg', u)
    BY <2>1 DEF Unmaps
  <2>5. DOMAIN n = DOMAIN m \ {v}
    <3>1. DOMAIN n \subseteq VirtualPages /\ DOMAIN m \subseteq VirtualPages
      BY <1>1, <1>2
    <3>2. \A u \in VirtualPages \ {v} : u \in DOMAIN n <=> u \in DOMAIN m
      BY <1>4, <2>4
    <3> QED BY <2>3, <3>1, <3>2
  <2>6. \A u \in DOMAIN n : Space!Same(m, n, u)
    BY <1>2, <1>4, <2>3, <2>4 DEF Space!Same
  <2> HIDE DEF m, n
  <2>7. Space!Unmap(m, n)
    BY <2>3, <2>5, <2>6 DEF Space!Unmap
  <2> QED BY <2>7 DEF m, n
<1> QED BY <1>5, <1>6, <1>7, <1>8 DEF Called

\* paging.c implements the partial map of AddressSpace.
THEOREM ImplementsAddressSpace == Spec => Refinement
<1>1. Init => Space!Init
  BY DEF Init, Space!Init, Visible
<1>2. IInv /\ [Next]_vars => [Space!Next]_Visible
  <2> SUFFICES ASSUME IInv, [Next]_vars PROVE [Space!Next]_Visible
    OBVIOUS
  <2>1. CASE ~ready /\ ~ready'
    BY <2>1 DEF Visible
  <2>2. CASE PagingInitSwitch
    <3>1. Space!Boot
      BY <2>2 DEF PagingInitSwitch, Space!Boot, Visible
    <3> QED BY <3>1 DEF Space!Next
  <2>3. CASE Called
    <3>1. Visible = AddressMap /\ Visible' = AddressMap'
      BY <2>3 DEF Called, Visible
    <3>2. Space!Map(Visible, Visible') \/ Space!Unmap(Visible, Visible')
          \/ Space!Protect(Visible, Visible') \/ UNCHANGED Visible
      BY <2>3, <3>1, CalledIsSpace
    <3> QED BY <3>2 DEF Space!Next
  <2>4. CASE UNCHANGED vars
    BY <2>4 DEF vars, Visible, AddressMap
  <2>5. CASE PagingInit \/ PagingInitMap
    BY <2>1, <2>5 DEF PagingInit, PagingInitMap
  <2> QED BY <2>2, <2>3, <2>4, <2>5, NextIs
<1> QED BY <1>1, <1>2, Invariance, PTL DEF Spec, Refinement, Space!Spec
-----------------------------------------------------------------------------
(* The tree, as a walk over the tables finds it.                           *)

LEMMA LinksAre ==
  ASSUME NEW T, NEW x
  PROVE  x \in Links(T) <=>
           \E t \in T, i \in Indices : x = <<t, i>> /\ Points(pg.tab[t][i])
BY SMT DEF Links, Points, Indices

\* The tables that tables of level l lead to are those of the level below.
LEMMA ChildrenAre ==
  ASSUME NEW at, Tree(pg, at), NEW l \in 2 .. 4
  PROVE  Children({t \in DOMAIN pg.tab : at[t][1] = l}) = {t \in DOMAIN pg.tab : at[t][1] = l - 1}
<1> DEFINE T == {t \in DOMAIN pg.tab : at[t][1] = l}
           U == {t \in DOMAIN pg.tab : at[t][1] = l - 1}
<1>1. ASSUME NEW c \in Children(T) PROVE c \in U
  <2>1. PICK x \in Links(T) : c = pg.tab[x[1]][x[2]].to
    BY DEF Children
  <2>2. PICK t \in T, i \in Indices : x = <<t, i>> /\ Points(pg.tab[t][i])
    BY LinksAre
  <2>3. c = pg.tab[t][i].to /\ t \in DOMAIN pg.tab /\ at[t][1] = l
    BY <2>1, <2>2
  <2>4. c \in DOMAIN pg.tab /\ at[c] = Below(at[t], i)
    <3>1. l # 1
      BY SMT
    <3>2. \A z \in DOMAIN pg.tab, k \in Indices :
            /\ pg.tab[z][k].ps => at[z][1] = 2
            /\ Points(pg.tab[z][k]) /\ at[z][1] # 1 =>
                 pg.tab[z][k].to \in DOMAIN pg.tab /\ at[pg.tab[z][k].to] = Below(at[z], k)
      BY DEF Tree
    <3> QED BY <2>2, <2>3, <3>1, <3>2
  <2> QED BY <2>3, <2>4, BelowIs
<1>2. ASSUME NEW c \in U PROVE c \in Children(T)
  <2>1. c \in DOMAIN pg.tab \ {pg.root}
    <3>1. l - 1 # 4
      BY SMT
    <3> QED BY <3>1, RootPlace
  <2>2. PICK p \in DOMAIN pg.tab, i \in Indices :
          Points(pg.tab[p][i]) /\ at[p][1] # 1 /\ pg.tab[p][i].to = c
    BY <2>1 DEF Tree
  <2>3. at[c] = Below(at[p], i) /\ at[p] \in (1 .. 4) \X Nat
    <3>1. at[p] \in (1 .. 4) \X Nat
      BY DEF Tree
    <3>2. \A z \in DOMAIN pg.tab, k \in Indices :
            /\ pg.tab[z][k].ps => at[z][1] = 2
            /\ Points(pg.tab[z][k]) /\ at[z][1] # 1 =>
                 pg.tab[z][k].to \in DOMAIN pg.tab /\ at[pg.tab[z][k].to] = Below(at[z], k)
      BY DEF Tree
    <3> QED BY <2>2, <3>1, <3>2
  <2>4. at[p][1] = l
    BY <1>2, <2>3, SMT DEF Below
  <2>5. <<p, i>> \in Links(T)
    BY <2>2, <2>4, LinksAre
  <2>6. c = pg.tab[<<p, i>>[1]][<<p, i>>[2]].to
    BY <2>2
  <2> QED BY <2>5, <2>6 DEF Children
<1> QED BY <1>1, <1>2

LEMMA TableEntriesAre ==
  ASSUME NEW at, Tree(pg, at), NEW x
  PROVE  x \in TableEntries <=>
           \E t \in DOMAIN pg.tab, i \in Indices :
             x = <<t, i>> /\ Points(pg.tab[t][i]) /\ at[t][1] # 1
<1> DEFINE L(l) == {t \in DOMAIN pg.tab : at[t][1] = l}
<1>1. L(4) = {pg.root}
  <2>1. pg.root \in L(4)
    BY RootPlace
  <2>2. ASSUME NEW t \in L(4), t # pg.root PROVE FALSE
    <3>1. PICK p \in DOMAIN pg.tab, i \in Indices :
            Points(pg.tab[p][i]) /\ at[p][1] # 1 /\ pg.tab[p][i].to = t
      BY <2>2 DEF Tree
    <3>2. at[t] = Below(at[p], i) /\ at[p] \in (1 .. 4) \X Nat
      BY <3>1 DEF Tree
    <3> QED BY <2>2, <3>2, SMT DEF Below
  <2> QED BY <2>1, <2>2
<1>2. Children(L(4)) = L(3) /\ Children(L(3)) = L(2)
  <2>1. \A l \in 2 .. 4 : Children(L(l)) = L(l - 1)
    BY ChildrenAre
  <2>2. Children(L(4)) = L(4 - 1) /\ Children(L(3)) = L(3 - 1)
    BY <2>1, SMT
  <2> QED BY <2>2, SMT
<1>3. TableEntries = Links(L(4) \cup L(3) \cup L(2))
  BY <1>1, <1>2 DEF TableEntries
<1>4. \A t : t \in L(4) \cup L(3) \cup L(2) <=> t \in DOMAIN pg.tab /\ at[t][1] # 1
  BY SMT DEF Tree
<1> HIDE DEF L
<1> QED BY <1>3, <1>4, LinksAre, SMT

\* A table other than the root has one entry that leads to it.
LEMMA OneParent ==
  ASSUME NEW at, Tree(pg, at), NEW t \in DOMAIN pg.tab \ {pg.root}
  PROVE  Cardinality({d \in TableEntries : pg.tab[d[1]][d[2]].to = t}) = 1
<1>1. PICK p \in DOMAIN pg.tab, i \in Indices :
        Points(pg.tab[p][i]) /\ at[p][1] # 1 /\ pg.tab[p][i].to = t
  BY DEF Tree
<1>2. at[t] = Below(at[p], i) /\ at[p] \in (1 .. 4) \X Nat
  BY <1>1, SMT DEF Tree
<1> DEFINE D == {d \in TableEntries : pg.tab[d[1]][d[2]].to = t}
<1>3. <<p, i>> \in D
  BY <1>1, TableEntriesAre
<1>4. ASSUME NEW d \in D PROVE d = <<p, i>>
  <2>1. PICK q \in DOMAIN pg.tab, j \in Indices :
          d = <<q, j>> /\ Points(pg.tab[q][j]) /\ at[q][1] # 1
    BY TableEntriesAre
  <2>2. pg.tab[q][j].to = t
    BY <2>1
  <2>3. at[t] = Below(at[q], j) /\ at[q] \in (1 .. 4) \X Nat
    BY <2>1, <2>2 DEF Tree
  <2>4. at[p] = at[q] /\ i = j
    <3>1. Below(at[p], i) = Below(at[q], j)
      BY <1>2, <2>3
    <3> QED BY <1>2, <2>3, <3>1, OneBelow, SMTT(20)
  <2>5. p = q
    BY <2>4 DEF Tree
  <2> QED BY <2>1, <2>4, <2>5
<1>5. D = {<<p, i>>}
  BY <1>3, <1>4
<1> QED BY <1>5, FS_Singleton

LEMMA WellTyped ==
  ASSUME IInv PROVE TypeOK
<1>1. /\ Booked(pg) /\ pg \in States /\ boot \in Boots /\ ready \in BOOLEAN
      /\ FramesOf(pg) = boot.free \cup (IF ready THEN boot.reclaimed ELSE {})
  BY DEF IInv, Booked
<1>2. pg.root \in DOMAIN pg.tab \cup {0}
  BY DEF IInv, Sound, Tree
<1>3. pg.free \subseteq boot.free \cup boot.reclaimed
  BY <1>1 DEF FramesOf
<1>4. pg.tables \in Nat /\ pg.nx \in BOOLEAN /\ pg.panic \in BOOLEAN
  BY <1>1 DEF States
<1>5. ASSUME NEW t \in DOMAIN pg.tab
      PROVE  /\ DOMAIN pg.tab[t] = 0 .. FANOUT - 1
             /\ \A i \in 0 .. FANOUT - 1 : pg.tab[t][i] \in Entries
  <2>1. pg.tab[t] \in Tables
    BY <1>1, TableIs
  <2> QED BY <2>1 DEF Tables, Indices
<1>6. \A e \in Entries : e.to \in Nat /\ e.ps \in BOOLEAN /\ (e = ZERO \/ Present(e))
  BY DEF Entries
<1> QED BY <1>1, <1>2, <1>3, <1>4, <1>5, <1>6 DEF TypeOK

\* After any history of calls the tables form a tree below the root: one
\* parent entry each, none free, none lost, none empty, all counted.
THEOREM TablesAreATree == Spec => []TablesFormTree
<1>1. IInv => TablesFormTree
  <2> SUFFICES ASSUME IInv, ready
               PROVE  /\ \A d \in TableEntries :
                           pg.tab[d[1]][d[2]].to \in DOMAIN pg.tab \ {pg.root}
                      /\ \A t \in DOMAIN pg.tab \ {pg.root} :
                           /\ Cardinality({d \in TableEntries : pg.tab[d[1]][d[2]].to = t}) = 1
                           /\ pg.panic \/ ~IsTableEmpty(pg, t)
                      /\ DOMAIN pg.tab \cap pg.free = {}
                      /\ DOMAIN pg.tab \cup pg.free = boot.free \cup boot.reclaimed
                      /\ pg.tables = Cardinality(DOMAIN pg.tab)
    BY WellTyped DEF TablesFormTree
  <2>1. Sound(pg) /\ Booked(pg)
    BY DEF IInv
  <2>2. PICK at : Tree(pg, at)
    BY <2>1 DEF Sound
  <2>3. ASSUME NEW d \in TableEntries
        PROVE  pg.tab[d[1]][d[2]].to \in DOMAIN pg.tab \ {pg.root}
    <3>1. PICK t \in DOMAIN pg.tab, i \in Indices :
            d = <<t, i>> /\ Points(pg.tab[t][i]) /\ at[t][1] # 1
      BY <2>2, TableEntriesAre
    <3>2. /\ pg.tab[t][i].to \in DOMAIN pg.tab
          /\ at[pg.tab[t][i].to] = Below(at[t], i) /\ at[t] \in (1 .. 4) \X Nat
      <4>1. at[t] \in (1 .. 4) \X Nat
        BY <2>2 DEF Tree
      <4>2. \A z \in DOMAIN pg.tab, k \in Indices :
              /\ pg.tab[z][k].ps => at[z][1] = 2
              /\ Points(pg.tab[z][k]) /\ at[z][1] # 1 =>
                   pg.tab[z][k].to \in DOMAIN pg.tab /\ at[pg.tab[z][k].to] = Below(at[z], k)
        BY <2>2 DEF Tree
      <4> QED BY <3>1, <4>1, <4>2
    <3>3. at[pg.tab[t][i].to][1] < 4
      BY <3>2, SMT DEF Below
    <3>4. at[pg.root][1] = 4
      BY <2>2, RootPlace
    <3> QED BY <3>1, <3>2, <3>3, <3>4, SMTT(20)
  <2>4. ASSUME NEW t \in DOMAIN pg.tab \ {pg.root}
        PROVE  pg.panic \/ ~IsTableEmpty(pg, t)
    <3>1. pg.panic \/ Bare(pg) = {}
      BY DEF IInv
    <3>2. IsTableEmpty(pg, t) => t \in Bare(pg)
      BY DEF Bare
    <3> QED BY <3>1, <3>2
  <2>5. DOMAIN pg.tab \cap pg.free = {} /\ pg.tables = Cardinality(DOMAIN pg.tab)
    BY <2>1 DEF Booked
  <2>6. DOMAIN pg.tab \cup pg.free = boot.free \cup boot.reclaimed
    BY DEF IInv, FramesOf
  <2> QED BY <2>2, <2>3, <2>4, <2>5, <2>6, OneParent
<1> QED BY <1>1, Invariance, PTL
=============================================================================
