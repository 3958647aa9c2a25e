--------------------------- MODULE KmallocProofs ---------------------------
(***************************************************************************)
(* Proofs about the kernel heap, for every alignment, header and pool size *)
(* and every set of pools that satisfy the assumptions of module Kmalloc.  *)
(***************************************************************************)
EXTENDS Kmalloc, FiniteSetTheorems, TLAPS

\* A leaf is for Zenon unless it names another prover.
USE Zenon

-----------------------------------------------------------------------------
(* Arithmetic.                                                             *)

\* Sums and differences of multiples of the alignment are multiples of it.
LEMMA Multiples ==
  ASSUME NEW x \in Nat, NEW y \in Nat, x % KMALLOC_ALIGN = 0, y % KMALLOC_ALIGN = 0
  PROVE  /\ (x + y) % KMALLOC_ALIGN = 0
         /\ y <= x => (x - y) % KMALLOC_ALIGN = 0
<1>0. KMALLOC_ALIGN \in Nat \ {0}
  BY KmallocAssumption
<1> DEFINE k == x \div KMALLOC_ALIGN
           l == y \div KMALLOC_ALIGN
<1>1. x = k * KMALLOC_ALIGN /\ y = l * KMALLOC_ALIGN /\ k \in Nat /\ l \in Nat
  BY <1>0, SMT
<1> HIDE DEF k, l
<1>2. x + y = (k + l) * KMALLOC_ALIGN /\ x - y = (k - l) * KMALLOC_ALIGN
  BY <1>0, <1>1, SMT
<1>3. \A m \in Int : (m * KMALLOC_ALIGN) % KMALLOC_ALIGN = 0
  BY <1>0, SMT
<1> QED BY <1>1, <1>2, <1>3, SMT

\* A size that is asked for is a positive number.
LEMMA SizeIs ==
  ASSUME NEW n \in Sizes
  PROVE  n \in Nat \ {0}
<1>1. SIZE_WORD \in Nat /\ n \in 1 .. SIZE_WORD - 1
  BY KmallocAssumption
<1> QED BY <1>1, SMT

\* A block of size bytes has the room that a request for n bytes can count on.
Holds(size, n) == Wraps(n) \/ n <= size

\* align_up_sz rounds up to a multiple of the alignment, unless it wraps.
LEMMA AlignUpSz ==
  ASSUME NEW n \in Nat
  PROVE  /\ align_up_sz(n, KMALLOC_ALIGN) \in Nat
         /\ align_up_sz(n, KMALLOC_ALIGN) % KMALLOC_ALIGN = 0
         /\ Holds(align_up_sz(n, KMALLOC_ALIGN), n)
<1>0. KMALLOC_ALIGN \in Nat \ {0} /\ SIZE_WORD \in Nat \ {0}
  BY KmallocAssumption
<1> DEFINE v == n + KMALLOC_ALIGN - 1
           w == v % SIZE_WORD
           q == w \div KMALLOC_ALIGN
<1>1. w \in Nat /\ (~Wraps(n) => w = v)
  <2>1. v \in Nat /\ (~Wraps(n) => v < SIZE_WORD)
    BY <1>0, SMT DEF Wraps
  <2> HIDE DEF v
  <2> QED BY <1>0, <2>1, SMT
<1>2. q \in Nat /\ q * KMALLOC_ALIGN <= w /\ w < q * KMALLOC_ALIGN + KMALLOC_ALIGN
  <2> HIDE DEF w
  <2> QED BY <1>0, <1>1, SMT
<1>3. align_up_sz(n, KMALLOC_ALIGN) = q * KMALLOC_ALIGN
  BY DEF align_up_sz
<1> HIDE DEF q, w
<1>4. \A m \in Nat : (m * KMALLOC_ALIGN) % KMALLOC_ALIGN = 0 /\ m * KMALLOC_ALIGN \in Nat
  BY <1>0, SMT
<1>5. ~Wraps(n) => n <= q * KMALLOC_ALIGN
  BY <1>0, <1>1, <1>2, SMT
<1> QED BY <1>2, <1>3, <1>4, <1>5 DEF Holds

\* Two pools that share an address are the same pool.
LEMMA OnePool ==
  ASSUME NEW b \in PoolBases, NEW c \in PoolBases, NEW x \in Nat,
         b <= x, x < b + KMALLOC_POOL_SIZE, c <= x, x < c + KMALLOC_POOL_SIZE
  PROVE  b = c
<1>1. b \in Nat /\ c \in Nat /\ KMALLOC_POOL_SIZE \in Nat
  BY KmallocAssumption
<1>2. /\ b < c => b + KMALLOC_POOL_SIZE <= c
      /\ c < b => c + KMALLOC_POOL_SIZE <= b
  BY KmallocAssumption
<1> QED BY <1>1, <1>2, SMT

\* Headers are at aligned addresses of pools, which are natural numbers and
\* never NULL.
LEMMA SlotIs ==
  /\ Slots \subseteq Nat
  /\ NULL \notin Slots
  /\ \A a : a \in Slots <=> /\ a % KMALLOC_ALIGN = 0
                            /\ \E b \in PoolBases : a \in b .. b + KMALLOC_POOL_SIZE - 1
  /\ PoolBases \subseteq Slots
<1>1. \A a : a \in Slots <=> /\ a % KMALLOC_ALIGN = 0
                             /\ \E b \in PoolBases : a \in b .. b + KMALLOC_POOL_SIZE - 1
  BY DEF Slots
<1>2. PoolBases \subseteq Nat /\ KMALLOC_POOL_SIZE \in Nat /\ KMALLOC_POOL_SIZE > 0
  BY KmallocAssumption, SMT
<1>3. \A b \in PoolBases : NULL \notin b .. b + KMALLOC_POOL_SIZE - 1
  BY KmallocAssumption
<1>4. \A b \in PoolBases : b % KMALLOC_ALIGN = 0 /\ b \in b .. b + KMALLOC_POOL_SIZE - 1
  BY <1>2, KmallocAssumption, SMT
<1> QED BY <1>1, <1>2, <1>3, <1>4, SMT

-----------------------------------------------------------------------------
(* Sequences without repetition.                                           *)

\* What is left of a sequence after one position is removed.
LEMMA RemoveAtIs ==
  ASSUME NEW S, NEW s \in Seq(S), NEW i \in 1 .. Len(s)
  PROVE  /\ RemoveAt(s, i) \in Seq(S)
         /\ Len(RemoveAt(s, i)) = Len(s) - 1
         /\ \A j \in 1 .. Len(s) - 1 :
              RemoveAt(s, i)[j] = IF j < i THEN s[j] ELSE s[j + 1]
<1> DEFINE l == SubSeq(s, 1, i - 1)
           r == SubSeq(s, i + 1, Len(s))
<1>0. Len(s) \in Nat /\ i \in Nat /\ 1 <= i /\ i <= Len(s)
  BY SMT
<1>1. l \in Seq(S) /\ Len(l) = i - 1 /\ \A j \in 1 .. i - 1 : l[j] = s[j]
  BY <1>0, SMT
<1>2. r \in Seq(S) /\ Len(r) = Len(s) - i /\ \A j \in 1 .. Len(s) - i : r[j] = s[i + j]
  BY <1>0, SMT
<1>3. RemoveAt(s, i) = l \o r
  BY DEF RemoveAt
<1> HIDE DEF l, r
<1>4. l \o r \in Seq(S) /\ Len(l \o r) = Len(s) - 1
  <2>0. l \in Seq(S) /\ r \in Seq(S)
    BY <1>1, <1>2
  <2>1. l \o r \in Seq(S) /\ Len(l \o r) = Len(l) + Len(r)
    BY <2>0, SMT
  <2>2. Len(l) = i - 1 /\ Len(r) = Len(s) - i
    BY <1>1, <1>2
  <2>3. Len(l) + Len(r) = Len(s) - 1
    BY <1>0, <2>2, SMT
  <2> QED BY <2>1, <2>3
<1>5. ASSUME NEW j \in 1 .. Len(s) - 1
      PROVE  (l \o r)[j] = IF j < i THEN s[j] ELSE s[j + 1]
  <2>0. j \in 1 .. Len(l) + Len(r)
    BY <1>0, <1>1, <1>2, SMT
  <2>1. (l \o r)[j] = IF j <= Len(l) THEN l[j] ELSE r[j - Len(l)]
    BY <1>1, <1>2, <2>0, SMT
  <2>2. CASE j < i
    BY <1>0, <1>1, <2>1, <2>2, SMT
  <2>3. CASE i <= j
    <3> DEFINE k == j - Len(l)
    <3>1. k \in 1 .. Len(s) - i /\ i + k = j + 1 /\ ~(j <= Len(l))
      BY <1>0, <1>1, <2>3, SMT
    <3> HIDE DEF k
    <3>2. r[k] = s[i + k]
      BY <1>2, <3>1
    <3> QED BY <1>0, <2>1, <2>3, <3>1, <3>2, SMT DEF k
  <2>4. j < i \/ i <= j
    BY <1>0, SMT
  <2> QED BY <2>2, <2>3, <2>4
<1> QED BY <1>3, <1>4, <1>5

\* Each element of s occurs once in it.
Injective(s) == \A i, j \in 1 .. Len(s) : s[i] = s[j] => i = j

\* A sequence without repetition has as many elements as positions.
LEMMA InjectiveCount ==
  ASSUME NEW S, NEW s \in Seq(S), Injective(s)
  PROVE  Cardinality(ToSet(s)) = Len(s)
<1>1. Len(s) \in Nat /\ DOMAIN s = 1 .. Len(s)
  BY SMT
<1>2. s \in [1 .. Len(s) -> ToSet(s)]
  BY <1>1, SMT DEF ToSet
<1>3. s \in Bijection(1 .. Len(s), ToSet(s))
  <2>1. \A x \in ToSet(s) : \E i \in 1 .. Len(s) : s[i] = x
    BY <1>1 DEF ToSet
  <2> QED BY <1>2, <2>1 DEF Injective, Bijection, Injection, Surjection, IsInjective
<1>4. ExistsBijection(1 .. Len(s), ToSet(s))
  BY <1>3 DEF ExistsBijection
<1>5. IsFiniteSet(1 .. Len(s)) /\ Cardinality(1 .. Len(s)) = Len(s)
  BY <1>1, FS_Interval, SMT
<1> QED BY <1>4, <1>5, FS_Bijection

\* Putting a new element in front.
LEMMA ConsInjective ==
  ASSUME NEW S, NEW s \in Seq(S), NEW x \in S, x \notin ToSet(s), Injective(s)
  PROVE  /\ <<x>> \o s \in Seq(S) /\ Injective(<<x>> \o s)
         /\ \A y : y \in ToSet(<<x>> \o s) <=> y = x \/ y \in ToSet(s)
<1> DEFINE t == <<x>> \o s
<1>1. t \in Seq(S) /\ Len(t) = Len(s) + 1 /\ Len(s) \in Nat
  BY SMT
<1>2. t[1] = x /\ \A i \in 1 .. Len(s) : t[i + 1] = s[i]
  BY SMT
<1> HIDE DEF t
<1>3. \A i \in 1 .. Len(t) : i = 1 \/ (i - 1 \in 1 .. Len(s) /\ t[i] = s[i - 1])
  <2> SUFFICES ASSUME NEW i \in 1 .. Len(t), i # 1
               PROVE  i - 1 \in 1 .. Len(s) /\ t[i] = s[i - 1]
    OBVIOUS
  <2> DEFINE k == i - 1
  <2>1. k \in 1 .. Len(s) /\ k + 1 = i
    BY <1>1, SMT
  <2> HIDE DEF k
  <2>2. t[k + 1] = s[k]
    BY <1>2, <2>1
  <2> QED BY <2>1, <2>2 DEF k
<1>4. \A i \in 1 .. Len(s) : s[i] # x
  BY SMT DEF ToSet
<1>5. Injective(t)
  <2> SUFFICES ASSUME NEW i \in 1 .. Len(t), NEW j \in 1 .. Len(t), t[i] = t[j]
               PROVE  i = j
    BY DEF Injective
  <2>1. CASE i = 1 /\ j = 1
    BY <2>1
  <2>2. CASE i = 1 /\ j # 1
    BY <1>2, <1>3, <1>4, <2>2
  <2>3. CASE i # 1 /\ j = 1
    BY <1>2, <1>3, <1>4, <2>3
  <2>4. CASE i # 1 /\ j # 1
    <3>1. s[i - 1] = s[j - 1] /\ i - 1 \in 1 .. Len(s) /\ j - 1 \in 1 .. Len(s)
      BY <1>3, <2>4
    <3>2. i - 1 = j - 1
      BY <3>1 DEF Injective
    <3> QED BY <1>1, <3>2, SMT
  <2> QED BY <2>1, <2>2, <2>3, <2>4
<1>6. ASSUME NEW y
      PROVE  y \in ToSet(t) <=> y = x \/ y \in ToSet(s)
  <2>1. y \in ToSet(t) <=> \E i \in 1 .. Len(t) : t[i] = y
    BY <1>1, SMT DEF ToSet
  <2>2. y \in ToSet(s) <=> \E i \in 1 .. Len(s) : s[i] = y
    BY SMT DEF ToSet
  <2>3. 1 \in 1 .. Len(t) /\ \A i \in 1 .. Len(s) : i + 1 \in 1 .. Len(t)
    BY <1>1, SMT
  <2>4. ASSUME NEW i \in 1 .. Len(t), t[i] = y
        PROVE  y = x \/ y \in ToSet(s)
    BY <1>2, <1>3, <2>2, <2>4
  <2> QED BY <1>2, <2>1, <2>2, <2>3, <2>4
<1> QED BY <1>1, <1>5, <1>6 DEF t

\* Taking one element out.
LEMMA RemoveInjective ==
  ASSUME NEW S, NEW s \in Seq(S), NEW t \in Seq(S), NEW a, NEW i \in 1 .. Len(s),
         s[i] = a, Injective(s), Len(t) = Len(s) - 1,
         \A j \in 1 .. Len(s) - 1 : t[j] = IF j < i THEN s[j] ELSE s[j + 1]
  PROVE  /\ Injective(t)
         /\ \A y : y \in ToSet(t) <=> y # a /\ y \in ToSet(s)
<1> DEFINE from(j) == IF j < i THEN j ELSE j + 1
<1>1. Len(s) \in Nat /\ i \in Nat /\ 1 <= i /\ i <= Len(s)
  BY SMT
<1>2. \A j \in 1 .. Len(t) :
        from(j) \in 1 .. Len(s) /\ from(j) # i /\ t[j] = s[from(j)]
  BY <1>1, SMT
<1>3. \A j, k \in 1 .. Len(t) : from(j) = from(k) => j = k
  BY <1>1, SMT
<1>4. \A k \in 1 .. Len(s) : k # i => \E j \in 1 .. Len(t) : from(j) = k
  <2> SUFFICES ASSUME NEW k \in 1 .. Len(s), k # i
               PROVE  \E j \in 1 .. Len(t) : from(j) = k
    OBVIOUS
  <2>1. CASE k < i
    <3>1. k \in 1 .. Len(t) /\ from(k) = k
      BY <1>1, <2>1, SMT
    <3> QED BY <3>1
  <2>2. CASE k > i
    <3>1. k - 1 \in 1 .. Len(t) /\ from(k - 1) = k
      BY <1>1, <2>2, SMT
    <3> QED BY <3>1
  <2>3. k < i \/ k > i
    BY <1>1, SMT
  <2> QED BY <2>1, <2>2, <2>3
<1> HIDE DEF from
<1>5. Injective(t)
  BY <1>2, <1>3, SMT DEF Injective
<1>6. ASSUME NEW y
      PROVE  y \in ToSet(t) <=> y # a /\ y \in ToSet(s)
  <2>1. y \in ToSet(t) <=> \E j \in 1 .. Len(t) : t[j] = y
    BY SMT DEF ToSet
  <2>2. y \in ToSet(s) <=> \E j \in 1 .. Len(s) : s[j] = y
    BY SMTT(20) DEF ToSet
  <2>3. ASSUME NEW j \in 1 .. Len(t), t[j] = y
        PROVE  y # a /\ y \in ToSet(s)
    BY <1>2, <2>2, <2>3, SMTT(20) DEF Injective
  <2>4. ASSUME NEW k \in 1 .. Len(s), s[k] = y, y # a
        PROVE  y \in ToSet(t)
    BY <1>2, <1>4, <2>1, <2>4
  <2> QED BY <2>1, <2>2, <2>3, <2>4
<1> QED BY <1>5, <1>6

-----------------------------------------------------------------------------
(* Heaps, and what each function of kmalloc.c does to one.                 *)

BlockHeader == [size : Nat, next_phys : Slots \cup {NULL}, free : BOOLEAN]

HeaderBytes(a) == a .. a + HEADER - 1

PoolSets    == SUBSET PoolBases
BlockTables == UNION {[D -> BlockHeader] : D \in SUBSET Slots}
Magics      == [Slots -> {FREE, USED, Other}]
FreeLists   == Seq(Slots)

HeapType == [init : BOOLEAN, pools : PoolSets, block : BlockTables, magic : Magics,
             list : FreeLists]

\* The fields of a heap.
LEMMA HeapFields ==
  ASSUME NEW h \in HeapType
  PROVE  /\ h.init \in BOOLEAN /\ h.pools \subseteq PoolBases
         /\ DOMAIN h.block \subseteq Slots /\ h.block \in [DOMAIN h.block -> BlockHeader]
         /\ h.magic \in [Slots -> {FREE, USED, Other}]
         /\ h.list \in Seq(Slots)
         /\ \A a \in DOMAIN h.block :
              /\ h.block[a] \in BlockHeader
              /\ h.block[a].size \in Nat
              /\ h.block[a].next_phys \in Slots \cup {NULL}
              /\ h.block[a].free \in BOOLEAN
<1>1. /\ h.init \in BOOLEAN /\ h.pools \in PoolSets /\ h.block \in BlockTables
      /\ h.magic \in Magics /\ h.list \in FreeLists
  BY DEF HeapType
<1>2. DOMAIN h.block \subseteq Slots /\ h.block \in [DOMAIN h.block -> BlockHeader]
  BY <1>1 DEF BlockTables
<1>3. ASSUME NEW a \in DOMAIN h.block
      PROVE  /\ h.block[a] \in BlockHeader
             /\ h.block[a].size \in Nat
             /\ h.block[a].next_phys \in Slots \cup {NULL}
             /\ h.block[a].free \in BOOLEAN
  <2>1. h.block[a] \in BlockHeader
    BY <1>2
  <2> QED BY <2>1 DEF BlockHeader
<1> QED BY <1>1, <1>2, <1>3 DEF PoolSets, Magics, FreeLists

\* free_list_insert.
LEMMA InsertIs ==
  ASSUME NEW h \in HeapType, NEW a \in DOMAIN h.block
  PROVE  /\ FreeListInsert(h, a) \in HeapType
         /\ FreeListInsert(h, a).init = h.init /\ FreeListInsert(h, a).pools = h.pools
         /\ DOMAIN FreeListInsert(h, a).block = DOMAIN h.block
         /\ \A x \in DOMAIN h.block :
              /\ FreeListInsert(h, a).block[x].size = h.block[x].size
              /\ FreeListInsert(h, a).block[x].next_phys = h.block[x].next_phys
              /\ FreeListInsert(h, a).block[x].free <=> x = a \/ h.block[x].free
         /\ \A x \in Slots :
              FreeListInsert(h, a).magic[x] = IF x = a THEN FREE ELSE h.magic[x]
         /\ FreeListInsert(h, a).list = <<a>> \o h.list
<1> DEFINE B == [h.block EXCEPT ![a] = [h.block[a] EXCEPT !.free = TRUE]]
           M == [h.magic EXCEPT ![a] = FREE]
           L == <<a>> \o h.list
<1>1. /\ FreeListInsert(h, a).init = h.init
      /\ FreeListInsert(h, a).pools = h.pools
      /\ FreeListInsert(h, a).block = B
      /\ FreeListInsert(h, a).magic = M
      /\ FreeListInsert(h, a).list = L
      /\ B \in BlockTables /\ M \in Magics /\ L \in FreeLists
           => FreeListInsert(h, a) \in HeapType
  BY DEF FreeListInsert, HeapType
<1> USE HeapFields
<1>2. B \in [DOMAIN h.block -> BlockHeader]
  <2>1. [h.block[a] EXCEPT !.free = TRUE] \in BlockHeader
    BY DEF BlockHeader
  <2> QED BY <2>1
<1>3. M \in [Slots -> {FREE, USED, Other}] /\ L \in Seq(Slots)
  BY SMT
<1>4. \A x \in DOMAIN h.block :
        /\ B[x].size = h.block[x].size
        /\ B[x].next_phys = h.block[x].next_phys
        /\ B[x].free <=> x = a \/ h.block[x].free
  BY DEF BlockHeader
<1>5. \A x \in Slots : M[x] = IF x = a THEN FREE ELSE h.magic[x]
  OBVIOUS
<1>6. DOMAIN B = DOMAIN h.block
  OBVIOUS
<1> HIDE DEF B, M, L
<1>7. FreeListInsert(h, a) \in HeapType
  BY <1>1, <1>2, <1>3 DEF BlockTables, Magics, FreeLists
<1> QED BY <1>1, <1>4, <1>5, <1>6, <1>7 DEF L

\* List m is list l without one place that holds a.
Dropped(m, l, a) ==
  \E i \in 1 .. Len(l) :
    /\ l[i] = a
    /\ Len(m) = Len(l) - 1
    /\ \A j \in 1 .. Len(l) - 1 : m[j] = IF j < i THEN l[j] ELSE l[j + 1]

\* free_list_remove of a block that is in the list.
LEMMA RemoveIs ==
  ASSUME NEW h \in HeapType, NEW a, \E i \in 1 .. Len(h.list) : h.list[i] = a
  PROVE  /\ FreeListRemove(h, a) \in HeapType
         /\ FreeListRemove(h, a).init = h.init /\ FreeListRemove(h, a).pools = h.pools
         /\ FreeListRemove(h, a).block = h.block /\ FreeListRemove(h, a).magic = h.magic
         /\ Dropped(FreeListRemove(h, a).list, h.list, a)
<1> DEFINE i == CHOOSE i \in 1 .. Len(h.list) : h.list[i] = a
           L == RemoveAt(h.list, i)
<1>1. i \in 1 .. Len(h.list) /\ h.list[i] = a
  OBVIOUS
<1>2. /\ FreeListRemove(h, a).init = h.init
      /\ FreeListRemove(h, a).pools = h.pools
      /\ FreeListRemove(h, a).block = h.block
      /\ FreeListRemove(h, a).magic = h.magic
      /\ FreeListRemove(h, a).list = L
      /\ L \in FreeLists => FreeListRemove(h, a) \in HeapType
  BY DEF FreeListRemove, HeapType
<1> HIDE DEF i
<1>3. h.list \in Seq(Slots)
  BY HeapFields
<1>4. /\ L \in Seq(Slots) /\ Len(L) = Len(h.list) - 1
      /\ \A j \in 1 .. Len(h.list) - 1 : L[j] = IF j < i THEN h.list[j] ELSE h.list[j + 1]
  BY <1>1, <1>3, RemoveAtIs
<1> HIDE DEF L
<1>5. FreeListRemove(h, a) \in HeapType
  BY <1>2, <1>4 DEF FreeLists
<1>6. Dropped(L, h.list, a)
  BY <1>1, <1>4 DEF Dropped
<1> QED BY <1>2, <1>5, <1>6

\* The magic numbers after the bytes of a header are written at a.
Wiped(h, e, a) ==
  \A x \in Slots : e.magic[x] = IF x \in HeaderBytes(a) THEN Other ELSE h.magic[x]

\* The magic numbers after a free header is written at s.
FreshMagic(h, e, s) ==
  \A x \in Slots :
    e.magic[x] = IF x = s THEN FREE
                 ELSE IF x \in HeaderBytes(s) THEN Other ELSE h.magic[x]

\* A header written at a slot.
LEMMA WriteIs ==
  ASSUME NEW h \in HeapType, NEW a \in Slots, NEW size \in Nat,
         NEW next \in Slots \cup {NULL}
  PROVE  /\ WriteHeader(h, a, size, next) \in HeapType
         /\ WriteHeader(h, a, size, next).init = h.init
         /\ WriteHeader(h, a, size, next).pools = h.pools
         /\ WriteHeader(h, a, size, next).list = h.list
         /\ DOMAIN WriteHeader(h, a, size, next).block = DOMAIN h.block \cup {a}
         /\ \A x \in DOMAIN h.block \ {a} :
              WriteHeader(h, a, size, next).block[x] = h.block[x]
         /\ WriteHeader(h, a, size, next).block[a].size = size
         /\ WriteHeader(h, a, size, next).block[a].next_phys = next
         /\ WriteHeader(h, a, size, next).block[a].free
         /\ Wiped(h, WriteHeader(h, a, size, next), a)
<1> DEFINE D == DOMAIN h.block \cup {a}
           B == [x \in D |->
                   IF x = a THEN [size |-> size, next_phys |-> next, free |-> TRUE]
                            ELSE h.block[x]]
           M == [x \in Slots |-> IF x \in HeaderBytes(a) THEN Other ELSE h.magic[x]]
<1>1. /\ WriteHeader(h, a, size, next).init = h.init
      /\ WriteHeader(h, a, size, next).pools = h.pools
      /\ WriteHeader(h, a, size, next).block = B
      /\ WriteHeader(h, a, size, next).magic = M
      /\ WriteHeader(h, a, size, next).list = h.list
      /\ B \in BlockTables /\ M \in Magics
           => WriteHeader(h, a, size, next) \in HeapType
  BY DEF WriteHeader, HeapType, HeaderBytes
<1> USE HeapFields
<1>2. B \in [D -> BlockHeader] /\ D \in SUBSET Slots
  <2>1. [size |-> size, next_phys |-> next, free |-> TRUE] \in BlockHeader
    BY DEF BlockHeader
  <2> QED BY <2>1
<1>3. M \in [Slots -> {FREE, USED, Other}]
  OBVIOUS
<1>4. /\ DOMAIN B = D
      /\ \A x \in DOMAIN h.block \ {a} : B[x] = h.block[x]
      /\ B[a] = [size |-> size, next_phys |-> next, free |-> TRUE]
  OBVIOUS
<1>5. \A x \in Slots : M[x] = IF x \in HeaderBytes(a) THEN Other ELSE h.magic[x]
  OBVIOUS
<1> HIDE DEF B, M
<1>6. WriteHeader(h, a, size, next) \in HeapType
  <2> HIDE DEF D
  <2>1. B \in BlockTables
    BY <1>2 DEF BlockTables
  <2> QED BY <1>1, <1>3, <2>1 DEF Magics
<1>7. Wiped(h, WriteHeader(h, a, size, next), a)
  BY <1>1, <1>5 DEF Wiped
<1> QED BY <1>1, <1>4, <1>6, <1>7, SMT

\* expand_pool.
LEMMA ExpandIs ==
  ASSUME NEW h \in HeapType, NEW b \in PoolBases
  PROVE  /\ ExpandPool(h, b) \in HeapType
         /\ ExpandPool(h, b).init = h.init
         /\ ExpandPool(h, b).pools = h.pools \cup {b}
         /\ DOMAIN ExpandPool(h, b).block = DOMAIN h.block \cup {b}
         /\ \A x \in DOMAIN h.block \ {b} :
              /\ ExpandPool(h, b).block[x].size = h.block[x].size
              /\ ExpandPool(h, b).block[x].next_phys = h.block[x].next_phys
              /\ ExpandPool(h, b).block[x].free <=> h.block[x].free
         /\ ExpandPool(h, b).block[b].size = KMALLOC_POOL_SIZE - HEADER
         /\ ExpandPool(h, b).block[b].next_phys = NULL
         /\ ExpandPool(h, b).block[b].free
         /\ FreshMagic(h, ExpandPool(h, b), b)
         /\ ExpandPool(h, b).list = <<b>> \o h.list
<1> DEFINE n == KMALLOC_POOL_SIZE - HEADER
           w == WriteHeader(h, b, n, NULL)
           g == [w EXCEPT !.pools = @ \cup {b}]
<1>1. n \in Nat /\ b \in Slots /\ NULL \in Slots \cup {NULL}
  BY KmallocAssumption, SlotIs, SMT
<1> HIDE DEF n
<1>2. /\ w \in HeapType /\ w.init = h.init /\ w.pools = h.pools /\ w.list = h.list
      /\ DOMAIN w.block = DOMAIN h.block \cup {b}
      /\ \A x \in DOMAIN h.block \ {b} : w.block[x] = h.block[x]
      /\ w.block[b].size = n /\ w.block[b].next_phys = NULL /\ w.block[b].free
      /\ Wiped(h, w, b)
  BY <1>1, WriteIs, SMT
<1> HIDE DEF w
<1>3. /\ g.init = w.init /\ g.pools = w.pools \cup {b} /\ g.list = w.list
      /\ g.block = w.block /\ g.magic = w.magic
      /\ w.pools \cup {b} \in PoolSets => g \in HeapType
  BY <1>2 DEF HeapType
<1>4. w.pools \cup {b} \in PoolSets
  BY <1>2, HeapFields DEF PoolSets
<1> HIDE DEF g
<1>5. g \in HeapType /\ b \in DOMAIN g.block
  BY <1>2, <1>3, <1>4
<1>6. ExpandPool(h, b) = FreeListInsert(g, b)
  BY DEF ExpandPool, g, w, n
<1> DEFINE e == FreeListInsert(g, b)
<1>7. /\ e \in HeapType /\ e.init = g.init /\ e.pools = g.pools
      /\ DOMAIN e.block = DOMAIN g.block
      /\ \A x \in DOMAIN g.block :
           /\ e.block[x].size = g.block[x].size
           /\ e.block[x].next_phys = g.block[x].next_phys
           /\ e.block[x].free <=> x = b \/ g.block[x].free
      /\ \A x \in Slots : e.magic[x] = IF x = b THEN FREE ELSE g.magic[x]
      /\ e.list = <<b>> \o g.list
  BY <1>5, InsertIs, SMT
<1>8. ExpandPool(h, b) = e
  BY <1>6
<1> HIDE DEF e
<1>9. \A x \in DOMAIN h.block \ {b} :
        /\ e.block[x].size = h.block[x].size
        /\ e.block[x].next_phys = h.block[x].next_phys
        /\ e.block[x].free <=> h.block[x].free
  BY <1>2, <1>3, <1>7, SMT
<1>10. FreshMagic(h, e, b)
  BY <1>2, <1>3, <1>7, SMT DEF Wiped, FreshMagic
<1>11. /\ e.block[b].size = n /\ e.block[b].next_phys = NULL /\ e.block[b].free
       /\ DOMAIN e.block = DOMAIN h.block \cup {b}
       /\ e.list = <<b>> \o h.list /\ e.pools = h.pools \cup {b} /\ e.init = h.init
  BY <1>2, <1>3, <1>5, <1>7, SMTT(20)
<1> QED BY <1>7, <1>8, <1>9, <1>10, <1>11, SMT DEF n

\* The split of a block in kmalloc.
LEMMA SplitIs ==
  ASSUME NEW h \in HeapType, NEW b \in DOMAIN h.block, NEW size \in Nat,
         NEW s \in Slots, s \notin DOMAIN h.block, NEW n \in Nat
  PROVE  s = b + HEADER + size /\ n = h.block[b].size - size - HEADER =>
           /\ Split(h, b, size) \in HeapType
           /\ Split(h, b, size).init = h.init
           /\ Split(h, b, size).pools = h.pools
           /\ DOMAIN Split(h, b, size).block = DOMAIN h.block \cup {s}
           /\ \A x \in DOMAIN h.block :
                /\ Split(h, b, size).block[x].size = IF x = b THEN size ELSE h.block[x].size
                /\ Split(h, b, size).block[x].next_phys
                     = IF x = b THEN s ELSE h.block[x].next_phys
                /\ Split(h, b, size).block[x].free <=> h.block[x].free
           /\ Split(h, b, size).block[s].size = n
           /\ Split(h, b, size).block[s].next_phys = h.block[b].next_phys
           /\ Split(h, b, size).block[s].free
           /\ FreshMagic(h, Split(h, b, size), s)
           /\ Split(h, b, size).list = <<s>> \o h.list
<1> DEFINE m == h.block[b].next_phys
           w == WriteHeader(h, s, n, m)
           g == [w EXCEPT !.block[b].size = size, !.block[b].next_phys = s]
           B == [w.block EXCEPT ![b] = [w.block[b] EXCEPT !.size = size, !.next_phys = s]]
<1>1. m \in Slots \cup {NULL} /\ b # s
  BY HeapFields
<1> HIDE DEF m
<1>2. /\ w \in HeapType /\ w.init = h.init /\ w.pools = h.pools /\ w.list = h.list
      /\ DOMAIN w.block = DOMAIN h.block \cup {s}
      /\ \A x \in DOMAIN h.block \ {s} : w.block[x] = h.block[x]
      /\ w.block[s].size = n /\ w.block[s].next_phys = m /\ w.block[s].free
      /\ Wiped(h, w, s)
  BY <1>1, WriteIs, SMT
<1> HIDE DEF w
<1>3. /\ g.init = w.init /\ g.pools = w.pools /\ g.list = w.list /\ g.magic = w.magic
      /\ B \in BlockTables => g \in HeapType
  BY <1>2 DEF HeapType
<1>4. g.block = B
  BY <1>2, HeapFields DEF HeapType, BlockHeader
<1> HIDE DEF g
<1>5. /\ B \in [DOMAIN w.block -> BlockHeader] /\ DOMAIN B = DOMAIN w.block
      /\ \A x \in DOMAIN w.block \ {b} : B[x] = w.block[x]
      /\ B[b].size = size /\ B[b].next_phys = s /\ (B[b].free <=> w.block[b].free)
  <2>1. w.block[b] \in BlockHeader /\ w.block \in [DOMAIN w.block -> BlockHeader]
    BY <1>2, HeapFields
  <2> DEFINE new == [w.block[b] EXCEPT !.size = size, !.next_phys = s]
  <2>2. /\ new \in BlockHeader /\ new.size = size /\ new.next_phys = s
        /\ new.free <=> w.block[b].free
    BY <2>1 DEF BlockHeader
  <2> HIDE DEF new
  <2>3. B = [w.block EXCEPT ![b] = new]
    BY DEF new
  <2> QED BY <1>2, <2>1, <2>2, <2>3, SMT
<1> HIDE DEF B
<1>6. B \in BlockTables
  <2>1. DOMAIN w.block \in SUBSET Slots
    BY <1>2, HeapFields
  <2> QED BY <1>5, <2>1 DEF BlockTables
<1>7. g \in HeapType /\ s \in DOMAIN g.block
  BY <1>2, <1>3, <1>4, <1>5, <1>6, SMTT(20)
<1> DEFINE e == FreeListInsert(g, s)
<1>8. /\ e \in HeapType /\ e.init = g.init /\ e.pools = g.pools
      /\ DOMAIN e.block = DOMAIN g.block
      /\ \A x \in DOMAIN g.block :
           /\ e.block[x].size = g.block[x].size
           /\ e.block[x].next_phys = g.block[x].next_phys
           /\ e.block[x].free <=> x = s \/ g.block[x].free
      /\ \A x \in Slots : e.magic[x] = IF x = s THEN FREE ELSE g.magic[x]
      /\ e.list = <<s>> \o g.list
  BY <1>7, InsertIs, SMT
<1>9. s = b + HEADER + size /\ n = h.block[b].size - size - HEADER
        => Split(h, b, size) = e
  BY DEF Split, g, w, m
<1> HIDE DEF e
<1>10. ASSUME NEW x \in DOMAIN h.block
       PROVE  /\ e.block[x].size = IF x = b THEN size ELSE h.block[x].size
              /\ e.block[x].next_phys = IF x = b THEN s ELSE h.block[x].next_phys
              /\ e.block[x].free <=> h.block[x].free
  <2>1. x \in DOMAIN g.block /\ x # s /\ w.block[x] = h.block[x]
    BY <1>2, <1>4, <1>5
  <2>2. CASE x = b
    BY <1>4, <1>5, <1>8, <2>1, <2>2, SMTT(20)
  <2>3. CASE x # b
    BY <1>2, <1>4, <1>5, <1>8, <2>1, <2>3, SMTT(20)
  <2> QED BY <2>2, <2>3
<1>11. FreshMagic(h, e, s)
  BY <1>2, <1>3, <1>8, SMT DEF Wiped, FreshMagic
<1>12. /\ e.block[s].size = n /\ e.block[s].next_phys = m /\ e.block[s].free
       /\ DOMAIN e.block = DOMAIN h.block \cup {s}
       /\ e.list = <<s>> \o h.list /\ e.pools = h.pools /\ e.init = h.init
  BY <1>1, <1>2, <1>3, <1>4, <1>5, <1>7, <1>8, SMTT(20)
<1> QED BY <1>8, <1>9, <1>10, <1>11, <1>12, SMT DEF m

MarkUsed(h, b) == [h EXCEPT !.block[b].free = FALSE, !.magic[b] = USED]

\* The end of kmalloc: the block is marked used.
LEMMA UseIs ==
  ASSUME NEW h \in HeapType, NEW b \in DOMAIN h.block, NEW g, g = MarkUsed(h, b)
  PROVE  /\ g \in HeapType /\ g.init = h.init /\ g.pools = h.pools /\ g.list = h.list
         /\ DOMAIN g.block = DOMAIN h.block
         /\ \A x \in DOMAIN h.block :
              /\ g.block[x].size = h.block[x].size
              /\ g.block[x].next_phys = h.block[x].next_phys
              /\ g.block[x].free <=> x # b /\ h.block[x].free
         /\ \A x \in Slots : g.magic[x] = IF x = b THEN USED ELSE h.magic[x]
<1> DEFINE B == [h.block EXCEPT ![b] = [h.block[b] EXCEPT !.free = FALSE]]
           M == [h.magic EXCEPT ![b] = USED]
<1>1. /\ g.init = h.init /\ g.pools = h.pools /\ g.list = h.list
      /\ g.block = B /\ g.magic = M
      /\ B \in BlockTables /\ M \in Magics => g \in HeapType
  BY DEF HeapType, MarkUsed
<1> USE HeapFields
<1>2. B \in [DOMAIN h.block -> BlockHeader]
  <2>1. [h.block[b] EXCEPT !.free = FALSE] \in BlockHeader
    BY DEF BlockHeader
  <2> QED BY <2>1
<1>3. M \in [Slots -> {FREE, USED, Other}]
  OBVIOUS
<1>4. \A x \in DOMAIN h.block :
        /\ B[x].size = h.block[x].size
        /\ B[x].next_phys = h.block[x].next_phys
        /\ B[x].free <=> x # b /\ h.block[x].free
  BY SMT DEF BlockHeader
<1>5. /\ \A x \in Slots : M[x] = IF x = b THEN USED ELSE h.magic[x]
      /\ DOMAIN B = DOMAIN h.block
  OBVIOUS
<1> HIDE DEF B, M
<1>6. g \in HeapType
  BY <1>1, <1>2, <1>3, SMT DEF BlockTables, Magics
<1> QED BY <1>1, <1>4, <1>5, <1>6

-----------------------------------------------------------------------------
(* The inductive invariant, as a predicate on a heap.                      *)

\* Where the block at a ends.
Stop(h, a) == a + HEADER + h.block[a].size

\* Block a is one of pool b, and next_phys is NULL exactly at the pool's end:
\* unlike Tiling, this forbids a link into an adjacent pool, and so a merge
\* across pools.
Fitted(h, a, b) ==
  /\ b <= a /\ Stop(h, a) <= b + KMALLOC_POOL_SIZE
  /\ h.block[a].next_phys
       = IF Stop(h, a) = b + KMALLOC_POOL_SIZE THEN NULL ELSE Stop(h, a)

Tiled(h) ==
  /\ h.pools \subseteq DOMAIN h.block
  /\ \A a \in DOMAIN h.block :
       /\ h.block[a].size % KMALLOC_ALIGN = 0
       /\ h.block[a].next_phys \in DOMAIN h.block \cup {NULL}
       /\ \E b \in h.pools : Fitted(h, a, b)
  /\ \A a, c \in DOMAIN h.block : a < c => Stop(h, a) <= c

Listed(h) ==
  /\ Injective(h.list)
  /\ ToSet(h.list) = {a \in DOMAIN h.block : h.block[a].free}

Marked(h) ==
  \A a \in DOMAIN h.block : h.magic[a] = IF h.block[a].free THEN FREE ELSE USED

\* The blocks in use are those callers have pointers to, and large enough.
Lent(h, own) ==
  /\ \A a \in DOMAIN h.block : h.block[a].free <=> a + HEADER \notin DOMAIN own
  /\ \A p \in DOMAIN own :
       \E a \in DOMAIN h.block :
         p = a + HEADER /\ own[p] \in Sizes /\ Holds(h.block[a].size, own[p])

Sound(h) == Tiled(h) /\ Listed(h) /\ Marked(h)

IInv ==
  /\ Heap \in HeapType /\ Sound(Heap) /\ Lent(Heap, owned)
  /\ merging = NULL \/ (merging \in DOMAIN block /\ block[merging].free)
  /\ \A p \in stale : \E a \in Slots : p = a + HEADER /\ magic[a] # USED

\* The numbers of a heap: addresses and sizes.
LEMMA HeapNumbers ==
  ASSUME NEW h \in HeapType, NEW a \in DOMAIN h.block
  PROVE  /\ a \in Nat /\ a \in Slots /\ a % KMALLOC_ALIGN = 0
         /\ h.block[a].size \in Nat /\ Stop(h, a) \in Nat
         /\ a + HEADER <= Stop(h, a) /\ a < Stop(h, a)
<1>1. a \in Slots /\ h.block[a].size \in Nat
  BY HeapFields
<1>2. a \in Nat /\ a % KMALLOC_ALIGN = 0
  BY <1>1, SlotIs
<1>3. HEADER \in Nat \ {0}
  BY KmallocAssumption
<1> QED BY <1>1, <1>2, <1>3, SMT DEF Stop

\* A pool is a natural number, with room for a header.
LEMMA PoolNumbers ==
  /\ PoolBases \subseteq Nat
  /\ HEADER \in Nat \ {0} /\ KMALLOC_ALIGN \in Nat \ {0} /\ KMALLOC_POOL_SIZE \in Nat
  /\ HEADER < KMALLOC_POOL_SIZE
  /\ HEADER % KMALLOC_ALIGN = 0 /\ KMALLOC_POOL_SIZE % KMALLOC_ALIGN = 0
  /\ (KMALLOC_POOL_SIZE - HEADER) % KMALLOC_ALIGN = 0
  /\ \A b, c \in PoolBases : b < c => b + KMALLOC_POOL_SIZE <= c
<1>1. /\ PoolBases \subseteq Nat
      /\ HEADER \in Nat \ {0} /\ KMALLOC_ALIGN \in Nat \ {0} /\ KMALLOC_POOL_SIZE \in Nat
      /\ HEADER < KMALLOC_POOL_SIZE
      /\ HEADER % KMALLOC_ALIGN = 0 /\ KMALLOC_POOL_SIZE % KMALLOC_ALIGN = 0
      /\ \A b, c \in PoolBases : b < c => b + KMALLOC_POOL_SIZE <= c
  BY KmallocAssumption
<1>2. HEADER <= KMALLOC_POOL_SIZE /\ HEADER \in Nat
  BY <1>1, SMT
<1>3. (KMALLOC_POOL_SIZE - HEADER) % KMALLOC_ALIGN = 0
  BY <1>1, <1>2, Multiples
<1> QED BY <1>1, <1>3

\* A step of the allocator gives no header the mark USED.
NoNewUsed(h, e) == \A x \in Slots : e.magic[x] = USED => h.magic[x] = USED

\* A new pool keeps the heap sound.
LEMMA ExpandSound ==
  ASSUME NEW h \in HeapType, Sound(h), NEW own, Lent(h, own),
         NEW b \in PoolBases, b \notin h.pools
  PROVE  /\ ExpandPool(h, b) \in HeapType /\ Sound(ExpandPool(h, b))
         /\ Lent(ExpandPool(h, b), own) /\ NoNewUsed(h, ExpandPool(h, b))
<1> DEFINE e == ExpandPool(h, b)
           D == DOMAIN h.block
<1>1. /\ e \in HeapType /\ e.pools = h.pools \cup {b} /\ DOMAIN e.block = D \cup {b}
      /\ \A x \in D \ {b} :
           /\ e.block[x].size = h.block[x].size
           /\ e.block[x].next_phys = h.block[x].next_phys
           /\ e.block[x].free <=> h.block[x].free
      /\ e.block[b].size = KMALLOC_POOL_SIZE - HEADER
      /\ e.block[b].next_phys = NULL /\ e.block[b].free
      /\ e.list = <<b>> \o h.list
  BY ExpandIs
<1>m. \A x \in Slots :
        e.magic[x] = IF x = b THEN FREE
                     ELSE IF x \in HeaderBytes(b) THEN Other ELSE h.magic[x]
  <2>1. FreshMagic(h, e, b)
    BY ExpandIs
  <2> QED BY <2>1 DEF FreshMagic
<1> HIDE DEF e
<1>2. b \in Nat /\ b \in Slots
  BY PoolNumbers, SlotIs
<1>3. ASSUME NEW a \in D
      PROVE  Stop(h, a) <= b \/ b + KMALLOC_POOL_SIZE <= a
  <2>1. PICK c \in h.pools : c <= a /\ Stop(h, a) <= c + KMALLOC_POOL_SIZE
    BY DEF Sound, Tiled, Fitted
  <2>2. c \in PoolBases /\ c # b
    BY HeapFields
  <2>3. c \in Nat /\ (c < b => c + KMALLOC_POOL_SIZE <= b)
                  /\ (b < c => b + KMALLOC_POOL_SIZE <= c)
    BY <2>2, PoolNumbers
  <2>4. a \in Nat /\ Stop(h, a) \in Nat
    BY HeapNumbers
  <2> QED BY <1>2, <2>1, <2>2, <2>3, <2>4, PoolNumbers, SMTT(20)
<1>4. b \notin D
  <2> SUFFICES ASSUME b \in D PROVE FALSE
    OBVIOUS
  <2> QED BY <1>2, <1>3, HeapNumbers, PoolNumbers, SMT
<1>5. /\ \A a \in D : Stop(e, a) = Stop(h, a)
      /\ Stop(e, b) = b + KMALLOC_POOL_SIZE
  BY <1>1, <1>2, <1>4, PoolNumbers, SMTT(20) DEF Stop
<1>6. Tiled(e)
  <2>1. e.pools \subseteq DOMAIN e.block
    BY <1>1 DEF Sound, Tiled
  <2>2. ASSUME NEW a \in D
        PROVE  /\ e.block[a].size % KMALLOC_ALIGN = 0
               /\ e.block[a].next_phys \in DOMAIN e.block \cup {NULL}
               /\ \E c \in e.pools : Fitted(e, a, c)
    <3>1. PICK c \in h.pools : Fitted(h, a, c)
      BY DEF Sound, Tiled
    <3>2. Fitted(e, a, c)
      BY <1>1, <1>4, <1>5, <3>1, SMTT(20) DEF Fitted
    <3> QED BY <1>1, <1>4, <3>2 DEF Sound, Tiled
  <2>3. /\ e.block[b].size % KMALLOC_ALIGN = 0
        /\ e.block[b].next_phys \in DOMAIN e.block \cup {NULL}
        /\ \E c \in e.pools : Fitted(e, b, c)
    <3>1. Fitted(e, b, b)
      BY <1>1, <1>2, <1>5, PoolNumbers, SMT DEF Fitted
    <3> QED BY <1>1, <3>1, PoolNumbers, SMT
  <2>4. ASSUME NEW a \in D \cup {b}, NEW c \in D \cup {b}, a < c
        PROVE  Stop(e, a) <= c
    <3>1. CASE a \in D /\ c \in D
      BY <1>5, <2>4, <3>1 DEF Sound, Tiled
    <3>2. CASE a \in D /\ c = b
      BY <1>2, <1>3, <1>5, <2>4, <3>2, HeapNumbers, PoolNumbers, SMTT(20)
    <3>3. CASE a = b /\ c \in D
      BY <1>2, <1>3, <1>5, <2>4, <3>3, HeapNumbers, PoolNumbers, SMTT(20)
    <3>4. ~(a = b /\ c = b)
      BY <1>2, <2>4, SMT
    <3> QED BY <3>1, <3>2, <3>3, <3>4
  <2> QED BY <1>1, <2>1, <2>2, <2>3, <2>4, SMTT(20) DEF Tiled
<1>7. Listed(e)
  <2>1. h.list \in Seq(Slots)
    BY HeapFields
  <2>2. b \notin ToSet(h.list) /\ Injective(h.list)
    BY <1>4 DEF Sound, Listed
  <2>3. /\ Injective(e.list)
        /\ \A y : y \in ToSet(e.list) <=> y = b \/ y \in ToSet(h.list)
    BY <1>1, <1>2, <2>1, <2>2, ConsInjective, SMTT(20)
  <2>4. \A y : y \in ToSet(h.list) <=> y \in D /\ h.block[y].free
    BY DEF Sound, Listed
  <2>5. \A y : y \in ToSet(e.list) <=> y \in DOMAIN e.block /\ e.block[y].free
    BY <1>1, <1>4, <2>3, <2>4, SMT
  <2> QED BY <2>3, <2>5 DEF Listed
<1>8. Marked(e)
  <2>1. ASSUME NEW a \in D
        PROVE  e.magic[a] = h.magic[a] /\ (e.block[a].free <=> h.block[a].free)
    <3>1. a \notin HeaderBytes(b) /\ a # b /\ a \in Slots
      BY <1>2, <1>3, <1>4, HeapNumbers, PoolNumbers, SMTT(20) DEF HeaderBytes
    <3> QED BY <1>1, <1>m, <3>1
  <2>2. e.magic[b] = FREE
    BY <1>2, <1>m
  <2> QED BY <1>1, <2>1, <2>2 DEF Sound, Marked
<1>9. Lent(e, own)
  <2>1. b + HEADER \notin DOMAIN own
    <3> SUFFICES ASSUME b + HEADER \in DOMAIN own PROVE FALSE
      OBVIOUS
    <3>1. PICK a \in D : b + HEADER = a + HEADER
      BY DEF Lent
    <3>2. a = b
      BY <1>2, <3>1, HeapNumbers, PoolNumbers, SMT
    <3> QED BY <1>4, <3>2
  <2>2. ASSUME NEW q \in DOMAIN own
        PROVE  \E a \in DOMAIN e.block :
                 q = a + HEADER /\ own[q] \in Sizes /\ Holds(e.block[a].size, own[q])
    <3>1. PICK a \in D : q = a + HEADER /\ own[q] \in Sizes /\ Holds(h.block[a].size, own[q])
      BY DEF Lent
    <3>2. a \in DOMAIN e.block /\ e.block[a].size = h.block[a].size
      BY <1>1, <1>4
    <3> QED BY <3>1, <3>2
  <2>3. \A a \in DOMAIN e.block : e.block[a].free <=> a + HEADER \notin DOMAIN own
    BY <1>1, <1>4, <2>1 DEF Lent
  <2> QED BY <2>2, <2>3 DEF Lent
<1>10. NoNewUsed(h, e)
  BY <1>m DEF NoNewUsed, FREE, USED, Other
<1> QED BY <1>1, <1>6, <1>7, <1>8, <1>9, <1>10, SMTT(20) DEF Sound, e

\* A split keeps the heap sound, and leaves block b free, with size bytes.
LEMMA SplitSound ==
  ASSUME NEW h \in HeapType, Sound(h), NEW own, Lent(h, own),
         NEW b \in DOMAIN h.block, h.block[b].free,
         NEW size \in Nat, size % KMALLOC_ALIGN = 0, Splits(h, b, size)
  PROVE  /\ Split(h, b, size) \in HeapType /\ Sound(Split(h, b, size))
         /\ Lent(Split(h, b, size), own) /\ NoNewUsed(h, Split(h, b, size))
         /\ b \in DOMAIN Split(h, b, size).block
         /\ Split(h, b, size).block[b].free /\ Split(h, b, size).block[b].size = size
<1> DEFINE e == Split(h, b, size)
           D == DOMAIN h.block
           s == b + HEADER + size
           n == h.block[b].size - size - HEADER
<1>1. /\ b \in Nat /\ b % KMALLOC_ALIGN = 0 /\ h.block[b].size \in Nat
      /\ h.block[b].size % KMALLOC_ALIGN = 0
  BY HeapNumbers DEF Sound, Tiled
<1>2. h.block[b].size - size >= HEADER + KMALLOC_ALIGN
  BY DEF Splits, KMALLOC_MIN_SPLIT
<1>3. /\ s \in Nat /\ n \in Nat /\ b < s /\ s + HEADER + n = Stop(h, b)
      /\ s + HEADER <= Stop(h, b) /\ s < Stop(h, b)
  BY <1>1, <1>2, PoolNumbers, SMT DEF Stop
<1>4. s % KMALLOC_ALIGN = 0 /\ n % KMALLOC_ALIGN = 0
  <2>1. b + HEADER \in Nat /\ h.block[b].size - size \in Nat
        /\ size <= h.block[b].size /\ HEADER <= h.block[b].size - size /\ HEADER \in Nat
    BY <1>1, <1>2, PoolNumbers, SMT
  <2>2. (b + HEADER) % KMALLOC_ALIGN = 0
    BY <1>1, <2>1, Multiples, PoolNumbers
  <2>3. (h.block[b].size - size) % KMALLOC_ALIGN = 0
    BY <1>1, <2>1, Multiples
  <2>4. s % KMALLOC_ALIGN = 0
    BY <2>1, <2>2, Multiples
  <2>5. n % KMALLOC_ALIGN = 0
    BY <2>1, <2>3, Multiples, PoolNumbers
  <2> QED BY <2>4, <2>5
<1>5. PICK c \in h.pools : Fitted(h, b, c)
  BY DEF Sound, Tiled
<1>6. c \in PoolBases /\ c \in Nat /\ c <= b /\ Stop(h, b) <= c + KMALLOC_POOL_SIZE
      /\ Stop(h, b) \in Nat
  BY <1>5, HeapFields, PoolNumbers, HeapNumbers DEF Fitted
<1>7. s \in Slots
  <2>1. s \in c .. c + KMALLOC_POOL_SIZE - 1
    BY <1>1, <1>3, <1>6, PoolNumbers, SMT
  <2> QED BY <1>4, <1>6, <2>1, SlotIs, SMTT(20)
<1> HIDE DEF s, n
<1>8. ASSUME NEW a \in D
      PROVE  a \in Nat /\ Stop(h, a) \in Nat /\ a < Stop(h, a)
             /\ (a < b => Stop(h, a) <= b) /\ (b < a => Stop(h, b) <= a)
  BY HeapNumbers DEF Sound, Tiled
<1>9. s \notin D
  BY <1>3, <1>8, SMTT(20)
<1>10. /\ e \in HeapType /\ e.pools = h.pools /\ DOMAIN e.block = D \cup {s}
       /\ \A x \in D :
            /\ e.block[x].size = IF x = b THEN size ELSE h.block[x].size
            /\ e.block[x].next_phys = IF x = b THEN s ELSE h.block[x].next_phys
            /\ e.block[x].free <=> h.block[x].free
       /\ e.block[s].size = n
       /\ e.block[s].next_phys = h.block[b].next_phys
       /\ e.block[s].free
       /\ e.list = <<s>> \o h.list
  BY <1>3, <1>7, <1>9, SplitIs, SMT DEF s, n
<1>m. \A x \in Slots :
        e.magic[x] = IF x = s THEN FREE
                     ELSE IF x \in HeaderBytes(s) THEN Other ELSE h.magic[x]
  <2>1. FreshMagic(h, e, s)
    BY <1>3, <1>7, <1>9, SplitIs DEF s, n
  <2> QED BY <2>1 DEF FreshMagic
<1> HIDE DEF e
<1>11. /\ \A a \in D : a # b => Stop(e, a) = Stop(h, a)
       /\ Stop(e, b) = s /\ Stop(e, s) = Stop(h, b)
  <2>1. \A a \in D : a # b => Stop(e, a) = Stop(h, a)
    BY <1>10 DEF Stop
  <2>2. Stop(e, b) = s
    BY <1>10 DEF Stop, s
  <2>3. Stop(e, s) = Stop(h, b)
    BY <1>10, <1>3 DEF Stop
  <2> QED BY <2>1, <2>2, <2>3
<1>12. Tiled(e)
  <2>1. e.pools \subseteq DOMAIN e.block
    BY <1>10 DEF Sound, Tiled
  <2>2. ASSUME NEW a \in D, a # b
        PROVE  /\ e.block[a].size % KMALLOC_ALIGN = 0
               /\ e.block[a].next_phys \in DOMAIN e.block \cup {NULL}
               /\ \E d \in e.pools : Fitted(e, a, d)
    <3>1. PICK d \in h.pools : Fitted(h, a, d)
      BY DEF Sound, Tiled
    <3>2. Fitted(e, a, d)
      BY <1>10, <1>11, <2>2, <3>1 DEF Fitted
    <3> QED BY <1>10, <2>2, <3>2, SMT DEF Sound, Tiled
  <2>3. /\ e.block[b].size % KMALLOC_ALIGN = 0
        /\ e.block[b].next_phys \in DOMAIN e.block \cup {NULL}
        /\ \E d \in e.pools : Fitted(e, b, d)
    <3>1. s <= c + KMALLOC_POOL_SIZE /\ s # c + KMALLOC_POOL_SIZE
      BY <1>3, <1>6, PoolNumbers, SMTT(20)
    <3>2. Fitted(e, b, c)
      BY <1>6, <1>10, <1>11, <3>1, SMTT(20) DEF Fitted
    <3> QED BY <1>10, <3>2
  <2>4. /\ e.block[s].size % KMALLOC_ALIGN = 0
        /\ e.block[s].next_phys \in DOMAIN e.block \cup {NULL}
        /\ \E d \in e.pools : Fitted(e, s, d)
    <3>1. c <= s
      BY <1>1, <1>3, <1>6, SMTT(20)
    <3>2. Fitted(e, s, c)
      BY <1>5, <1>10, <1>11, <3>1, SMTT(20) DEF Fitted
    <3> QED BY <1>4, <1>10, <3>2 DEF Sound, Tiled
  <2>5. ASSUME NEW a \in D \cup {s}, NEW d \in D \cup {s}, a < d
        PROVE  Stop(e, a) <= d
    <3>1. CASE a \in D /\ d \in D /\ a # b
      BY <1>11, <2>5, <3>1 DEF Sound, Tiled
    <3>2. CASE a = b /\ d \in D
      BY <1>1, <1>3, <1>8, <1>11, <2>5, <3>2, SMTT(20)
    <3>3. CASE a = b /\ d = s
      BY <1>3, <1>11, <3>3, SMTT(20)
    <3>4. CASE a \in D /\ a # b /\ d = s
      BY <1>1, <1>3, <1>6, <1>8, <1>11, <2>5, <3>4, SMTT(20)
    <3>5. CASE a = s /\ d \in D
      BY <1>1, <1>3, <1>8, <1>11, <2>5, <3>5, SMTT(20)
    <3>6. ~(a = s /\ d = s)
      BY <1>3, <2>5, SMT
    <3> QED BY <3>1, <3>2, <3>3, <3>4, <3>5, <3>6, SMTT(20)
  <2> QED BY <1>10, <2>1, <2>2, <2>3, <2>4, <2>5, SMTT(20) DEF Tiled
<1>13. Listed(e)
  <2>1. h.list \in Seq(Slots)
    BY HeapFields
  <2>2. s \notin ToSet(h.list) /\ Injective(h.list)
    BY <1>9 DEF Sound, Listed
  <2>3. /\ Injective(e.list)
        /\ \A y : y \in ToSet(e.list) <=> y = s \/ y \in ToSet(h.list)
    BY <1>10, <1>7, <2>1, <2>2, ConsInjective, SMTT(20)
  <2>4. \A y : y \in ToSet(h.list) <=> y \in D /\ h.block[y].free
    BY DEF Sound, Listed
  <2>5. \A y : y \in ToSet(e.list) <=> y \in DOMAIN e.block /\ e.block[y].free
    BY <1>10, <1>9, <2>3, <2>4, SMT
  <2> QED BY <2>3, <2>5 DEF Listed
<1>14. Marked(e)
  <2>1. ASSUME NEW a \in D
        PROVE  e.magic[a] = h.magic[a] /\ (e.block[a].free <=> h.block[a].free)
    <3>1. a \notin s .. s + HEADER - 1
      BY <1>1, <1>3, <1>6, <1>8, <1>9, PoolNumbers, SMTT(20)
    <3>2. a \notin HeaderBytes(s) /\ a # s /\ a \in Slots
      BY <1>9, <3>1, HeapNumbers DEF HeaderBytes
    <3> QED BY <1>10, <1>m, <3>2
  <2>2. e.magic[s] = FREE
    BY <1>7, <1>m
  <2> QED BY <1>10, <2>1, <2>2 DEF Sound, Marked
<1>15. Lent(e, own)
  <2>1. s + HEADER \notin DOMAIN own
    <3> SUFFICES ASSUME s + HEADER \in DOMAIN own PROVE FALSE
      OBVIOUS
    <3>1. PICK a \in D : s + HEADER = a + HEADER
      BY DEF Lent
    <3>2. a = s
      BY <1>3, <3>1, HeapNumbers, PoolNumbers, SMT
    <3> QED BY <1>9, <3>2
  <2>2. ASSUME NEW q \in DOMAIN own
        PROVE  \E a \in DOMAIN e.block :
                 q = a + HEADER /\ own[q] \in Sizes /\ Holds(e.block[a].size, own[q])
    <3>1. PICK a \in D : q = a + HEADER /\ own[q] \in Sizes /\ Holds(h.block[a].size, own[q])
      BY DEF Lent
    <3>2. a # b
      BY <3>1 DEF Lent
    <3>3. a \in DOMAIN e.block /\ e.block[a].size = h.block[a].size
      BY <1>10, <3>2
    <3> QED BY <3>1, <3>3
  <2>3. \A a \in DOMAIN e.block : e.block[a].free <=> a + HEADER \notin DOMAIN own
    BY <1>10, <2>1 DEF Lent
  <2> QED BY <2>2, <2>3 DEF Lent
<1>16. NoNewUsed(h, e)
  BY <1>m, SMT DEF NoNewUsed, FREE, USED, Other
<1> QED BY <1>10, <1>12, <1>13, <1>14, <1>15, <1>16, SMTT(20) DEF Sound, e

\* What the free list holds once block a is unlinked.
LEMMA Unlinked ==
  ASSUME NEW h \in HeapType, Listed(h), NEW a \in DOMAIN h.block, h.block[a].free
  PROVE  /\ FreeListRemove(h, a) \in HeapType
         /\ FreeListRemove(h, a).init = h.init /\ FreeListRemove(h, a).pools = h.pools
         /\ FreeListRemove(h, a).block = h.block /\ FreeListRemove(h, a).magic = h.magic
         /\ Injective(FreeListRemove(h, a).list)
         /\ \A y : y \in ToSet(FreeListRemove(h, a).list)
                   <=> y # a /\ y \in DOMAIN h.block /\ h.block[y].free
<1> DEFINE r == FreeListRemove(h, a)
<1>1. h.list \in Seq(Slots)
  BY HeapFields
<1>2. Injective(h.list) /\ \A y : y \in ToSet(h.list) <=> y \in DOMAIN h.block /\ h.block[y].free
  BY DEF Listed
<1>3. a \in ToSet(h.list)
  BY <1>2
<1>4. \E i \in 1 .. Len(h.list) : h.list[i] = a
  BY <1>1, <1>3, SMT DEF ToSet
<1>5. /\ r \in HeapType
      /\ r.init = h.init /\ r.pools = h.pools /\ r.block = h.block /\ r.magic = h.magic
  BY <1>4, RemoveIs
<1>6. Dropped(r.list, h.list, a)
  BY <1>4, RemoveIs
<1> HIDE DEF r
<1>7. PICK i \in 1 .. Len(h.list) :
        /\ h.list[i] = a
        /\ Len(r.list) = Len(h.list) - 1
        /\ \A j \in 1 .. Len(h.list) - 1 :
             r.list[j] = IF j < i THEN h.list[j] ELSE h.list[j + 1]
  BY <1>6 DEF Dropped
<1>8. r.list \in Seq(Slots)
  BY <1>5, HeapFields
<1>9. Injective(r.list) /\ \A y : y \in ToSet(r.list) <=> y # a /\ y \in ToSet(h.list)
  BY <1>1, <1>2, <1>7, <1>8, RemoveInjective
<1> QED BY <1>2, <1>5, <1>9 DEF r

\* The owners once p is theirs, for n bytes.
Owning(own, p, n) == [q \in DOMAIN own \cup {p} |-> IF q = p THEN n ELSE own[q]]

\* Unlinking the free block b and marking it used hands it out.
LEMMA TakeSound ==
  ASSUME NEW h \in HeapType, Sound(h), NEW own, Lent(h, own),
         NEW b \in DOMAIN h.block, h.block[b].free,
         NEW n \in Sizes, Holds(h.block[b].size, n), NEW g,
         g = MarkUsed(FreeListRemove(h, b), b)
  PROVE  /\ g \in HeapType /\ Sound(g) /\ Lent(g, Owning(own, b + HEADER, n))
         /\ b \in DOMAIN g.block /\ Holds(g.block[b].size, n)
         /\ \A x \in Slots : g.magic[x] = USED => x = b \/ h.magic[x] = USED
<1> DEFINE r == FreeListRemove(h, b)
           D == DOMAIN h.block
<1>1. /\ r \in HeapType
      /\ r.pools = h.pools /\ r.block = h.block /\ r.magic = h.magic
      /\ Injective(r.list)
      /\ \A y : y \in ToSet(r.list) <=> y # b /\ y \in D /\ h.block[y].free
  BY Unlinked DEF Sound
<1>2. g = MarkUsed(r, b)
  OBVIOUS
<1> HIDE DEF r
<1>3. /\ g \in HeapType /\ g.pools = r.pools /\ g.list = r.list
      /\ DOMAIN g.block = D
      /\ \A x \in D :
           /\ g.block[x].size = h.block[x].size
           /\ g.block[x].next_phys = h.block[x].next_phys
           /\ g.block[x].free <=> x # b /\ h.block[x].free
      /\ \A x \in Slots : g.magic[x] = IF x = b THEN USED ELSE h.magic[x]
  <2>1. b \in DOMAIN r.block
    BY <1>1
  <2>2. /\ g \in HeapType /\ g.pools = r.pools /\ g.list = r.list
        /\ DOMAIN g.block = DOMAIN r.block
        /\ \A x \in DOMAIN r.block :
             /\ g.block[x].size = r.block[x].size
             /\ g.block[x].next_phys = r.block[x].next_phys
             /\ g.block[x].free <=> x # b /\ r.block[x].free
        /\ \A x \in Slots : g.magic[x] = IF x = b THEN USED ELSE r.magic[x]
    BY <1>1, <1>2, <2>1, UseIs, SMTT(20)
  <2> QED BY <1>1, <2>2, SMT
<1>4. \A a \in D : Stop(g, a) = Stop(h, a)
  BY <1>3 DEF Stop
<1>5. \A a \in D : \A c \in h.pools : Fitted(h, a, c) => Fitted(g, a, c)
  BY <1>3, <1>4 DEF Fitted
<1>6. Tiled(g)
  BY <1>1, <1>3, <1>4, <1>5, SMTT(20) DEF Sound, Tiled
<1>7. Listed(g)
  BY <1>1, <1>3, SMT DEF Listed
<1>8. Marked(g)
  BY <1>3, HeapNumbers, SMT DEF Sound, Marked
<1>9. Lent(g, Owning(own, b + HEADER, n))
  <2> DEFINE own2 == Owning(own, b + HEADER, n)
  <2>1. /\ DOMAIN own2 = DOMAIN own \cup {b + HEADER}
        /\ own2[b + HEADER] = n
        /\ \A q \in DOMAIN own : q # b + HEADER => own2[q] = own[q]
    BY DEF Owning
  <2> HIDE DEF own2
  <2>2. ASSUME NEW a \in D, a # b
        PROVE  a + HEADER # b + HEADER
    <3>1. a \in Nat /\ b \in Nat /\ HEADER \in Nat
      BY HeapNumbers, PoolNumbers, SMT
    <3> QED BY <2>2, <3>1, SMT
  <2>3. \A a \in DOMAIN g.block : g.block[a].free <=> a + HEADER \notin DOMAIN own2
    BY <1>3, <2>1, <2>2, SMT DEF Lent
  <2>4. ASSUME NEW q \in DOMAIN own, q # b + HEADER
        PROVE  \E a \in DOMAIN g.block :
                 q = a + HEADER /\ own2[q] \in Sizes /\ Holds(g.block[a].size, own2[q])
    <3>1. PICK a \in D : q = a + HEADER /\ own[q] \in Sizes /\ Holds(h.block[a].size, own[q])
      BY DEF Lent
    <3>2. a \in DOMAIN g.block /\ g.block[a].size = h.block[a].size /\ own2[q] = own[q]
      BY <1>3, <2>1, <2>4, SMT
    <3> QED BY <3>1, <3>2
  <2>5. \E a \in DOMAIN g.block :
          /\ b + HEADER = a + HEADER
          /\ own2[b + HEADER] \in Sizes /\ Holds(g.block[a].size, own2[b + HEADER])
    BY <1>3, <2>1
  <2> QED BY <2>1, <2>3, <2>4, <2>5 DEF Lent, own2
<1> QED BY <1>3, <1>6, <1>7, <1>8, <1>9, SMTT(20) DEF Sound

\* HandOut, of a free block with room for a request of n bytes.
LEMMA HandOutSound ==
  ASSUME NEW h \in HeapType, Sound(h), NEW own, Lent(h, own),
         NEW b \in DOMAIN h.block, h.block[b].free, NEW n \in Sizes, NEW size,
         size = align_up_sz(n, KMALLOC_ALIGN), h.block[b].size >= size
  PROVE  /\ HandOut(h, b, size) \in HeapType /\ Sound(HandOut(h, b, size))
         /\ Lent(HandOut(h, b, size), Owning(own, b + HEADER, n))
         /\ b \in DOMAIN HandOut(h, b, size).block
         /\ Holds(HandOut(h, b, size).block[b].size, n)
         /\ \A x \in Slots :
              HandOut(h, b, size).magic[x] = USED => x = b \/ h.magic[x] = USED
<1> DEFINE h1 == IF Splits(h, b, size) THEN Split(h, b, size) ELSE h
           g  == HandOut(h, b, size)
<1>1. n \in Nat
  BY SizeIs
<1>2. size \in Nat /\ size % KMALLOC_ALIGN = 0 /\ Holds(size, n)
  BY <1>1, AlignUpSz
<1>3. /\ h1 \in HeapType /\ Sound(h1) /\ Lent(h1, own) /\ NoNewUsed(h, h1)
      /\ b \in DOMAIN h1.block /\ h1.block[b].free /\ Holds(h1.block[b].size, n)
  <2>1. CASE Splits(h, b, size)
    BY <1>2, <2>1, SplitSound, SMTT(20)
  <2>2. CASE ~Splits(h, b, size)
    BY <1>1, <1>2, <2>2, HeapNumbers, SMTT(20) DEF NoNewUsed, Holds
  <2> QED BY <2>1, <2>2
<1>4. g = MarkUsed(FreeListRemove(h1, b), b)
  BY DEF HandOut, MarkUsed
<1> HIDE DEF h1, g
<1>5. /\ g \in HeapType /\ Sound(g) /\ Lent(g, Owning(own, b + HEADER, n))
      /\ b \in DOMAIN g.block /\ Holds(g.block[b].size, n)
      /\ \A x \in Slots : g.magic[x] = USED => x = b \/ h1.magic[x] = USED
  BY <1>3, <1>4, TakeSound, SMTT(20)
<1> QED BY <1>3, <1>5 DEF NoNewUsed, g

\* The owners once p is given back.
Without(own, p) == [q \in DOMAIN own \ {p} |-> own[q]]

\* kfree's insertion of a block in use.
LEMMA FreeSound ==
  ASSUME NEW h \in HeapType, Sound(h), NEW own, Lent(h, own),
         NEW b \in DOMAIN h.block, ~h.block[b].free
  PROVE  /\ FreeListInsert(h, b) \in HeapType /\ Sound(FreeListInsert(h, b))
         /\ Lent(FreeListInsert(h, b), Without(own, b + HEADER))
         /\ b \in DOMAIN FreeListInsert(h, b).block /\ FreeListInsert(h, b).block[b].free
         /\ FreeListInsert(h, b).magic[b] = FREE /\ NoNewUsed(h, FreeListInsert(h, b))
<1> DEFINE e == FreeListInsert(h, b)
           D == DOMAIN h.block
<1>1. /\ e \in HeapType /\ e.pools = h.pools /\ DOMAIN e.block = D
      /\ \A x \in D :
           /\ e.block[x].size = h.block[x].size
           /\ e.block[x].next_phys = h.block[x].next_phys
           /\ e.block[x].free <=> x = b \/ h.block[x].free
      /\ \A x \in Slots : e.magic[x] = IF x = b THEN FREE ELSE h.magic[x]
      /\ e.list = <<b>> \o h.list
  BY InsertIs, SMT
<1> HIDE DEF e
<1>2. b \in Slots
  BY HeapNumbers
<1>4. \A a \in D : Stop(e, a) = Stop(h, a)
  BY <1>1 DEF Stop
<1>5. \A a \in D : \A c \in h.pools : Fitted(h, a, c) => Fitted(e, a, c)
  BY <1>1, <1>4 DEF Fitted
<1>6. Tiled(e)
  BY <1>1, <1>4, <1>5, SMT DEF Sound, Tiled
<1>7. Listed(e)
  <2>1. h.list \in Seq(Slots)
    BY HeapFields
  <2>2. b \notin ToSet(h.list) /\ Injective(h.list)
    BY DEF Sound, Listed
  <2>3. /\ Injective(e.list)
        /\ \A y : y \in ToSet(e.list) <=> y = b \/ y \in ToSet(h.list)
    BY <1>1, <1>2, <2>1, <2>2, ConsInjective, SMTT(20)
  <2>4. \A y : y \in ToSet(h.list) <=> y \in D /\ h.block[y].free
    BY DEF Sound, Listed
  <2>5. \A y : y \in ToSet(e.list) <=> y \in DOMAIN e.block /\ e.block[y].free
    BY <1>1, <2>3, <2>4
  <2> QED BY <2>3, <2>5 DEF Listed
<1>8. Marked(e)
  BY <1>1, HeapNumbers, SMT DEF Sound, Marked
<1>9. Lent(e, Without(own, b + HEADER))
  <2> DEFINE own2 == Without(own, b + HEADER)
  <2>1. /\ DOMAIN own2 = DOMAIN own \ {b + HEADER}
        /\ \A q \in DOMAIN own2 : own2[q] = own[q]
    BY DEF Without
  <2> HIDE DEF own2
  <2>2. ASSUME NEW a \in D, a # b
        PROVE  a + HEADER # b + HEADER
    <3>1. a \in Nat /\ b \in Nat /\ HEADER \in Nat
      BY HeapNumbers, PoolNumbers
    <3> QED BY <2>2, <3>1, SMT
  <2>3. \A a \in DOMAIN e.block : e.block[a].free <=> a + HEADER \notin DOMAIN own2
    BY <1>1, <2>1, <2>2, SMTT(20) DEF Lent
  <2>4. ASSUME NEW q \in DOMAIN own2
        PROVE  \E a \in DOMAIN e.block :
                 q = a + HEADER /\ own2[q] \in Sizes /\ Holds(e.block[a].size, own2[q])
    <3>1. PICK a \in D : q = a + HEADER /\ own[q] \in Sizes /\ Holds(h.block[a].size, own[q])
      BY <2>1 DEF Lent
    <3>2. a \in DOMAIN e.block /\ e.block[a].size = h.block[a].size /\ own2[q] = own[q]
      BY <1>1, <2>1
    <3> QED BY <3>1, <3>2, SMT
  <2> QED BY <2>3, <2>4 DEF Lent, own2
<1>10. NoNewUsed(h, e)
  BY <1>1 DEF NoNewUsed, FREE, USED
<1> QED BY <1>1, <1>2, <1>6, <1>7, <1>8, <1>9, <1>10, SMTT(20) DEF Sound, e

\* Block b takes over block next, which is no longer in the free list of r.
Merge(r, b, next, size) ==
  LET grown == [r.block[b] EXCEPT !.size = size, !.next_phys = r.block[next].next_phys]
  IN [r EXCEPT !.block = [a \in DOMAIN r.block \ {next} |->
                            IF a = b THEN grown ELSE r.block[a]],
               !.magic[next] = Other]

LEMMA MergeIs ==
  ASSUME NEW h \in HeapType, NEW b \in DOMAIN h.block, NEW c \in DOMAIN h.block,
         b # c, NEW size \in Nat, NEW g, g = Merge(h, b, c, size)
  PROVE  /\ g \in HeapType /\ g.init = h.init /\ g.pools = h.pools /\ g.list = h.list
         /\ DOMAIN g.block = DOMAIN h.block \ {c}
         /\ \A x \in DOMAIN g.block :
              /\ g.block[x].size = IF x = b THEN size ELSE h.block[x].size
              /\ g.block[x].next_phys
                   = IF x = b THEN h.block[c].next_phys ELSE h.block[x].next_phys
              /\ g.block[x].free <=> h.block[x].free
         /\ \A x \in Slots : g.magic[x] = IF x = c THEN Other ELSE h.magic[x]
<1> DEFINE m == h.block[c].next_phys
           G == [h.block[b] EXCEPT !.size = size, !.next_phys = m]
           B == [a \in DOMAIN h.block \ {c} |-> IF a = b THEN G ELSE h.block[a]]
           M == [h.magic EXCEPT ![c] = Other]
<1>1. /\ g.init = h.init /\ g.pools = h.pools /\ g.list = h.list
      /\ g.block = B /\ g.magic = M
      /\ B \in BlockTables /\ M \in Magics => g \in HeapType
  BY DEF HeapType, Merge
<1> USE HeapFields
<1>2. /\ G \in BlockHeader /\ G.size = size /\ G.next_phys = m
      /\ G.free <=> h.block[b].free
  BY ZenonT(30) DEF BlockHeader
<1> HIDE DEF G
<1>3. /\ B \in [DOMAIN h.block \ {c} -> BlockHeader] /\ DOMAIN h.block \ {c} \subseteq Slots
      /\ DOMAIN B = DOMAIN h.block \ {c}
  BY <1>2
<1>4. ASSUME NEW x \in DOMAIN h.block \ {c}
      PROVE  /\ B[x].size = IF x = b THEN size ELSE h.block[x].size
             /\ B[x].next_phys = IF x = b THEN m ELSE h.block[x].next_phys
             /\ B[x].free <=> h.block[x].free
  BY <1>2
<1>5. /\ M \in [Slots -> {FREE, USED, Other}]
      /\ \A x \in Slots : M[x] = IF x = c THEN Other ELSE h.magic[x]
  OBVIOUS
<1> HIDE DEF B, M
<1>6. g \in HeapType
  <2>1. B \in BlockTables
    BY <1>3 DEF BlockTables
  <2>2. M \in Magics
    BY <1>5 DEF Magics
  <2> QED BY <1>1, <2>1, <2>2
<1> QED BY <1>1, <1>3, <1>4, <1>5, <1>6, SMTT(20)

\* One round of kfree's loop: the free block b takes over the free block c that
\* follows it in its pool, and the heap becomes g.
Merges(h, b, c, size, g) ==
  /\ h.block[b].free /\ h.block[c].free /\ h.block[b].next_phys = c
  /\ size = h.block[b].size + HEADER + h.block[c].size
  /\ g = Merge(FreeListRemove(h, c), b, c, size)

LEMMA MergeSound ==
  ASSUME NEW h \in HeapType, Sound(h), NEW own, Lent(h, own),
         NEW b \in DOMAIN h.block, NEW c \in DOMAIN h.block, NEW size, NEW g,
         Merges(h, b, c, size, g)
  PROVE  /\ g \in HeapType /\ Sound(g) /\ Lent(g, own) /\ NoNewUsed(h, g)
         /\ b \in DOMAIN g.block /\ g.block[b].free
<1> DEFINE r == FreeListRemove(h, c)
           D == DOMAIN h.block
<1>1. PICK d \in h.pools : Fitted(h, b, d)
  BY DEF Sound, Tiled
<1>2. PICK f \in h.pools : Fitted(h, c, f)
  BY DEF Sound, Tiled
<1>3. /\ b \in Nat /\ c \in Nat /\ c \in Slots /\ Stop(h, b) \in Nat /\ Stop(h, c) \in Nat
      /\ b < Stop(h, b) /\ c < Stop(h, c) /\ c # NULL
      /\ h.block[b].size \in Nat /\ h.block[c].size \in Nat
  BY HeapNumbers, SlotIs
<1>4. c = Stop(h, b) /\ c # d + KMALLOC_POOL_SIZE /\ d <= b /\ c <= d + KMALLOC_POOL_SIZE
  BY <1>1, <1>3 DEF Fitted, Merges
<1>5. d \in PoolBases /\ d \in Nat /\ f \in PoolBases /\ f \in Nat
  BY HeapFields, PoolNumbers
<1>6. b < c /\ d < c /\ c < d + KMALLOC_POOL_SIZE
  BY <1>3, <1>4, <1>5, PoolNumbers, SMTT(20)
<1>7. f <= c /\ c < f + KMALLOC_POOL_SIZE
  BY <1>2, <1>3, <1>5, PoolNumbers, SMTT(20) DEF Fitted
<1>8. f = d
  BY <1>3, <1>5, <1>6, <1>7, OnePool, SMTT(20)
<1>9. c \notin h.pools
  <2> SUFFICES ASSUME c \in h.pools PROVE FALSE
    OBVIOUS
  <2>1. c \in PoolBases /\ c < c + KMALLOC_POOL_SIZE /\ c <= c /\ d <= c
    BY <1>3, <1>5, <1>6, HeapFields, PoolNumbers, SMTT(20)
  <2>2. c = d
    BY <1>3, <1>5, <1>6, <2>1, OnePool
  <2> QED BY <1>5, <1>6, <2>2, SMT
<1>10. size \in Nat
  BY <1>3, PoolNumbers, SMT DEF Merges
<1>11. size % KMALLOC_ALIGN = 0
  <2>1. /\ h.block[b].size % KMALLOC_ALIGN = 0 /\ h.block[c].size % KMALLOC_ALIGN = 0
        /\ HEADER \in Nat /\ h.block[b].size + HEADER \in Nat
    BY <1>3, PoolNumbers, SMT DEF Sound, Tiled
  <2>2. (h.block[b].size + HEADER) % KMALLOC_ALIGN = 0
    BY <1>3, <2>1, Multiples, PoolNumbers
  <2>3. (h.block[b].size + HEADER + h.block[c].size) % KMALLOC_ALIGN = 0
    BY <1>3, <2>1, <2>2, Multiples
  <2> QED BY <2>3 DEF Merges
<1>12. /\ r \in HeapType
       /\ r.pools = h.pools /\ r.block = h.block /\ r.magic = h.magic
       /\ Injective(r.list)
       /\ \A y : y \in ToSet(r.list) <=> y # c /\ y \in D /\ h.block[y].free
  BY Unlinked, SMT DEF Sound, Merges
<1>13. g = Merge(r, b, c, size) /\ h.block[b].free /\ h.block[c].free
  BY DEF Merges
<1> HIDE DEF r
<1>14. /\ g \in HeapType /\ g.pools = h.pools /\ g.list = r.list
       /\ DOMAIN g.block = D \ {c}
       /\ \A x \in DOMAIN g.block :
            /\ g.block[x].size = IF x = b THEN size ELSE h.block[x].size
            /\ g.block[x].next_phys
                 = IF x = b THEN h.block[c].next_phys ELSE h.block[x].next_phys
            /\ g.block[x].free <=> h.block[x].free
       /\ \A x \in Slots : g.magic[x] = IF x = c THEN Other ELSE h.magic[x]
  <2>1. b \in DOMAIN r.block /\ c \in DOMAIN r.block /\ b # c
    BY <1>3, <1>6, <1>12, SMTT(20)
  <2>2. /\ g \in HeapType /\ g.pools = r.pools /\ g.list = r.list
        /\ DOMAIN g.block = DOMAIN r.block \ {c}
        /\ \A x \in DOMAIN g.block :
             /\ g.block[x].size = IF x = b THEN size ELSE r.block[x].size
             /\ g.block[x].next_phys
                  = IF x = b THEN r.block[c].next_phys ELSE r.block[x].next_phys
             /\ g.block[x].free <=> r.block[x].free
        /\ \A x \in Slots : g.magic[x] = IF x = c THEN Other ELSE r.magic[x]
    BY <1>10, <1>12, <1>13, <2>1, MergeIs, SMTT(20)
  <2>3. ASSUME NEW x \in DOMAIN g.block
        PROVE  /\ g.block[x].size = IF x = b THEN size ELSE h.block[x].size
               /\ g.block[x].next_phys
                    = IF x = b THEN h.block[c].next_phys ELSE h.block[x].next_phys
               /\ g.block[x].free <=> h.block[x].free
    <3>1. r.block = h.block
      BY <1>12
    <3>2. /\ g.block[x].size = IF x = b THEN size ELSE r.block[x].size
          /\ g.block[x].next_phys
               = IF x = b THEN r.block[c].next_phys ELSE r.block[x].next_phys
          /\ g.block[x].free <=> r.block[x].free
      BY <2>2
    <3> QED BY <3>1, <3>2
  <2>4. /\ g.pools = h.pools /\ DOMAIN g.block = D \ {c}
        /\ \A x \in Slots : g.magic[x] = IF x = c THEN Other ELSE h.magic[x]
    BY <1>12, <2>2
  <2> QED BY <2>2, <2>3, <2>4
<1>15. b \in D \ {c}
  BY <1>3, <1>6, SMT
<1>16. /\ Stop(g, b) = Stop(h, c)
       /\ \A a \in D \ {c} : a # b => Stop(g, a) = Stop(h, a)
  <2>1. Stop(g, b) = b + HEADER + (h.block[b].size + HEADER + h.block[c].size)
    BY <1>14, <1>15 DEF Stop, Merges
  <2>2. Stop(h, c) = b + HEADER + h.block[b].size + HEADER + h.block[c].size
    BY <1>4 DEF Stop
  <2>3. \A a \in D \ {c} : a # b => Stop(g, a) = Stop(h, a)
    BY <1>14 DEF Stop
  <2>4. HEADER \in Nat
    BY PoolNumbers
  <2>5. Stop(g, b) = Stop(h, c)
    BY <1>3, <2>1, <2>2, <2>4, SMTT(20)
  <2> QED BY <2>3, <2>5
<1>17. Tiled(g)
  <2>1. g.pools \subseteq DOMAIN g.block
    BY <1>9, <1>14 DEF Sound, Tiled
  <2>2. ASSUME NEW a \in D \ {c}, a # b
        PROVE  /\ g.block[a].size % KMALLOC_ALIGN = 0
               /\ g.block[a].next_phys \in DOMAIN g.block \cup {NULL}
               /\ \E e \in g.pools : Fitted(g, a, e)
    <3>1. PICK e \in h.pools : Fitted(h, a, e)
      BY DEF Sound, Tiled
    <3>2. Fitted(g, a, e)
      BY <1>14, <1>16, <2>2, <3>1, SMTT(20) DEF Fitted
    <3>3. a \in Nat /\ Stop(h, a) \in Nat /\ a < Stop(h, a)
      BY HeapNumbers
    <3>4. (a < b => Stop(h, a) <= b) /\ (b < a => Stop(h, b) <= a)
      BY DEF Sound, Tiled
    <3>5. Stop(h, a) # c
      BY <1>3, <1>4, <1>6, <2>2, <3>3, <3>4, SMTT(20)
    <3>6. h.block[a].next_phys # c
      BY <1>3, <3>1, <3>5, SMTT(20) DEF Fitted
    <3>7. h.block[a].next_phys \in D \cup {NULL} /\ h.block[a].size % KMALLOC_ALIGN = 0
      BY DEF Sound, Tiled
    <3> QED BY <1>14, <2>2, <3>2, <3>6, <3>7, SMTT(20)
  <2>3. /\ g.block[b].size % KMALLOC_ALIGN = 0
        /\ g.block[b].next_phys \in DOMAIN g.block \cup {NULL}
        /\ \E e \in g.pools : Fitted(g, b, e)
    <3>1. Fitted(g, b, d)
      BY <1>2, <1>4, <1>8, <1>14, <1>15, <1>16, SMTT(20) DEF Fitted
    <3>2. h.block[c].next_phys # c
      BY <1>2, <1>3, SMT DEF Fitted
    <3>3. h.block[c].next_phys \in D \cup {NULL}
      BY DEF Sound, Tiled
    <3> QED BY <1>11, <1>14, <1>15, <3>1, <3>2, <3>3, SMTT(20)
  <2>4. ASSUME NEW a \in D \ {c}, NEW e \in D \ {c}, a < e
        PROVE  Stop(g, a) <= e
    <3>1. CASE a # b
      BY <1>16, <2>4, <3>1, SMTT(20) DEF Sound, Tiled
    <3>2. CASE a = b
      <4>1. c <= e /\ e \in Nat /\ e # c
        BY <1>4, <2>4, <3>2, HeapNumbers, SMTT(20) DEF Sound, Tiled
      <4>2. c < e
        BY <1>3, <4>1, SMT
      <4>3. Stop(h, c) <= e
        BY <4>2 DEF Sound, Tiled
      <4> QED BY <1>16, <3>2, <4>3, SMTT(20)
    <3> QED BY <3>1, <3>2
  <2>5. ASSUME NEW a \in DOMAIN g.block
        PROVE  /\ g.block[a].size % KMALLOC_ALIGN = 0
               /\ g.block[a].next_phys \in DOMAIN g.block \cup {NULL}
               /\ \E e \in g.pools : Fitted(g, a, e)
    <3>1. a \in D \ {c}
      BY <1>14
    <3> QED BY <2>2, <2>3, <3>1
  <2>6. \A a, e \in DOMAIN g.block : a < e => Stop(g, a) <= e
    BY <1>14, <2>4
  <2> QED BY <2>1, <2>5, <2>6, SMTT(20) DEF Tiled
<1>18. Listed(g)
  <2>1. \A y : y \in ToSet(g.list) <=> y \in DOMAIN g.block /\ g.block[y].free
    BY <1>12, <1>14, SMT
  <2> QED BY <1>12, <1>14, <2>1, SMTT(20) DEF Listed
<1>19. Marked(g)
  <2>1. \A a \in DOMAIN g.block :
          /\ a \in D /\ a # c /\ a \in Slots /\ g.magic[a] = h.magic[a]
          /\ g.block[a].free <=> h.block[a].free
    BY <1>14, HeapFields
  <2> QED BY <2>1 DEF Sound, Marked
<1>20. Lent(g, own)
  <2>1. \A a \in DOMAIN g.block : g.block[a].free <=> a + HEADER \notin DOMAIN own
    BY <1>14 DEF Lent
  <2>2. ASSUME NEW q \in DOMAIN own
        PROVE  \E a \in DOMAIN g.block :
                 q = a + HEADER /\ own[q] \in Sizes /\ Holds(g.block[a].size, own[q])
    <3>1. PICK a \in D : q = a + HEADER /\ own[q] \in Sizes /\ Holds(h.block[a].size, own[q])
      BY DEF Lent
    <3>2. a # b /\ a # c
      BY <1>13, <3>1 DEF Lent
    <3>3. a \in DOMAIN g.block /\ g.block[a].size = h.block[a].size
      BY <1>14, <3>2
    <3> QED BY <3>1, <3>3
  <2> QED BY <2>1, <2>2 DEF Lent
<1>21. NoNewUsed(h, g)
  BY <1>14 DEF NoNewUsed, USED, Other
<1> QED BY <1>13, <1>14, <1>15, <1>17, <1>18, <1>19, <1>20, <1>21, SMTT(20) DEF Sound

-----------------------------------------------------------------------------
(* The steps of the specification keep the inductive invariant.            *)

LEMMA HeapIs ==
  /\ Heap.init = g_initialized /\ Heap.pools = pools /\ Heap.block = block
  /\ Heap.magic = magic /\ Heap.list = g_free_list
BY DEF Heap

LEMMA BecomesHeap ==
  ASSUME NEW g \in HeapType, Becomes(g)
  PROVE  Heap' = g
BY DEF Becomes, Heap, HeapType

\* The invariant does not depend on g_initialized.
LEMMA SameHeap ==
  ASSUME NEW h, NEW g, NEW own, Sound(h), Lent(h, own),
         g.pools = h.pools, g.block = h.block, g.magic = h.magic, g.list = h.list
  PROVE  Sound(g) /\ Lent(g, own) /\ NoNewUsed(h, g)
<1>1. \A a : Stop(g, a) = Stop(h, a)
  BY DEF Stop
<1>2. \A a, b : Fitted(g, a, b) <=> Fitted(h, a, b)
  BY <1>1 DEF Fitted
<1>3. Tiled(g)
  BY <1>1, <1>2 DEF Sound, Tiled
<1>4. Listed(g) /\ Marked(g)
  BY DEF Sound, Listed, Marked
<1> QED BY <1>3, <1>4 DEF Sound, Lent, NoNewUsed

LEMMA RetriesSound ==
  ASSUME NEW h \in HeapType, Sound(h), NEW own, Lent(h, own), NEW g \in Retries(h)
  PROVE  g \in HeapType /\ Sound(g) /\ Lent(g, own) /\ NoNewUsed(h, g)
<1>1. CASE g = h
  BY <1>1 DEF NoNewUsed
<1>2. CASE g \in Expansions(h)
  <2>1. PICK b \in PoolBases \ h.pools : g = ExpandPool(h, b)
    BY <1>2 DEF Expansions
  <2> QED BY <2>1, ExpandSound
<1> QED BY <1>1, <1>2 DEF Retries

LEMMA InitialisedSound ==
  ASSUME NEW h \in HeapType, Sound(h), NEW own, Lent(h, own), NEW g \in Initialised(h)
  PROVE  g \in HeapType /\ Sound(g) /\ Lent(g, own) /\ NoNewUsed(h, g)
<1>1. CASE h.init
  BY <1>1 DEF Initialised, NoNewUsed
<1>2. CASE ~h.init
  <2>1. PICK e \in Expansions(h) : g = [e EXCEPT !.init = TRUE]
    BY <1>2 DEF Initialised
  <2>2. e \in HeapType /\ Sound(e) /\ Lent(e, own) /\ NoNewUsed(h, e)
    BY RetriesSound DEF Retries
  <2>3. /\ g \in HeapType /\ g.pools = e.pools /\ g.block = e.block
        /\ g.magic = e.magic /\ g.list = e.list
    BY <2>1, <2>2 DEF HeapType
  <2>4. Sound(g) /\ Lent(g, own) /\ NoNewUsed(e, g)
    BY <2>2, <2>3, SameHeap
  <2> QED BY <2>2, <2>3, <2>4, SMTT(20) DEF NoNewUsed
<1> QED BY <1>1, <1>2

\* What a step does that only makes the heap g, with no new mark USED.
LEMMA QuietStep ==
  ASSUME IInv, merging = NULL, NEW g \in HeapType, Sound(g), Lent(g, owned),
         NoNewUsed(Heap, g), Becomes(g), UNCHANGED <<merging, owned, stale>>
  PROVE  IInv'
<1>1. Heap' = g
  BY BecomesHeap
<1>2. magic' = g.magic
  BY DEF Becomes
<1>3. ASSUME NEW p \in stale'
      PROVE  \E a \in Slots : p = a + HEADER /\ magic'[a] # USED
  <2>1. PICK a \in Slots : p = a + HEADER /\ magic[a] # USED
    BY DEF IInv
  <2>2. magic'[a] # USED
    BY <1>2, <2>1, HeapIs, SMT DEF NoNewUsed
  <2> QED BY <2>1, <2>2
<1>4. (Heap \in HeapType)' /\ Sound(Heap)' /\ Lent(Heap, owned)'
  BY <1>1
<1> QED BY <1>3, <1>4 DEF IInv

\* What kmalloc searches and hands out: a free block of a sound heap.
LEMMA SearchSound ==
  ASSUME IInv, NEW n \in Sizes, NEW size, size = align_up_sz(n, KMALLOC_ALIGN),
         NEW h \in Initialised(Heap),
         NEW g \in IF Fits(h, size) # {} THEN {h} ELSE Retries(h)
  PROVE  g \in HeapType /\ Sound(g) /\ Lent(g, owned) /\ NoNewUsed(Heap, g)
<1>1. h \in HeapType /\ Sound(h) /\ Lent(h, owned) /\ NoNewUsed(Heap, h)
  BY InitialisedSound DEF IInv
<1>2. g \in Retries(h)
  BY DEF Retries
<1>3. g \in HeapType /\ Sound(g) /\ Lent(g, owned) /\ NoNewUsed(h, g)
  BY <1>1, <1>2, RetriesSound
<1> QED BY <1>1, <1>3 DEF NoNewUsed

LEMMA FirstFitIs ==
  ASSUME NEW g \in HeapType, Sound(g), NEW size, NEW b, FirstFit(g, size, b)
  PROVE  b \in DOMAIN g.block /\ g.block[b].free /\ g.block[b].size >= size
<1>1. PICK i \in 1 .. Len(g.list) : g.block[g.list[i]].size >= size /\ b = g.list[i]
  BY DEF FirstFit, Fits
<1>2. b \in ToSet(g.list)
  BY <1>1, HeapFields, SMTT(20) DEF ToSet
<1> QED BY <1>1, <1>2 DEF Sound, Listed

\* The step of a successful kmalloc, in the terms of the lemmas above.
LEMMA KmallocOkIs ==
  ASSUME IInv, NEW n \in Sizes, KmallocOk(n)
  PROVE  \E g \in HeapType : \E b \in DOMAIN g.block :
           LET size == align_up_sz(n, KMALLOC_ALIGN)
               h2   == HandOut(g, b, size)
           IN /\ Sound(g) /\ Lent(g, owned) /\ NoNewUsed(Heap, g)
              /\ g.block[b].free /\ g.block[b].size >= size
              /\ Becomes(h2)
              /\ owned' = Owning(owned, b + HEADER, n)
              /\ stale' \subseteq stale \ {b + HEADER}
              /\ merging' = NULL
<1> DEFINE size == align_up_sz(n, KMALLOC_ALIGN)
<1>1. PICK h \in Initialised(Heap) :
        \E g \in IF Fits(h, size) # {} THEN {h} ELSE Retries(h) :
        \E b \in ToSet(g.list) :
          /\ FirstFit(g, size, b)
          /\ Becomes(HandOut(g, b, size))
          /\ owned' = Owning(owned, b + HEADER, n)
          /\ stale' \subseteq stale \ {b + HEADER}
  BY DEF KmallocOk, Owning
<1>2. PICK g \in IF Fits(h, size) # {} THEN {h} ELSE Retries(h) :
        \E b \in ToSet(g.list) :
          /\ FirstFit(g, size, b)
          /\ Becomes(HandOut(g, b, size))
          /\ owned' = Owning(owned, b + HEADER, n)
          /\ stale' \subseteq stale \ {b + HEADER}
  BY <1>1
<1>3. PICK b \in ToSet(g.list) :
        /\ FirstFit(g, size, b)
        /\ Becomes(HandOut(g, b, size))
        /\ owned' = Owning(owned, b + HEADER, n)
        /\ stale' \subseteq stale \ {b + HEADER}
  BY <1>2
<1> HIDE DEF size
<1>4. g \in HeapType /\ Sound(g) /\ Lent(g, owned) /\ NoNewUsed(Heap, g)
  BY SearchSound DEF size
<1>5. b \in DOMAIN g.block /\ g.block[b].free /\ g.block[b].size >= size
  BY <1>3, <1>4, FirstFitIs, SMTT(20)
<1>6. merging' = NULL
  BY DEF KmallocOk, Unlocked
<1> QED BY <1>3, <1>4, <1>5, <1>6, SMTT(20) DEF size

LEMMA KmallocOkKeeps ==
  ASSUME IInv, NEW n \in Sizes, KmallocOk(n)
  PROVE  IInv'
<1> DEFINE size == align_up_sz(n, KMALLOC_ALIGN)
<1>1. PICK g \in HeapType : \E b \in DOMAIN g.block :
        /\ Sound(g) /\ Lent(g, owned) /\ NoNewUsed(Heap, g)
        /\ g.block[b].free /\ g.block[b].size >= size
        /\ Becomes(HandOut(g, b, size))
        /\ owned' = Owning(owned, b + HEADER, n)
        /\ stale' \subseteq stale \ {b + HEADER}
        /\ merging' = NULL
  BY KmallocOkIs
<1>2. PICK b \in DOMAIN g.block :
        /\ Sound(g) /\ Lent(g, owned) /\ NoNewUsed(Heap, g)
        /\ g.block[b].free /\ g.block[b].size >= size
        /\ Becomes(HandOut(g, b, size))
        /\ owned' = Owning(owned, b + HEADER, n)
        /\ stale' \subseteq stale \ {b + HEADER}
        /\ merging' = NULL
  BY <1>1
<1> DEFINE h2 == HandOut(g, b, size)
<1>3. /\ h2 \in HeapType /\ Sound(h2) /\ Lent(h2, Owning(owned, b + HEADER, n))
      /\ \A x \in Slots : h2.magic[x] = USED => x = b \/ g.magic[x] = USED
  BY <1>2, HandOutSound, SMT
<1> HIDE DEF h2, size
<1>4. Becomes(h2)
  BY <1>2 DEF h2
<1>5. Heap' = h2 /\ magic' = h2.magic
  BY <1>3, <1>4, BecomesHeap, ZenonT(30) DEF Becomes
<1>6. (Heap \in HeapType)' /\ Sound(Heap)' /\ Lent(Heap, owned)'
  BY <1>2, <1>3, <1>5, SMTT(20)
<1>7. ASSUME NEW p \in stale'
      PROVE  \E a \in Slots : p = a + HEADER /\ magic'[a] # USED
  <2>1. p \in stale /\ p # b + HEADER
    BY <1>2
  <2>2. PICK a \in Slots : p = a + HEADER /\ magic[a] # USED
    BY <2>1 DEF IInv
  <2>3. a # b
    BY <2>1, <2>2
  <2>4. magic'[a] # USED
    BY <1>2, <1>3, <1>5, <2>2, <2>3, HeapIs, SMTT(20) DEF NoNewUsed
  <2> QED BY <2>2, <2>4
<1> QED BY <1>2, <1>6, <1>7, SMTT(20) DEF IInv

\* kfree accepts only a live pointer: a stale one has no header marked USED.
LEMMA KfreeIs ==
  ASSUME IInv, NEW p \in DOMAIN owned \cup stale, Kfree(p)
  PROVE  /\ p \in DOMAIN owned /\ p - HEADER \in DOMAIN block
         /\ ~block[p - HEADER].free /\ p = (p - HEADER) + HEADER
<1>0. HEADER \in Nat /\ Slots \subseteq Nat
  BY PoolNumbers, SlotIs
<1>1. p \in DOMAIN owned
  <2> SUFFICES ASSUME p \in stale PROVE FALSE
    OBVIOUS
  <2>1. PICK a \in Slots : p = a + HEADER /\ magic[a] # USED
    BY DEF IInv
  <2>2. p - HEADER = a
    BY <1>0, <2>1, SMT
  <2> QED BY <2>1, <2>2 DEF Kfree, Accepts
<1>2. PICK a \in DOMAIN Heap.block : p = a + HEADER
  BY <1>1 DEF IInv, Lent
<1>3. a \in Nat /\ a \in DOMAIN block
  BY <1>2, HeapIs, HeapNumbers, SMTT(20) DEF IInv
<1>4. p - HEADER = a
  BY <1>0, <1>2, <1>3, SMTT(20)
<1>5. ~block[p - HEADER].free
  BY DEF Kfree, Accepts
<1> QED BY <1>1, <1>2, <1>3, <1>4, <1>5, SMTT(20)

LEMMA KfreeKeeps ==
  ASSUME IInv, NEW p \in DOMAIN owned \cup stale, Kfree(p)
  PROVE  IInv'
<1> DEFINE b == p - HEADER
           e == FreeListInsert(Heap, b)
<1>1. b \in DOMAIN Heap.block /\ ~Heap.block[b].free /\ p = b + HEADER
  BY KfreeIs, HeapIs, SMT
<1>2. /\ Becomes(e) /\ merging' = b /\ stale' = stale \cup {p}
      /\ owned' = Without(owned, p)
  BY DEF Kfree, Without
<1> HIDE DEF b
<1>3. /\ e \in HeapType /\ Sound(e) /\ Lent(e, Without(owned, p))
      /\ b \in DOMAIN e.block /\ e.block[b].free
      /\ e.magic[b] = FREE /\ NoNewUsed(Heap, e)
  BY <1>1, FreeSound DEF IInv
<1> HIDE DEF e
<1>4. Heap' = e /\ magic' = e.magic /\ block' = e.block
  BY <1>2, <1>3, BecomesHeap, SMTT(20) DEF Becomes
<1>5. (Heap \in HeapType)' /\ Sound(Heap)' /\ Lent(Heap, owned)'
  BY <1>2, <1>3, <1>4, SMTT(20)
<1>6. ASSUME NEW q \in stale'
      PROVE  \E a \in Slots : q = a + HEADER /\ magic'[a] # USED
  <2>1. CASE q \in stale
    <3>1. PICK a \in Slots : q = a + HEADER /\ magic[a] # USED
      BY <2>1 DEF IInv
    <3>2. magic'[a] # USED
      BY <1>3, <1>4, <3>1, HeapIs, SMTT(20) DEF NoNewUsed
    <3> QED BY <3>1, <3>2
  <2>2. CASE q = p
    BY <1>1, <1>3, <1>4, <2>2, HeapNumbers, SMTT(20) DEF IInv, FREE, USED
  <2> QED BY <1>2, <2>1, <2>2, SMTT(20)
<1> QED BY <1>2, <1>3, <1>4, <1>5, <1>6, SMTT(20) DEF IInv

LEMMA AbsorbKeeps ==
  ASSUME IInv, Absorb
  PROVE  IInv'
<1> DEFINE b == merging
           c == block[merging].next_phys
           r == FreeListRemove(Heap, c)
           g == Merge(r, b, c, MergedSize(b, c))
<1>1. b \in DOMAIN block /\ block[b].free /\ c # NULL /\ block[c].free
  BY DEF IInv, Absorb, NextFree
<1>2. c \in DOMAIN block
  BY <1>1, HeapIs DEF IInv, Sound, Tiled
<1>3. r.block = block
  BY <1>1, <1>2, HeapIs, Unlinked, SMTT(20) DEF IInv, Sound
<1>4. /\ Becomes([r EXCEPT
                   !.block = [a \in DOMAIN r.block \ {c} |->
                                IF a = b THEN [block[b] EXCEPT !.size = MergedSize(b, c),
                                                               !.next_phys = block[c].next_phys]
                                         ELSE r.block[a]],
                   !.magic[c] = Other])
      /\ UNCHANGED <<merging, owned, stale>>
  BY DEF Absorb
<1>5. Becomes(g)
  BY <1>3, <1>4, SMT DEF Merge
<1>6. MergedSize(b, c) = Heap.block[b].size + HEADER + Heap.block[c].size
  BY HeapIs DEF MergedSize
<1> HIDE DEF g, r, c
<1>7. /\ b \in DOMAIN Heap.block /\ Heap.block[b].free
      /\ c \in DOMAIN Heap.block /\ Heap.block[c].free /\ Heap.block[b].next_phys = c
  BY <1>1, <1>2, HeapIs, SMTT(20) DEF c
<1>8. /\ g \in HeapType /\ Sound(g) /\ Lent(g, owned) /\ NoNewUsed(Heap, g)
      /\ b \in DOMAIN g.block /\ g.block[b].free
  <2>1. Merges(Heap, b, c, MergedSize(b, c), g)
    BY <1>6, <1>7 DEF Merges, g, r
  <2> QED BY <1>7, <2>1, MergeSound, SMTT(20) DEF IInv
<1>9. Heap' = g /\ magic' = g.magic /\ block' = g.block
  BY <1>5, <1>8, BecomesHeap, SMTT(20) DEF Becomes
<1>10. (Heap \in HeapType)' /\ Sound(Heap)' /\ Lent(Heap, owned)'
  BY <1>4, <1>8, <1>9, SMTT(20)
<1>11. ASSUME NEW q \in stale'
       PROVE  \E a \in Slots : q = a + HEADER /\ magic'[a] # USED
  <2>1. PICK a \in Slots : q = a + HEADER /\ magic[a] # USED
    BY <1>4 DEF IInv
  <2>2. magic'[a] # USED
    BY <1>8, <1>9, <2>1, HeapIs, SMTT(20) DEF NoNewUsed
  <2> QED BY <2>1, <2>2
<1> QED BY <1>4, <1>8, <1>9, <1>10, <1>11, SMTT(20) DEF IInv

LEMMA InitIInv == Init => IInv
<1> SUFFICES ASSUME Init PROVE IInv
  OBVIOUS
<1>1. /\ Heap.init = FALSE /\ Heap.pools = {} /\ Heap.block = [a \in {} |-> NULL]
      /\ Heap.magic = [a \in Slots |-> Other] /\ Heap.list = <<>>
  BY HeapIs DEF Init
<1>2. DOMAIN Heap.block = {} /\ DOMAIN owned = {} /\ stale = {} /\ merging = NULL
  BY <1>1 DEF Init
<1>3. Heap \in HeapType
  <2>1. pools \in PoolSets /\ g_initialized \in BOOLEAN /\ g_free_list \in FreeLists
    <3>1. g_free_list \in FreeLists
      BY SMT DEF Init, FreeLists
    <3> QED BY <3>1 DEF Init, PoolSets
  <2>2. magic \in Magics
    BY DEF Init, Magics
  <2>3. block \in BlockTables
    <3>1. block \in [{} -> BlockHeader] /\ {} \in SUBSET Slots
      BY DEF Init
    <3> QED BY <3>1 DEF BlockTables
  <2> QED BY <2>1, <2>2, <2>3, SMTT(20) DEF Heap, HeapType
<1>4. Tiled(Heap) /\ Marked(Heap) /\ Lent(Heap, owned)
  BY <1>1, <1>2 DEF Tiled, Marked, Lent
<1>5. Listed(Heap)
  <2>1. Injective(Heap.list) /\ ToSet(Heap.list) = {}
    <3>1. Heap.list = <<>> /\ Len(Heap.list) = 0
      BY <1>1
    <3> QED BY <3>1, SMT DEF Injective, ToSet
  <2> QED BY <1>2, <2>1, SMT DEF Listed
<1> QED BY <1>2, <1>3, <1>4, <1>5, SMTT(20) DEF IInv, Sound

LEMMA NextKeeps == IInv /\ [Next]_vars => IInv'
<1> SUFFICES ASSUME IInv, [Next]_vars PROVE IInv'
  OBVIOUS
<1>1. CASE KmallocInit
  <2>1. PICK h \in Initialised(Heap) : Becomes(h)
    BY <1>1 DEF KmallocInit
  <2>2. h \in HeapType /\ Sound(h) /\ Lent(h, owned) /\ NoNewUsed(Heap, h)
    BY InitialisedSound DEF IInv
  <2>3. merging = NULL /\ UNCHANGED <<merging, owned, stale>>
    BY <1>1 DEF KmallocInit, Unlocked
  <2> QED BY <2>1, <2>2, <2>3, QuietStep, SMTT(20)
<1>2. ASSUME NEW n \in Sizes, KmallocOk(n) PROVE IInv'
  BY <1>2, KmallocOkKeeps
<1>3. ASSUME NEW n \in Sizes, KmallocNull(n) PROVE IInv'
  <2>1. PICK h \in Initialised(Heap) : \E g \in Retries(h) : Becomes(g)
    BY <1>3 DEF KmallocNull
  <2>2. PICK g \in Retries(h) : Becomes(g)
    BY <2>1
  <2>3. h \in HeapType /\ Sound(h) /\ Lent(h, owned) /\ NoNewUsed(Heap, h)
    BY InitialisedSound DEF IInv
  <2>4. g \in HeapType /\ Sound(g) /\ Lent(g, owned) /\ NoNewUsed(h, g)
    BY <2>3, RetriesSound, SMTT(20)
  <2>5. NoNewUsed(Heap, g)
    BY <2>3, <2>4, SMT DEF NoNewUsed
  <2>6. merging = NULL /\ UNCHANGED <<merging, owned, stale>>
    BY <1>3 DEF KmallocNull, Unlocked
  <2> QED BY <2>2, <2>4, <2>5, <2>6, QuietStep, SMTT(20)
<1>4. ASSUME NEW p \in DOMAIN owned \cup stale, Kfree(p) PROVE IInv'
  BY <1>4, KfreeKeeps
<1>5. CASE Absorb
  BY <1>5, AbsorbKeeps
<1>6. CASE KfreeReturns
  <2>1. Heap' = Heap /\ UNCHANGED <<owned, stale, magic, block>> /\ merging' = NULL
    BY <1>6 DEF KfreeReturns, Heap
  <2> QED BY <2>1 DEF IInv
<1>7. CASE UNCHANGED vars
  <2>1. Heap' = Heap /\ UNCHANGED <<owned, stale, magic, block, merging>>
    BY <1>7 DEF vars, Heap
  <2> QED BY <2>1 DEF IInv
<1> QED BY <1>1, <1>2, <1>3, <1>4, <1>5, <1>6, <1>7, SMTT(20) DEF Next

\* The inductive invariant holds in every reachable state.
THEOREM Invariance == Spec => []IInv
BY InitIInv, NextKeeps, PTL DEF Spec

\* The heap of mm/kmalloc.c tiles its pools, whatever is allocated, split,
\* freed and merged: no byte is lost, no two blocks overlap, and no block
\* reaches into the next pool.
THEOREM PoolsTiled == Spec => []Tiling
<1>1. IInv => Tiling
  <2> SUFFICES ASSUME IInv PROVE Tiling
    OBVIOUS
  <2>0. Heap \in HeapType /\ Tiled(Heap) /\ Listed(Heap) /\ Lent(Heap, owned)
    BY DEF IInv, Sound
  <2>1. /\ g_initialized \in BOOLEAN /\ pools \subseteq PoolBases
        /\ DOMAIN block \subseteq Slots
        /\ magic \in [Slots -> {FREE, USED, Other}] /\ g_free_list \in Seq(Slots)
    BY <2>0, HeapFields, HeapIs, SMTT(20)
  <2>2. ASSUME NEW a \in DOMAIN block
        PROVE  /\ block[a].size \in Nat /\ block[a].size % KMALLOC_ALIGN = 0
               /\ block[a].next_phys \in DOMAIN block \cup {NULL}
               /\ block[a].free \in BOOLEAN
    BY <2>0, HeapFields, HeapIs, SMTT(20) DEF Tiled
  <2>3. g_free_list \in Seq(DOMAIN block)
    <3>1. \A i \in 1 .. Len(g_free_list) : g_free_list[i] \in ToSet(g_free_list)
      BY <2>1, SMT DEF ToSet
    <3>2. ToSet(g_free_list) \subseteq DOMAIN block
      BY <2>0, HeapIs DEF Listed
    <3>3. \A i \in 1 .. Len(g_free_list) : g_free_list[i] \in DOMAIN block
      BY <3>1, <3>2
    <3> QED BY <2>1, <3>3, SMT
  <2>4. merging \in DOMAIN block \cup {NULL}
    BY DEF IInv
  <2>5. /\ DOMAIN owned \subseteq {a + HEADER : a \in DOMAIN block}
        /\ \A p \in DOMAIN owned : owned[p] \in Sizes
    BY <2>0, HeapIs DEF Lent
  <2>6. TypeOK
    BY <2>1, <2>2, <2>3, <2>4, <2>5, SMTT(20) DEF TypeOK
  <2>7. \A a : End(a) = Stop(Heap, a)
    BY HeapIs DEF End, Stop
  <2>8. ASSUME NEW a \in DOMAIN block
        PROVE  \E b \in pools :
                 /\ b <= a /\ End(a) <= b + KMALLOC_POOL_SIZE
                 /\ IF block[a].next_phys = NULL THEN End(a) = b + KMALLOC_POOL_SIZE
                                                 ELSE block[a].next_phys = End(a)
    <3>1. PICK b \in pools : Fitted(Heap, a, b)
      BY <2>0, HeapIs DEF Tiled
    <3>2. block[a].next_phys = NULL => End(a) = b + KMALLOC_POOL_SIZE
      <4> SUFFICES ASSUME block[a].next_phys = NULL, End(a) # b + KMALLOC_POOL_SIZE
                   PROVE  FALSE
        OBVIOUS
      <4>1. NULL = End(a) /\ End(a) <= b + KMALLOC_POOL_SIZE /\ b <= a
        BY <2>7, <3>1, HeapIs, SMTT(20) DEF Fitted
      <4>2. /\ b \in PoolBases /\ b \in Nat /\ a \in Nat /\ End(a) \in Nat /\ a < End(a)
            /\ KMALLOC_POOL_SIZE \in Nat
        BY <2>0, <2>1, <2>7, HeapIs, HeapNumbers, PoolNumbers, SMTT(20)
      <4>3. NULL \in b .. b + KMALLOC_POOL_SIZE - 1
        BY <4>1, <4>2, SMTT(20)
      <4> QED BY <4>2, <4>3, KmallocAssumption, SMTT(20)
    <3>3. block[a].next_phys # NULL => block[a].next_phys = End(a)
      BY <2>7, <3>1, HeapIs, SMTT(20) DEF Fitted
    <3>4. b <= a /\ End(a) <= b + KMALLOC_POOL_SIZE
      BY <2>7, <3>1 DEF Fitted
    <3> QED BY <3>2, <3>3, <3>4, SMTT(20)
  <2>9. pools \subseteq DOMAIN block /\ \A a, c \in DOMAIN block : a < c => End(a) <= c
    BY <2>0, <2>7, HeapIs, ZenonT(30) DEF Tiled
  <2> QED BY <2>6, <2>8, <2>9, SMTT(20) DEF Tiling
<1> QED BY <1>1, Invariance, PTL

\* The free list of mm/kmalloc.c holds each free block once and nothing else,
\* and free, magic and the pointers callers hold agree.
THEOREM FreeListIsExact == Spec => []FreeListExact
<1>1. IInv => FreeListExact
  <2> SUFFICES ASSUME IInv PROVE FreeListExact
    OBVIOUS
  <2>1. Heap \in HeapType /\ Listed(Heap) /\ Marked(Heap) /\ Lent(Heap, owned)
    BY DEF IInv, Sound
  <2>2. g_free_list \in Seq(Slots) /\ Injective(g_free_list)
    BY <2>1, HeapFields, HeapIs, SMTT(20) DEF Listed
  <2>3. Len(g_free_list) = Cardinality(ToSet(g_free_list))
    BY <2>2, InjectiveCount
  <2>4. ToSet(g_free_list) = {a \in DOMAIN block : block[a].free}
    BY <2>1, HeapIs DEF Listed
  <2>5. \A a \in DOMAIN block :
          /\ block[a].free <=> a + HEADER \notin DOMAIN owned
          /\ magic[a] = IF block[a].free THEN FREE ELSE USED
    BY <2>1, HeapIs DEF Lent, Marked
  <2> QED BY <2>3, <2>4, <2>5, SMTT(20) DEF FreeListExact
<1> QED BY <1>1, Invariance, PTL

\* kfree of a pointer that was freed before finds no header marked USED, as
\* long as nobody has been given the bytes of that header.
THEOREM DoubleFreeCaught == Spec => []StaleCaught
<1>1. IInv => StaleCaught
  <2> SUFFICES ASSUME IInv, NEW p \in stale PROVE magic[p - HEADER] # USED
    BY DEF StaleCaught
  <2>1. PICK a \in Slots : p = a + HEADER /\ magic[a] # USED
    BY DEF IInv
  <2>2. p - HEADER = a
    BY <2>1, SlotIs, PoolNumbers, SMTT(20)
  <2> QED BY <2>1, <2>2
<1> QED BY <1>1, Invariance, PTL

\* A live pointer whose size wraps is none of the regions.
LEMMA RegionsAre ==
  /\ DOMAIN Regions = {q \in DOMAIN owned : ~Wraps(owned[q])}
  /\ \A q \in DOMAIN Regions : Regions[q] = owned[q]
BY DEF Regions

\* A successful kmalloc gives its caller a new pointer.
LEMMA KmallocOkOwns ==
  ASSUME IInv, NEW n \in Sizes, KmallocOk(n)
  PROVE  \E b : /\ b + HEADER \notin DOMAIN owned
                /\ owned' = Owning(owned, b + HEADER, n)
<1>1. \E g \in HeapType : \E b \in DOMAIN g.block :
        /\ Lent(g, owned) /\ g.block[b].free
        /\ owned' = Owning(owned, b + HEADER, n)
  BY KmallocOkIs
<1> QED BY <1>1 DEF Lent

\* If its size wraps, the regions are the ones that were there before.
LEMMA WrappedIsNoRegion ==
  ASSUME IInv, NEW n \in Sizes, KmallocOk(n), Wraps(n)
  PROVE  Regions' = Regions
<1>1. PICK b : b + HEADER \notin DOMAIN owned /\ owned' = Owning(owned, b + HEADER, n)
  BY KmallocOkOwns
<1> DEFINE p == b + HEADER
<1>2. /\ DOMAIN owned' = DOMAIN owned \cup {p} /\ owned'[p] = n /\ p \notin DOMAIN owned
      /\ \A q \in DOMAIN owned : owned'[q] = owned[q]
  BY <1>1 DEF Owning
<1> HIDE DEF p
<1>3. {q \in DOMAIN owned' : ~Wraps(owned'[q])} = {q \in DOMAIN owned : ~Wraps(owned[q])}
  BY <1>2
<1>4. \A q \in {r \in DOMAIN owned : ~Wraps(owned[r])} : owned'[q] = owned[q]
  BY <1>2
<1> QED BY <1>3, <1>4 DEF Regions

\* If it does not, this is an allocation of the abstract allocator.
LEMMA KmallocOkAllocates ==
  ASSUME IInv, IInv', NEW n \in Sizes, KmallocOk(n), ~Wraps(n)
  PROVE  Allocator!Next
<1>2. PICK b : b + HEADER \notin DOMAIN owned /\ owned' = Owning(owned, b + HEADER, n)
  BY KmallocOkOwns
<1> DEFINE p == b + HEADER
           Memory == UNION {c .. c + KMALLOC_POOL_SIZE - 1 : c \in PoolBases}
<1>3. /\ DOMAIN owned' = DOMAIN owned \cup {p} /\ owned'[p] = n /\ p \notin DOMAIN owned
      /\ \A q \in DOMAIN owned : owned'[q] = owned[q]
  BY <1>2 DEF Owning
<1>0. p = b + HEADER
  OBVIOUS
<1> HIDE DEF p
<1>4. Heap' \in HeapType /\ Tiled(Heap') /\ Lent(Heap', owned')
  BY DEF IInv, Sound
<1>5. PICK a \in DOMAIN Heap'.block : p = a + HEADER /\ n <= Heap'.block[a].size
  BY <1>3, <1>4 DEF Lent, Holds
<1>6. /\ a \in Nat /\ a % KMALLOC_ALIGN = 0 /\ HEADER \in Nat /\ n \in Nat \ {0}
      /\ Heap'.block[a].size \in Nat /\ Stop(Heap', a) \in Nat
  BY <1>4, HeapNumbers, PoolNumbers, SizeIs, SMTT(20)
<1>7. p % KMALLOC_ALIGN = 0
  BY <1>5, <1>6, Multiples, PoolNumbers, SMTT(20)
<1>8. p \in Nat /\ a < p /\ p + n <= Stop(Heap', a)
  BY <1>5, <1>6, PoolNumbers, SMTT(20) DEF Stop
<1>9. PICK c \in Heap'.pools : c <= a /\ Stop(Heap', a) <= c + KMALLOC_POOL_SIZE
  BY <1>4 DEF Tiled, Fitted
<1>10. c \in PoolBases /\ c \in Nat
  BY <1>4, HeapFields, PoolNumbers
<1>11. p .. p + n - 1 \subseteq c .. c + KMALLOC_POOL_SIZE - 1
  BY <1>6, <1>8, <1>9, <1>10, PoolNumbers, SMTT(20)
<1>12. p .. p + n - 1 \subseteq Memory
  BY <1>10, <1>11
<1>13. p \in Memory
  <2>1. p \in p .. p + n - 1
    BY <1>6, <1>8, SMTT(20)
  <2> QED BY <1>12, <2>1
<1>14. ASSUME NEW q \in DOMAIN owned, ~Wraps(owned[q])
       PROVE  (p .. p + n - 1) \cap (q .. q + owned[q] - 1) = {}
  <2>1. PICK d \in DOMAIN Heap'.block :
          q = d + HEADER /\ owned[q] \in Sizes /\ owned[q] <= Heap'.block[d].size
    BY <1>3, <1>4, <1>14 DEF Lent, Holds
  <2>2. /\ d \in Nat /\ owned[q] \in Nat /\ Heap'.block[d].size \in Nat
        /\ Stop(Heap', d) \in Nat
    BY <1>4, <2>1, HeapNumbers, SizeIs
  <2>3. d # a
    BY <1>3, <1>5, <2>1, SMTT(20)
  <2>4. (a < d => Stop(Heap', a) <= d) /\ (d < a => Stop(Heap', d) <= a)
    BY <1>4 DEF Tiled
  <2>5. q \in Nat /\ d < q /\ q + owned[q] <= Stop(Heap', d)
    BY <1>6, <2>1, <2>2, PoolNumbers, SMTT(20) DEF Stop
  <2>6. p + n <= q \/ q + owned[q] <= p
    BY <1>6, <1>8, <2>2, <2>3, <2>4, <2>5, SMTT(20)
  <2> QED BY <1>6, <1>8, <2>2, <2>5, <2>6, SMTT(20)
<1>15. \A q \in DOMAIN Regions : (p .. p + n - 1) \cap (q .. q + Regions[q] - 1) = {}
  BY <1>14, RegionsAre
<1>16. Regions' = [q \in DOMAIN Regions \cup {p} |-> IF q = p THEN n ELSE Regions[q]]
  <2>1. {q \in DOMAIN owned' : ~Wraps(owned'[q])}
          = {q \in DOMAIN owned : ~Wraps(owned[q])} \cup {p}
    BY <1>3
  <2>2. \A q \in {r \in DOMAIN owned : ~Wraps(owned[r])} \cup {p} :
          owned'[q] = IF q = p THEN n ELSE Regions[q]
    BY <1>3, RegionsAre
  <2>3. Regions' = [q \in {r \in DOMAIN owned' : ~Wraps(owned'[r])} |-> owned'[q]]
    BY DEF Regions
  <2> QED BY <2>1, <2>2, <2>3, RegionsAre, SMTT(20)
<1>17. Allocator!Alloc(p, n)
  BY <1>7, <1>12, <1>15, <1>16, SMTT(20) DEF Allocator!Alloc, Allocator!Bytes
<1> QED BY <1>13, <1>17 DEF Allocator!Next

\* kfree gives a region back, or a pointer that is none.
LEMMA KfreeFrees ==
  ASSUME IInv, NEW p \in DOMAIN owned \cup stale, Kfree(p)
  PROVE  Allocator!Next \/ UNCHANGED Regions
<1>1. p \in DOMAIN owned
  BY KfreeIs, SMT
<1>2. /\ DOMAIN owned' = DOMAIN owned \ {p}
      /\ \A q \in DOMAIN owned' : owned'[q] = owned[q]
  BY DEF Kfree
<1>3. Regions' = [q \in DOMAIN Regions \ {p} |-> Regions[q]]
  <2>1. {q \in DOMAIN owned' : ~Wraps(owned'[q])}
          = {q \in DOMAIN owned : ~Wraps(owned[q])} \ {p}
    <3>1. \A q : q \in DOMAIN owned' /\ ~Wraps(owned'[q])
                   <=> q \in DOMAIN owned /\ ~Wraps(owned[q]) /\ q # p
      BY <1>2
    <3> QED BY <3>1
  <2>2. \A q \in {r \in DOMAIN owned : ~Wraps(owned[r])} \ {p} : owned'[q] = Regions[q]
    BY <1>2, RegionsAre
  <2>3. Regions' = [q \in {r \in DOMAIN owned' : ~Wraps(owned'[r])} |-> owned'[q]]
    BY DEF Regions
  <2> QED BY <2>1, <2>2, <2>3, RegionsAre, SMTT(20)
<1>4. CASE p \in DOMAIN Regions
  <2>1. Allocator!Free(p)
    BY <1>3 DEF Allocator!Free
  <2> QED BY <1>4, <2>1 DEF Allocator!Next
<1>5. CASE p \notin DOMAIN Regions
  <2>1. DOMAIN Regions \ {p} = DOMAIN Regions
    BY <1>5
  <2>2. Regions = [q \in DOMAIN Regions |-> Regions[q]]
    BY DEF Regions
  <2> QED BY <1>3, <2>1, <2>2
<1> QED BY <1>4, <1>5

\* kmalloc and kfree implement the abstract allocator: what callers are given
\* is aligned, lies in the pools, and overlaps no other live region, for every
\* size that align_up_sz can round up in a size_t.  Blocks given to callers
\* whose size wraps are there too, and disturb nobody's region.
THEOREM ImplementsAllocator == Spec => Refinement
<1>1. Init => Allocator!Init
  BY DEF Init, Allocator!Init, Regions
<1>2. IInv /\ IInv' /\ [Next]_vars => [Allocator!Next]_Regions
  <2> SUFFICES ASSUME IInv, IInv', [Next]_vars PROVE Allocator!Next \/ UNCHANGED Regions
    OBVIOUS
  <2>0. UNCHANGED owned => UNCHANGED Regions
    BY DEF Regions
  <2>1. CASE KmallocInit
    BY <2>0, <2>1 DEF KmallocInit
  <2>2. ASSUME NEW n \in Sizes, KmallocOk(n) PROVE Allocator!Next \/ UNCHANGED Regions
    BY <2>2, KmallocOkAllocates, WrappedIsNoRegion
  <2>3. ASSUME NEW n \in Sizes, KmallocNull(n) PROVE UNCHANGED Regions
    BY <2>0, <2>3 DEF KmallocNull
  <2>4. ASSUME NEW p \in DOMAIN owned \cup stale, Kfree(p)
        PROVE  Allocator!Next \/ UNCHANGED Regions
    BY <2>4, KfreeFrees
  <2>5. CASE Absorb
    BY <2>0, <2>5 DEF Absorb
  <2>6. CASE KfreeReturns
    BY <2>0, <2>6 DEF KfreeReturns
  <2>7. CASE UNCHANGED vars
    BY <2>0, <2>7 DEF vars
  <2> HIDE DEF Regions
  <2> QED BY <2>1, <2>2, <2>3, <2>4, <2>5, <2>6, <2>7 DEF Next
<1> QED BY <1>1, <1>2, Invariance, PTL DEF Spec, Refinement, Allocator!Spec
=============================================================================
