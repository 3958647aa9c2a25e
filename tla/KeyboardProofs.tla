--------------------------- MODULE KeyboardProofs ---------------------------
(***************************************************************************)
(* Proofs about the keyboard driver, drivers/IO/ps2_keyboard.c, for any    *)
(* machine, any number of CPUs and any listeners: the list of listeners    *)
(* is in order, and an interrupt finds its byte and calls every listener.  *)
(***************************************************************************)
EXTENDS Keyboard, WellFoundedInduction, TLAPS

\* A leaf is for Zenon unless it names another prover.
USE Zenon

-----------------------------------------------------------------------------
(* The list of listeners.                                                  *)

\* A set of natural numbers that is not empty has a smallest element.
LEMMA Least ==
  ASSUME NEW T, T \subseteq Nat, T # {}
  PROVE  \E x \in T : \A y \in T : x <= y
<1>1. IsWellFoundedOn(OpToRel(<,Nat), Nat)
  BY NatLessThanWellFounded
<1>2. \E x \in T : \A y \in T : ~(<<y, x>> \in OpToRel(<,Nat))
  BY <1>1, WFMin
<1>3. \A x, y \in Nat : y < x => <<y, x>> \in OpToRel(<,Nat)
  BY DEF OpToRel
<1>4. \E x \in T : \A y \in T : ~(y < x)
  BY <1>2, <1>3
<1> QED BY <1>4, SMT

\* A sequence after x is put in at position i, and what it then holds.
With(s, i, x) == SubSeq(s, 1, i - 1) \o <<x>> \o SubSeq(s, i, Len(s))

LEMMA Inserted ==
  ASSUME NEW S, NEW s \in Seq(S), NEW x \in S, NEW i \in 1..(Len(s) + 1)
  PROVE  /\ With(s, i, x) \in Seq(S)
         /\ Len(With(s, i, x)) = Len(s) + 1
         /\ \A j \in 1..(Len(s) + 1) :
              With(s, i, x)[j] = IF j < i THEN s[j] ELSE IF j = i THEN x ELSE s[j - 1]
<1> DEFINE a == SubSeq(s, 1, i - 1)
           b == SubSeq(s, i, Len(s))
           m == a \o <<x>>
<1>0. Len(s) \in Nat /\ i \in Nat /\ 1 <= i /\ i <= Len(s) + 1
  BY SMT
<1>1. a \in Seq(S) /\ Len(a) = i - 1 /\ \A j \in 1..(i - 1) : a[j] = s[j]
  BY <1>0, SMT
<1>2. b \in Seq(S) /\ Len(b) = Len(s) - i + 1 /\ \A j \in 1..(Len(s) - i + 1) : b[j] = s[i + j - 1]
  BY <1>0, SMT
<1> HIDE DEF a, b
<1>3. m \in Seq(S) /\ Len(m) = i /\ m[i] = x /\ \A j \in 1..(i - 1) : m[j] = s[j]
  <2>1. a \in Seq(S) /\ <<x>> \in Seq(S) /\ Len(<<x>>) = 1 /\ <<x>>[1] = x
    BY <1>1, SMT
  <2>2. m \in Seq(S) /\ Len(m) = Len(a) + 1
    BY <2>1, SMT
  <2>3. \A j \in 1..(Len(a) + 1) : m[j] = IF j <= Len(a) THEN a[j] ELSE <<x>>[j - Len(a)]
    BY <2>1, SMT
  <2> HIDE DEF m
  <2> QED BY <1>0, <1>1, <2>1, <2>2, <2>3, SMT
<1> HIDE DEF m
<1>4. m \o b \in Seq(S) /\ Len(m \o b) = Len(s) + 1
  <2>1. m \in Seq(S) /\ b \in Seq(S)
    BY <1>2, <1>3
  <2>2. m \o b \in Seq(S) /\ Len(m \o b) = Len(m) + Len(b)
    BY <2>1, SMT
  <2>3. Len(m) + Len(b) = Len(s) + 1
    BY <1>0, <1>2, <1>3, SMT
  <2> QED BY <2>2, <2>3
<1>5. ASSUME NEW j \in 1..(Len(s) + 1)
      PROVE  (m \o b)[j] = IF j < i THEN s[j] ELSE IF j = i THEN x ELSE s[j - 1]
  <2>1. m \in Seq(S) /\ b \in Seq(S) /\ j \in 1..(Len(m) + Len(b))
    BY <1>0, <1>2, <1>3, SMT
  <2>2. (m \o b)[j] = IF j <= Len(m) THEN m[j] ELSE b[j - Len(m)]
    BY <2>1, SMT
  <2>3. CASE j <= i
    BY <1>0, <1>3, <2>2, <2>3, SMT
  <2>4. CASE i < j
    <3> DEFINE k == j - i
    <3>1. k \in 1..(Len(s) - i + 1) /\ i + k - 1 = j - 1 /\ ~(j <= Len(m)) /\ j - Len(m) = k
      BY <1>0, <1>3, <2>4, SMT
    <3> HIDE DEF k
    <3>2. b[k] = s[i + k - 1]
      BY <1>2, <3>1
    <3> QED BY <1>0, <2>2, <2>4, <3>1, <3>2, SMT
  <2>5. j <= i \/ i < j
    BY <1>0, SMT
  <2> QED BY <2>3, <2>4, <2>5
<1>6. With(s, i, x) = m \o b
  BY DEF With, m, a, b
<1> QED BY <1>4, <1>5, <1>6

\* ... and after position i is taken out.
Without(s, i) == SubSeq(s, 1, i - 1) \o SubSeq(s, i + 1, Len(s))

LEMMA Removed ==
  ASSUME NEW S, NEW s \in Seq(S), NEW i \in 1..Len(s)
  PROVE  /\ Without(s, i) \in Seq(S)
         /\ Len(Without(s, i)) = Len(s) - 1
         /\ \A j \in 1..(Len(s) - 1) : Without(s, i)[j] = IF j < i THEN s[j] ELSE s[j + 1]
<1> DEFINE a == SubSeq(s, 1, i - 1)
           b == SubSeq(s, i + 1, Len(s))
<1>0. Len(s) \in Nat /\ i \in Nat /\ 1 <= i /\ i <= Len(s)
  BY SMT
<1>1. a \in Seq(S) /\ Len(a) = i - 1 /\ \A j \in 1..(i - 1) : a[j] = s[j]
  BY <1>0, SMT
<1>2. b \in Seq(S) /\ Len(b) = Len(s) - i /\ \A j \in 1..(Len(s) - i) : b[j] = s[i + j]
  BY <1>0, SMT
<1> HIDE DEF a, b
<1>3. a \o b \in Seq(S) /\ Len(a \o b) = Len(s) - 1
  <2>1. a \in Seq(S) /\ b \in Seq(S)
    BY <1>1, <1>2
  <2>2. a \o b \in Seq(S) /\ Len(a \o b) = Len(a) + Len(b)
    BY <2>1, SMT
  <2>3. Len(a) + Len(b) = Len(s) - 1
    BY <1>0, <1>1, <1>2, SMT
  <2> QED BY <2>2, <2>3
<1>4. ASSUME NEW j \in 1..(Len(s) - 1)
      PROVE  (a \o b)[j] = IF j < i THEN s[j] ELSE s[j + 1]
  <2>1. a \in Seq(S) /\ b \in Seq(S) /\ j \in 1..(Len(a) + Len(b))
    BY <1>0, <1>1, <1>2, SMT
  <2>2. (a \o b)[j] = IF j <= Len(a) THEN a[j] ELSE b[j - Len(a)]
    BY <2>1, SMT
  <2>3. CASE j < i
    BY <1>0, <1>1, <2>2, <2>3, SMT
  <2>4. CASE i <= j
    <3> DEFINE k == j - (i - 1)
    <3>1. k \in 1..(Len(s) - i) /\ i + k = j + 1 /\ ~(j <= Len(a)) /\ j - Len(a) = k
      BY <1>0, <1>1, <2>4, SMT
    <3> HIDE DEF k
    <3>2. b[k] = s[i + k]
      BY <1>2, <3>1
    <3> QED BY <1>0, <2>2, <2>4, <3>1, <3>2, SMT
  <2>5. j < i \/ i <= j
    BY <1>0, SMT
  <2> QED BY <2>3, <2>4, <2>5
<1>5. Without(s, i) = a \o b
  BY DEF Without, a, b
<1> QED BY <1>3, <1>4, <1>5

-----------------------------------------------------------------------------
(* The inductive invariant.                                                *)

\* An interrupt being served; once the handler has called the listeners the
\* fields of the call stay behind.
Serving ==
  {None} \cup [pc : {"lock", "read", "eoi"}]
         \cup [pc : {"call", "eoi"},
               event : [e0_prefix : BOOLEAN, pressed : BOOLEAN, keycode : Nat],
               read : BOOLEAN \X Codes,
               listener : Listeners \cup {NULL},
               called : Seq(Listeners)]

Calling ==
  {Idle} \cup [pc : {"spin", "held"}, op : {"register", "unregister"}, listener : Listeners]

\* Every variable of the driver has its type.
Typed ==
  /\ machine \in Machines
  /\ obf \in [code : Codes, when : TypingSteps, after : BOOLEAN] \cup {NULL}
  /\ irr \in [CPUs -> BOOLEAN]
  /\ g_kbd_lock \in (CPUs \X {"isr", "thread"}) \cup {NULL}
  /\ g_kbd_list \in Seq(Listeners)
  /\ g_e0_prefix \in BOOLEAN
  /\ last \in BOOLEAN
  /\ isr \in [CPUs -> Serving]
  /\ t \in [CPUs -> Calling]

\* The lock is held by the context that is between its lock and its unlock.
LockHeld ==
  \A c \in CPUs :
    /\ (g_kbd_lock = <<c, "isr">>) <=> (isr[c].pc \in {"read", "call"})
    /\ (g_kbd_lock = <<c, "thread">>) <=> (t[c].pc = "held")

\* An interrupt that was sent for a byte and has not read it yet.
Due(c) == irr[c] \/ isr[c].pc \in {"lock", "read"}

\* There is at most one, and its byte is still in the buffer.
OneDue ==
  /\ \A c \in CPUs : Due(c) => obf # NULL
  /\ \A c \in CPUs : ~(irr[c] /\ isr[c].pc \in {"lock", "read"})
  /\ \A c, d \in CPUs : Due(c) /\ Due(d) => c = d

\* The list is in order of priority and links no listener twice.
Ordered(list) ==
  \A i, j \in 1..Len(list) :
    i < j => list[i] # list[j] /\ machine.prio[list[i]] >= machine.prio[list[j]]

\* The handler has called the first listeners of the list and the next one
\* is its listener.
HalfWay(c) ==
  LET done == isr[c].called
  IN  /\ Len(done) <= Len(g_kbd_list)
      /\ \A i \in 1..Len(done) : done[i] = g_kbd_list[i]
      /\ isr[c].listener = IF Len(done) = Len(g_kbd_list) THEN NULL
                           ELSE g_kbd_list[Len(done) + 1]

\* Its event is the byte it read, after the byte before.
RightEvent(c) ==
  isr[c].event = [e0_prefix |-> isr[c].read[1], pressed |-> isr[c].read[2] \in 0..127,
                  keycode |-> isr[c].read[2] % 128]

Calls == \A c \in CPUs : isr[c].pc = "call" => HalfWay(c) /\ RightEvent(c)

\* g_e0_prefix is what the keyboard sent before the byte to be read next.
PrefixKept ==
  IF obf = NULL THEN g_e0_prefix = last
  ELSE g_e0_prefix = obf.after /\ last = (obf.code = PREFIX)

IInv ==
  /\ Typed
  /\ LockHeld
  /\ OneDue
  /\ Ordered(g_kbd_list)
  /\ PrefixKept
  /\ Calls

-----------------------------------------------------------------------------
(* Registering and unregistering keep the list in order.                   *)

\* kbd_register_listener links a listener behind those of its priority and
\* before those of a lower one, or leaves the list alone if it is linked.
LEMMA RegisteredOrdered ==
  ASSUME machine \in Machines, g_kbd_list \in Seq(Listeners), Ordered(g_kbd_list),
         NEW l \in Listeners
  PROVE  Registered(l) \in Seq(Listeners) /\ Ordered(Registered(l))
<1> DEFINE L == g_kbd_list
           prio == machine.prio
           n == Len(L)
           at == IF Stops(l) = {} THEN n + 1
                 ELSE CHOOSE i \in Stops(l) : \A j \in Stops(l) : i <= j
           r == With(L, at, l)
<1>1. prio \in [Listeners -> Int]
  BY KeyboardAssumption
<1>2. n \in Nat /\ \A i \in 1..n : L[i] \in Listeners /\ prio[L[i]] \in Int
  BY <1>1, SMT
<1>3. \A i : i \in Stops(l) <=> i \in 1..n /\ (L[i] = l \/ prio[L[i]] < prio[l])
  BY SMT DEF Stops
<1>4. /\ at \in 1..(n + 1)
      /\ at \in 1..n => at \in Stops(l)
      /\ \A j \in 1..n : j < at => j \notin Stops(l)
  <2>1. CASE Stops(l) = {}
    BY <1>2, <2>1, SMT
  <2>2. CASE Stops(l) # {}
    <3>1. Stops(l) \subseteq Nat
      BY <1>2, <1>3, SMT
    <3>2. \E i \in Stops(l) : \A j \in Stops(l) : i <= j
      BY <2>2, <3>1, Least
    <3>3. at \in Stops(l) /\ \A j \in Stops(l) : at <= j
      BY <2>2, <3>2
    <3> HIDE DEF at
    <3> QED BY <1>2, <1>3, <3>3, SMT
  <2> QED BY <2>1, <2>2
<1>5. Registered(l) = IF at \in 1..n /\ L[at] = l THEN L ELSE r
  BY SMT DEF Registered, With
<1>6. CASE at \in 1..n /\ L[at] = l
  BY <1>5, <1>6
<1>7. CASE ~(at \in 1..n /\ L[at] = l)
  <2>1. /\ r \in Seq(Listeners)
        /\ Len(r) = n + 1
        /\ \A j \in 1..(n + 1) : r[j] = IF j < at THEN L[j] ELSE IF j = at THEN l ELSE L[j - 1]
    <3> HIDE DEF at
    <3> QED BY <1>4, Inserted, SMT
  <2> HIDE DEF r, at
  <2>2. \A j \in 1..n : j < at => L[j] # l /\ prio[L[j]] >= prio[l]
    BY <1>1, <1>2, <1>3, <1>4, SMT
  <2>3. \A j \in 1..n : at <= j => prio[L[j]] < prio[l]
    <3> SUFFICES ASSUME NEW j \in 1..n, at <= j
                 PROVE  prio[L[j]] < prio[l]
      OBVIOUS
    <3>1. at \in 1..n
      BY <1>2, <1>4, SMT
    <3>2. prio[L[at]] < prio[l]
      BY <1>3, <1>4, <1>7, <3>1
    <3>3. at < j => prio[L[at]] >= prio[L[j]]
      BY <3>1 DEF Ordered
    <3> QED BY <1>1, <1>2, <3>1, <3>2, <3>3, SMT
  <2>4. \A j \in 1..n : at <= j => L[j] # l
    BY <1>1, <2>3, SMT
  <2>5. ASSUME NEW i \in 1..Len(r), NEW j \in 1..Len(r), i < j
        PROVE  r[i] # r[j] /\ prio[r[i]] >= prio[r[j]]
    <3>0. i \in 1..(n + 1) /\ j \in 1..(n + 1) /\ i \in Nat /\ j \in Nat /\ at \in Nat
      BY <1>2, <1>4, <2>1, SMT
    <3>1. CASE j < at
      <4>1. i \in 1..n /\ j \in 1..n /\ r[i] = L[i] /\ r[j] = L[j]
        BY <1>2, <1>4, <2>1, <2>5, <3>0, <3>1, SMT
      <4> QED BY <2>5, <4>1 DEF Ordered
    <3>2. CASE j = at
      <4>1. i \in 1..n /\ i < at /\ r[i] = L[i] /\ r[j] = l
        BY <1>2, <1>4, <2>1, <2>5, <3>0, <3>2, SMT
      <4> QED BY <2>2, <4>1
    <3>3. CASE at < j /\ i < at
      <4>1. i \in 1..n /\ j - 1 \in 1..n /\ i < j - 1 /\ r[i] = L[i] /\ r[j] = L[j - 1]
        BY <1>2, <1>4, <2>1, <2>5, <3>0, <3>3, SMT
      <4> QED BY <4>1 DEF Ordered
    <3>4. CASE i = at
      <4>1. j - 1 \in 1..n /\ at <= j - 1 /\ r[i] = l /\ r[j] = L[j - 1]
        BY <1>2, <1>4, <2>1, <2>5, <3>0, <3>4, SMT
      <4>2. prio[L[j - 1]] < prio[l] /\ L[j - 1] # l
        BY <2>3, <2>4, <4>1
      <4> QED BY <1>1, <1>2, <4>1, <4>2, SMT
    <3>5. CASE at < i
      <4>1. i - 1 \in 1..n /\ j - 1 \in 1..n /\ i - 1 < j - 1 /\ r[i] = L[i - 1] /\ r[j] = L[j - 1]
        BY <1>2, <1>4, <2>1, <2>5, <3>0, <3>5, SMT
      <4> QED BY <4>1 DEF Ordered
    <3> QED BY <3>0, <3>1, <3>2, <3>3, <3>4, <3>5, SMT
  <2>6. Ordered(r)
    BY <2>5 DEF Ordered
  <2> QED BY <1>5, <1>7, <2>1, <2>6
<1> QED BY <1>6, <1>7

\* kbd_unregister_listener takes one link out.
LEMMA UnregisteredOrdered ==
  ASSUME machine \in Machines, g_kbd_list \in Seq(Listeners), Ordered(g_kbd_list),
         NEW l \in Listeners
  PROVE  /\ Unregistered(l) \in Seq(Listeners)
         /\ Ordered(Unregistered(l))
         /\ \A i \in 1..Len(Unregistered(l)) : Unregistered(l)[i] # l
<1> DEFINE L == g_kbd_list
           n == Len(L)
           links == {i \in DOMAIN L : L[i] = l}
           at == CHOOSE i \in links : \A j \in links : i <= j
           r == Without(L, at)
<1>1. n \in Nat
  BY SMT
<1>2. Unregistered(l) = IF links = {} THEN L ELSE r
  BY DEF Unregistered, Without
<1>3. CASE links = {}
  BY <1>2, <1>3, SMT
<1>4. CASE links # {}
  <2>1. links \subseteq Nat
    BY <1>1, SMT
  <2>2. \E i \in links : \A j \in links : i <= j
    <3> HIDE DEF links
    <3> QED BY <1>4, <2>1, Least
  <2>3. at \in links
    BY <2>2
  <2> HIDE DEF at
  <2>4. at \in 1..n /\ L[at] = l
    BY <2>3, SMT
  <2>5. /\ r \in Seq(Listeners)
        /\ Len(r) = n - 1
        /\ \A j \in 1..(n - 1) : r[j] = IF j < at THEN L[j] ELSE L[j + 1]
    BY <2>4, Removed
  <2> HIDE DEF r, links
  <2>6. ASSUME NEW j \in 1..Len(r)
        PROVE  \E k \in 1..n : k # at /\ r[j] = L[k] /\ k = IF j < at THEN j ELSE j + 1
    <3>0. j \in 1..(n - 1) /\ j \in Nat /\ at \in Nat
      BY <1>1, <2>4, <2>5, SMT
    <3>1. CASE j < at
      BY <1>1, <2>4, <2>5, <3>0, <3>1, SMT
    <3>2. CASE at <= j
      BY <1>1, <2>4, <2>5, <3>0, <3>2, SMT
    <3> QED BY <3>0, <3>1, <3>2, SMT
  <2>7. \A j \in 1..Len(r) : r[j] # l
    <3> SUFFICES ASSUME NEW j \in 1..Len(r)
                 PROVE  r[j] # l
      OBVIOUS
    <3>1. PICK k \in 1..n : k # at /\ r[j] = L[k]
      BY <2>6
    <3>2. k < at \/ at < k
      BY <1>1, <2>4, <3>1, SMT
    <3> QED BY <2>4, <3>1, <3>2 DEF Ordered
  <2>8. Ordered(r)
    <3> SUFFICES ASSUME NEW i \in 1..Len(r), NEW j \in 1..Len(r), i < j
                 PROVE  r[i] # r[j] /\ machine.prio[r[i]] >= machine.prio[r[j]]
      BY DEF Ordered
    <3>0. Len(r) \in Nat
      BY <2>5, SMT
    <3>1. PICK k \in 1..n : r[i] = L[k] /\ k = IF i < at THEN i ELSE i + 1
      BY <2>6
    <3>2. PICK m \in 1..n : r[j] = L[m] /\ m = IF j < at THEN j ELSE j + 1
      BY <2>6
    <3>3. k < m
      BY <2>4, <3>0, <3>1, <3>2, SMT
    <3> QED BY <3>1, <3>2, <3>3 DEF Ordered
  <2> QED BY <1>2, <1>4, <2>5, <2>7, <2>8
<1> QED BY <1>3, <1>4

\* The listener linked after the one at position i.
LEMMA NextIs ==
  ASSUME g_kbd_list \in Seq(Listeners), Ordered(g_kbd_list), NEW i \in 1..Len(g_kbd_list)
  PROVE  NextOf(g_kbd_list[i]) = IF i = Len(g_kbd_list) THEN NULL ELSE g_kbd_list[i + 1]
<1> DEFINE L == g_kbd_list
           n == Len(L)
           at == {k \in 1..(n - 1) : L[k] = L[i]}
<1>1. n \in Nat
  BY SMT
<1>2. \A k \in 1..n : L[k] = L[i] => k = i
  BY <1>1, SMT DEF Ordered
<1>3. NextOf(L[i]) = IF at = {} THEN NULL ELSE L[(CHOOSE k \in at : TRUE) + 1]
  BY DEF NextOf
<1>4. CASE i = n
  <2>1. at = {}
    BY <1>1, <1>2, <1>4, SMT
  <2> QED BY <1>3, <1>4, <2>1
<1>5. CASE i # n
  <2>1. i \in at /\ \A k \in at : k = i
    BY <1>1, <1>2, <1>5, SMT
  <2> HIDE DEF at
  <2>2. (CHOOSE k \in at : TRUE) = i
    BY <2>1
  <2> QED BY <1>3, <1>5, <2>1, <2>2
<1> QED BY <1>4, <1>5

-----------------------------------------------------------------------------
(* Every step preserves the invariant.                                     *)

\* What the driver's state consists of.
driver == <<machine, obf, irr, g_kbd_lock, g_kbd_list, g_e0_prefix, last, isr, t>>

LEMMA QuietStep ==
  ASSUME IInv, UNCHANGED driver
  PROVE  IInv'
BY SMT DEF driver, IInv, Typed, LockHeld, OneDue, Due, Ordered, PrefixKept, Calls, HalfWay, RightEvent

LEMMA InitIInv == Init => IInv
<1> SUFFICES ASSUME Init PROVE IInv
  OBVIOUS
<1>1. \A c \in CPUs : isr[c] = None /\ t[c] = Idle /\ irr[c] = FALSE
  BY DEF Init
<1>2. None.pc = "none" /\ Idle.pc = "idle"
  BY DEF None, Idle
<1>3. Typed
  <2>1. None \in Serving /\ Idle \in Calling
    BY DEF Serving, Calling
  <2>2. machine \in Machines /\ obf = NULL /\ g_kbd_lock = NULL /\ g_kbd_list = <<>>
    BY DEF Init
  <2>3. irr \in [CPUs -> BOOLEAN] /\ isr \in [CPUs -> Serving] /\ t \in [CPUs -> Calling]
    BY <2>1 DEF Init
  <2>4. g_e0_prefix \in BOOLEAN /\ last \in BOOLEAN
    BY DEF Init
  <2>5. g_kbd_list \in Seq(Listeners)
    BY <2>2, SMT
  <2> QED BY <2>2, <2>3, <2>4, <2>5 DEF Typed
<1>4. LockHeld
  BY <1>1, <1>2, KeyboardAssumption, SMT DEF LockHeld, Init
<1>5. OneDue
  BY <1>1, <1>2 DEF OneDue, Due
<1>6. Ordered(g_kbd_list)
  <2>1. g_kbd_list = <<>>
    BY DEF Init
  <2>2. Len(g_kbd_list) = 0
    BY <2>1
  <2> QED BY <2>2, SMT DEF Ordered
<1>7. Calls
  BY <1>1, <1>2 DEF Calls
<1>8. PrefixKept
  BY DEF Init, PrefixKept
<1> QED BY <1>3, <1>4, <1>5, <1>6, <1>7, <1>8 DEF IInv

\* What pc says of an interrupt and of a call.
LEMMA Shapes ==
  ASSUME Typed, NEW c \in CPUs
  PROVE  /\ isr[c] \in Serving /\ t[c] \in Calling
         /\ isr[c] = None <=> isr[c].pc = "none"
         /\ t[c] = Idle <=> t[c].pc = "idle"
<1>1. isr[c] \in Serving /\ t[c] \in Calling
  BY DEF Typed
<1>2. None.pc = "none" /\ Idle.pc = "idle"
  BY DEF None, Idle
<1>3. isr[c] # None => isr[c].pc # "none"
  BY <1>1 DEF Serving
<1>4. t[c] # Idle => t[c].pc # "idle"
  BY <1>1 DEF Calling
<1> QED BY <1>1, <1>2, <1>3, <1>4

\* A byte comes when none is in the buffer, so no interrupt is due.
LEMMA TypeKeeps ==
  ASSUME IInv, NEW code \in Codes, Type(code)
  PROVE  IInv'
<1> USE DEF IInv
<1>1. /\ obf = NULL /\ obf' \in [code : Codes, when : TypingSteps, after : BOOLEAN]
      /\ \/ irr' = irr
         \/ \E d \in CPUs : irr' = [irr EXCEPT ![d] = TRUE]
  <2>1. /\ obf = NULL /\ obf' = [code |-> code, when |-> bpc, after |-> last]
        /\ bpc \in TypingSteps /\ last \in BOOLEAN
        /\ irr' = IF Open THEN [irr EXCEPT ![Entry.high] = TRUE] ELSE irr
    BY DEF Type, Typed
  <2>2. obf' \in [code : Codes, when : TypingSteps, after : BOOLEAN]
    BY <2>1
  <2>3. CASE Open
    <3>1. Entry.high \in CPUs
      BY <2>3 DEF Open
    <3> QED BY <2>1, <2>2, <2>3, <3>1
  <2>4. CASE ~Open
    BY <2>1, <2>2, <2>4
  <2> QED BY <2>3, <2>4
<1>2. UNCHANGED <<machine, g_kbd_lock, g_kbd_list, g_e0_prefix, isr, t>>
  BY DEF Type, boot_vars, fw_vars, kbd_vars
<1>3. obf' # NULL
  BY <1>1, KeyboardAssumption
<1>4. Typed'
  <2>1. last' \in BOOLEAN
    BY DEF Type
  <2> QED BY <1>1, <1>2, <2>1 DEF Typed
<1>5. LockHeld' /\ Ordered(g_kbd_list)' /\ Calls'
  BY <1>2, SMT DEF LockHeld, Ordered, Calls, HalfWay, RightEvent
<1>6. PrefixKept'
  <2>1. obf'.code = code /\ obf'.after = last /\ last' = (code = PREFIX)
    BY DEF Type
  <2>2. g_e0_prefix = last
    BY <1>1 DEF PrefixKept
  <2> QED BY <1>2, <1>3, <2>1, <2>2 DEF PrefixKept
<1>7. OneDue'
  <2>1. \A c \in CPUs : ~irr[c] /\ isr[c].pc \notin {"lock", "read"}
    BY <1>1 DEF OneDue, Due
  <2>2. \A c, d \in CPUs : irr'[c] /\ irr'[d] => c = d
    BY <1>1, <2>1 DEF Typed
  <2> QED BY <1>2, <1>3, <2>1, <2>2 DEF OneDue, Due
<1> QED BY <1>4, <1>5, <1>6, <1>7

\* A level-triggered entry sends again only when no interrupt is under way.
LEMMA RaiseLevelKeeps ==
  ASSUME IInv, RaiseLevel
  PROVE  IInv'
<1> USE DEF IInv
<1>1. obf # NULL /\ \E d \in CPUs : irr' = [irr EXCEPT ![d] = TRUE]
  BY DEF RaiseLevel, Open
<1>2. UNCHANGED <<machine, obf, g_kbd_lock, g_kbd_list, g_e0_prefix, last, isr, t>>
  BY DEF RaiseLevel, boot_vars, fw_vars, kbd_vars
<1>3. \A c \in CPUs : ~irr[c] /\ isr[c].pc = "none"
  BY SMT DEF RaiseLevel, None
<1>4. Typed'
  BY <1>1, <1>2 DEF Typed
<1>5. LockHeld' /\ Ordered(g_kbd_list)' /\ PrefixKept' /\ Calls'
  BY <1>2, SMT DEF LockHeld, Ordered, PrefixKept, Calls, HalfWay, RightEvent
<1>6. OneDue'
  <2>1. \A c, d \in CPUs : irr'[c] /\ irr'[d] => c = d
    BY <1>1, <1>3 DEF Typed
  <2> QED BY <1>1, <1>2, <1>3, <2>1 DEF OneDue, Due
<1> QED BY <1>4, <1>5, <1>6

\* What the other CPUs do not see of a step of an interrupt on c.
LEMMA OtherCalls ==
  ASSUME IInv, NEW c \in CPUs, g_kbd_list' = g_kbd_list, NEW x, isr' = [isr EXCEPT ![c] = x],
         x.pc = "call" => (HalfWay(c) /\ RightEvent(c))'
  PROVE  Calls'
<1>1. isr \in [CPUs -> Serving]
  BY DEF IInv, Typed
<1>2. \A d \in CPUs : d # c => isr'[d] = isr[d]
  BY <1>1
<1>3. isr'[c] = x
  BY <1>1
<1>4. \A d \in CPUs : d # c /\ isr'[d].pc = "call" => (HalfWay(d) /\ RightEvent(d))'
  <2> SUFFICES ASSUME NEW d \in CPUs, d # c, isr'[d].pc = "call"
               PROVE  (HalfWay(d) /\ RightEvent(d))'
    OBVIOUS
  <2>1. isr'[d] = isr[d]
    BY <1>2
  <2>2. HalfWay(d) /\ RightEvent(d)
    BY <2>1 DEF IInv, Calls
  <2>3. HalfWay(d)'
    BY <2>1, <2>2 DEF HalfWay
  <2>4. RightEvent(d)'
    BY <2>1, <2>2 DEF RightEvent
  <2> QED BY <2>3, <2>4
<1> QED BY <1>3, <1>4 DEF Calls

\* The interrupt leaves the local APIC and becomes the one being served.
LEMMA TakeIrqKeeps ==
  ASSUME IInv, NEW c \in CPUs, TakeIrq(c)
  PROVE  IInv'
<1> USE DEF IInv
<1> DEFINE x == [pc |-> IF irq_handler THEN "lock" ELSE "eoi"]
<1>1. /\ irr[c] /\ isr[c] = None
      /\ irr' = [irr EXCEPT ![c] = FALSE]
      /\ isr' = [isr EXCEPT ![c] = x]
  BY DEF TakeIrq
<1>2. UNCHANGED <<machine, obf, g_kbd_lock, g_kbd_list, g_e0_prefix, last, t>>
  BY DEF TakeIrq, boot_vars, fw_vars
<1>3. x \in [pc : {"lock", "eoi"}] /\ x.pc \in {"lock", "eoi"} /\ isr[c].pc = "none"
  BY <1>1, SMT DEF None
<1> HIDE DEF x
<1>4. Typed'
  <2>1. x \in Serving
    BY <1>3 DEF Serving
  <2> QED BY <1>1, <1>2, <2>1 DEF Typed
<1>5. isr \in [CPUs -> Serving] /\ irr \in [CPUs -> BOOLEAN]
  BY DEF Typed
<1>6. LockHeld'
  BY <1>1, <1>2, <1>3, <1>5 DEF LockHeld
<1>7. Ordered(g_kbd_list)' /\ PrefixKept'
  BY <1>2 DEF PrefixKept, Ordered
<1>8. Calls'
  BY <1>1, <1>2, <1>3, OtherCalls
<1>9. OneDue'
  <2>1. \A d \in CPUs : d # c => isr'[d] = isr[d] /\ (irr'[d] <=> irr[d])
    BY <1>1, <1>5
  <2>2. isr'[c] = x /\ ~irr'[c] /\ Due(c)
    BY <1>1, <1>5 DEF Due
  <2>3. \A d \in CPUs : Due(d)' => Due(d)
    BY <2>1, <2>2 DEF Due
  <2> QED BY <1>2, <1>3, <2>1, <2>2, <2>3 DEF OneDue, Due
<1> QED BY <1>4, <1>6, <1>7, <1>8, <1>9

\* The handler gets the lock when nobody holds it.
LEMMA KbdIrqLockKeeps ==
  ASSUME IInv, NEW c \in CPUs, KbdIrqLock(c)
  PROVE  IInv'
<1> USE DEF IInv
<1> DEFINE x == [pc |-> "read"]
<1>1. /\ isr[c].pc = "lock" /\ g_kbd_lock = NULL
      /\ g_kbd_lock' = <<c, "isr">>
      /\ isr' = [isr EXCEPT ![c] = x]
  BY DEF KbdIrqLock
<1>2. UNCHANGED <<machine, obf, irr, g_kbd_list, g_e0_prefix, last, t>>
  BY DEF KbdIrqLock, boot_vars, fw_vars
<1>3. x \in Serving /\ x.pc = "read"
  BY DEF Serving
<1> HIDE DEF x
<1>4. Typed'
  BY <1>1, <1>2, <1>3 DEF Typed
<1>5. isr \in [CPUs -> Serving]
  BY DEF Typed
<1>6. \A d \in CPUs : isr'[d] = IF d = c THEN x ELSE isr[d]
  BY <1>1, <1>5
<1>7. LockHeld'
  <2>1. \A d \in CPUs : isr[d].pc \notin {"read", "call"} /\ t[d].pc # "held"
    BY <1>1, KeyboardAssumption, SMT DEF LockHeld
  <2> QED BY <1>1, <1>2, <1>3, <1>6, <2>1 DEF LockHeld
<1>8. Ordered(g_kbd_list)' /\ PrefixKept'
  BY <1>2 DEF PrefixKept, Ordered
<1>9. Calls'
  BY <1>1, <1>2, <1>3, OtherCalls
<1>10. OneDue'
  <2>1. \A d \in CPUs : Due(d)' <=> Due(d)
    BY <1>1, <1>2, <1>3, <1>6 DEF Due
  <2>2. \A d \in CPUs : (isr'[d].pc \in {"lock", "read"}) <=> (isr[d].pc \in {"lock", "read"})
    BY <1>1, <1>3, <1>6
  <2> QED BY <1>2, <2>1, <2>2 DEF OneDue
<1> QED BY <1>4, <1>7, <1>8, <1>9, <1>10

\* The handler's event is right when it is made.
LEMMA EventIs ==
  ASSUME g_e0_prefix \in BOOLEAN, NEW code \in Codes
  PROVE  /\ EventOf(code) \in [e0_prefix : BOOLEAN, pressed : BOOLEAN, keycode : Nat]
         /\ EventOf(code) = [e0_prefix |-> g_e0_prefix, pressed |-> code \in 0..127,
                             keycode |-> code % 128]
<1>1. code \in 0..255
  BY KeyboardAssumption
<1>2. code % 128 \in Nat /\ (code < 128 <=> code \in 0..127)
  BY <1>1, SMT
<1>3. (code < 128) = (code \in 0..127)
  BY <1>2, SMT
<1>4. (code < 128) \in BOOLEAN
  BY SMT
<1> QED BY <1>2, <1>3, <1>4 DEF EventOf

\* The handler reads the byte: its interrupt is not due any more.
LEMMA KbdIrqReadKeeps ==
  ASSUME IInv, NEW c \in CPUs, KbdIrqRead(c)
  PROVE  IInv'
<1> USE DEF IInv
<1> DEFINE x == IF obf.code = PREFIX THEN [pc |-> "eoi"]
                ELSE [pc |-> "call", event |-> EventOf(obf.code), read |-> <<obf.after, obf.code>>,
                      listener |-> Head1, called |-> <<>>]
<1>1. /\ isr[c].pc = "read" /\ obf # NULL /\ obf' = NULL
      /\ g_e0_prefix' = (obf.code = PREFIX)
      /\ isr' = [isr EXCEPT ![c] = x]
      /\ g_kbd_lock' = IF obf.code = PREFIX THEN NULL ELSE g_kbd_lock
  BY DEF KbdIrqRead
<1>2. UNCHANGED <<machine, last, irr, g_kbd_list, t>>
  BY DEF KbdIrqRead, boot_vars, fw_vars
<1>3. obf.code \in Codes /\ obf.after \in BOOLEAN
  BY <1>1 DEF Typed
<1>4. Head1 \in Listeners \cup {NULL} /\ Head1 = IF Len(g_kbd_list) = 0 THEN NULL ELSE g_kbd_list[1]
  <2>1. g_kbd_list \in Seq(Listeners)
    BY DEF Typed
  <2>2. g_kbd_list = <<>> <=> Len(g_kbd_list) = 0
    BY <2>1, SMT
  <2> QED BY <2>1, <2>2, SMT DEF Head1
<1>5. /\ EventOf(obf.code) \in [e0_prefix : BOOLEAN, pressed : BOOLEAN, keycode : Nat]
      /\ EventOf(obf.code) = [e0_prefix |-> obf.after, pressed |-> obf.code \in 0..127,
                              keycode |-> obf.code % 128]
  <2>1. g_e0_prefix = obf.after /\ g_e0_prefix \in BOOLEAN
    BY <1>1 DEF PrefixKept, Typed
  <2> QED BY <1>3, <2>1, EventIs
<1>6. x \in Serving /\ x.pc = IF obf.code = PREFIX THEN "eoi" ELSE "call"
  <2>1. CASE obf.code = PREFIX
    BY <2>1 DEF Serving
  <2>2. CASE obf.code # PREFIX
    <3> DEFINE e == EventOf(obf.code)
               r == <<obf.after, obf.code>>
               s == <<>>
    <3>1. /\ e \in [e0_prefix : BOOLEAN, pressed : BOOLEAN, keycode : Nat]
          /\ r \in BOOLEAN \X Codes /\ s \in Seq(Listeners)
      <4>1. r \in BOOLEAN \X Codes
        BY <1>3
      <4>2. s \in Seq(Listeners)
        BY SMT
      <4> QED BY <1>5, <4>1, <4>2
    <3>2. x = [pc |-> "call", event |-> e, read |-> r, listener |-> Head1, called |-> s]
      BY <2>2
    <3> HIDE DEF e, r, s, x
    <3> QED BY <1>4, <2>2, <3>1, <3>2 DEF Serving
  <2> QED BY <2>1, <2>2
<1>7. x.pc = "call" => /\ x.event = EventOf(obf.code) /\ x.read = <<obf.after, obf.code>>
                       /\ x.listener = Head1 /\ x.called = <<>>
  OBVIOUS
<1> HIDE DEF x
<1>8. Typed'
  <2>1. last' \in BOOLEAN /\ g_e0_prefix' \in BOOLEAN
    BY <1>1, <1>2 DEF Typed
  <2> QED BY <1>1, <1>2, <1>6, <2>1 DEF Typed
<1>9. isr \in [CPUs -> Serving]
  BY DEF Typed
<1>10. \A d \in CPUs : isr'[d] = IF d = c THEN x ELSE isr[d]
  BY <1>1, <1>9
<1>11. LockHeld'
  <2>1. g_kbd_lock = <<c, "isr">>
    BY <1>1 DEF LockHeld
  <2>2. \A d \in CPUs : d # c => isr[d].pc \notin {"read", "call"}
    BY <2>1 DEF LockHeld
  <2>3. \A d \in CPUs : t[d].pc # "held"
    BY <2>1 DEF LockHeld
  <2>4. CASE obf.code = PREFIX
    BY <1>1, <1>2, <1>6, <1>10, <2>2, <2>3, <2>4, KeyboardAssumption, SMT DEF LockHeld
  <2>5. CASE obf.code # PREFIX
    BY <1>1, <1>2, <1>6, <1>10, <2>1, <2>2, <2>3, <2>5 DEF LockHeld
  <2> QED BY <2>4, <2>5
<1>12. Ordered(g_kbd_list)'
  BY <1>2 DEF Ordered
<1>13. PrefixKept'
  BY <1>1, <1>2 DEF PrefixKept
<1>14. Calls'
  <2>1. ASSUME x.pc = "call"
        PROVE  (HalfWay(c) /\ RightEvent(c))'
    <3>1. isr'[c] = x
      BY <1>10
    <3>2. Len(g_kbd_list) \in Nat /\ Len(<<>>) = 0
      BY SMT DEF Typed
    <3>3. HalfWay(c)'
      <4>1. x.called = <<>> /\ x.listener = Head1
        BY <1>7, <2>1
      <4>2. Len(isr'[c].called) = 0 /\ isr'[c].listener = Head1
        BY <3>1, <3>2, <4>1
      <4> QED BY <1>2, <1>4, <3>2, <4>2, SMT DEF HalfWay
    <3>4. RightEvent(c)'
      <4>1. /\ isr'[c].event = EventOf(obf.code)
            /\ isr'[c].read[1] = obf.after /\ isr'[c].read[2] = obf.code
        BY <1>7, <2>1, <3>1, SMT
      <4> QED BY <1>5, <4>1 DEF RightEvent
    <3> QED BY <3>3, <3>4
  <2> QED BY <1>1, <1>2, <2>1, OtherCalls
<1>15. OneDue'
  <2>1. Due(c)
    BY <1>1 DEF Due
  <2>2. \A d \in CPUs : d # c => ~Due(d)
    BY <2>1 DEF OneDue
  <2>3. ~irr[c]
    BY <1>1 DEF OneDue
  <2>4. \A d \in CPUs : ~Due(d)'
    BY <1>2, <1>6, <1>10, <2>2, <2>3 DEF Due
  <2>5. \A d \in CPUs : ~(irr'[d] /\ isr'[d].pc \in {"lock", "read"})
    BY <2>4 DEF Due
  <2> QED BY <2>4, <2>5 DEF OneDue
<1> QED BY <1>8, <1>11, <1>12, <1>13, <1>14, <1>15

\* A record keeps its type when two of its fields change.
LEMMA GoesOn ==
  ASSUME NEW P, NEW E, NEW B, NEW L, NEW Q,
         NEW r \in [pc : P, event : E, read : B, listener : L, called : Q],
         NEW l \in L, NEW q \in Q
  PROVE  [r EXCEPT !.listener = l, !.called = q]
           \in [pc : P, event : E, read : B, listener : L, called : Q]
OBVIOUS

\* The handler goes on to the next listener of the list, which nobody changes
\* while it holds the lock.
LEMMA KbdIrqCallKeeps ==
  ASSUME IInv, NEW c \in CPUs, KbdIrqCall(c)
  PROVE  IInv'
<1> USE DEF IInv
<1> DEFINE r == isr[c]
           n == Len(g_kbd_list)
           k == Len(r.called)
<1>1. isr[c].pc = "call" /\ UNCHANGED <<machine, obf, irr, g_kbd_list, g_e0_prefix, last, t>>
  BY DEF KbdIrqCall, boot_vars, fw_vars
<1>2. /\ r \in [pc : {"call", "eoi"},
                event : [e0_prefix : BOOLEAN, pressed : BOOLEAN, keycode : Nat],
                read : BOOLEAN \X Codes,
                listener : Listeners \cup {NULL},
                called : Seq(Listeners)]
      /\ isr \in [CPUs -> Serving]
  <2>1. isr \in [CPUs -> Serving] /\ r \in Serving
    BY DEF Typed
  <2>2. r # None /\ r \notin [pc : {"lock", "read", "eoi"}]
    BY <1>1, SMT DEF None
  <2> QED BY <2>1, <2>2 DEF Serving
<1>3. HalfWay(c) /\ RightEvent(c)
  BY <1>1 DEF Calls
<1>4. Ordered(g_kbd_list)' /\ PrefixKept'
  BY <1>1 DEF PrefixKept, Ordered
<1>5. g_kbd_list \in Seq(Listeners) /\ n \in Nat /\ k \in Nat /\ k <= n
  BY <1>2, <1>3, SMT DEF Typed, HalfWay
<1>6. CASE r.listener # NULL
  <2> DEFINE x == [r EXCEPT !.listener = NextOf(r.listener), !.called = Append(r.called, r.listener)]
  <2>1. isr' = [isr EXCEPT ![c] = x] /\ g_kbd_lock' = g_kbd_lock
    BY <1>2, <1>6 DEF KbdIrqCall
  <2>2. k < n /\ r.listener = g_kbd_list[k + 1] /\ k + 1 \in 1..n
    BY <1>3, <1>5, <1>6, SMT DEF HalfWay
  <2>3. NextOf(r.listener) = IF k + 1 = n THEN NULL ELSE g_kbd_list[k + 2]
    BY <1>5, <2>2, NextIs, SMT
  <2>4. NextOf(r.listener) \in Listeners \cup {NULL} /\ r.listener \in Listeners
    BY <1>2, <1>5, <1>6, <2>2, <2>3, SMT
  <2>5. /\ Append(r.called, r.listener) \in Seq(Listeners)
        /\ Len(Append(r.called, r.listener)) = k + 1
        /\ \A i \in 1..k : Append(r.called, r.listener)[i] = r.called[i]
        /\ Append(r.called, r.listener)[k + 1] = r.listener
    BY <1>2, <2>4, SMT
  <2>6. /\ x \in Serving /\ x.pc = "call" /\ x.event = r.event /\ x.read = r.read
        /\ x.listener = NextOf(r.listener) /\ x.called = Append(r.called, r.listener)
    <3>1. /\ x.pc = "call" /\ x.event = r.event /\ x.read = r.read
          /\ x.listener = NextOf(r.listener) /\ x.called = Append(r.called, r.listener)
      BY <1>1, <1>2
    <3>2. x \in [pc : {"call", "eoi"},
                 event : [e0_prefix : BOOLEAN, pressed : BOOLEAN, keycode : Nat],
                 read : BOOLEAN \X Codes,
                 listener : Listeners \cup {NULL},
                 called : Seq(Listeners)]
      BY <1>2, <2>4, <2>5, GoesOn
    <3>3. x \in Serving
      BY <3>2 DEF Serving
    <3> QED BY <3>1, <3>3
  <2> HIDE DEF x
  <2>7. \A d \in CPUs : isr'[d] = IF d = c THEN x ELSE isr[d]
    BY <1>2, <2>1
  <2>8. Typed'
    BY <1>1, <2>1, <2>6 DEF Typed
  <2>9. \A d \in CPUs : isr'[d].pc = isr[d].pc
    BY <1>1, <2>6, <2>7
  <2>10. LockHeld'
    BY <1>1, <2>1, <2>9 DEF LockHeld
  <2>11. OneDue'
    BY <1>1, <2>9 DEF OneDue, Due
  <2>12. Calls'
    <3>1. isr'[c] = x
      BY <2>7
    <3>2. HalfWay(c)'
      <4> DEFINE done == Append(r.called, r.listener)
      <4>1. isr'[c].called = done /\ isr'[c].listener = NextOf(r.listener)
        BY <2>6, <3>1
      <4>2. Len(done) = k + 1 /\ k + 1 <= n
        BY <1>5, <2>2, <2>5, SMT
      <4>3. \A i \in 1..(k + 1) : done[i] = g_kbd_list[i]
        <5> SUFFICES ASSUME NEW i \in 1..(k + 1)
                     PROVE  done[i] = g_kbd_list[i]
          OBVIOUS
        <5>1. CASE i = k + 1
          BY <2>2, <2>5, <5>1
        <5>2. CASE i # k + 1
          <6>1. i \in 1..k
            BY <1>5, <5>2, SMT
          <6> QED BY <1>3, <2>5, <6>1 DEF HalfWay
        <5> QED BY <5>1, <5>2
      <4>4. k + 1 + 1 = k + 2
        BY <1>5, SMT
      <4> HIDE DEF done
      <4> QED BY <1>1, <2>3, <4>1, <4>2, <4>3, <4>4 DEF HalfWay
    <3>3. RightEvent(c)'
      BY <1>3, <2>6, <3>1 DEF RightEvent
    <3> QED BY <1>1, <2>1, <3>2, <3>3, OtherCalls
  <2> QED BY <1>4, <2>8, <2>10, <2>11, <2>12
<1>7. CASE r.listener = NULL
  <2> DEFINE x == [r EXCEPT !.pc = "eoi"]
  <2>1. isr' = [isr EXCEPT ![c] = x] /\ g_kbd_lock' = NULL
    BY <1>2, <1>7 DEF KbdIrqCall
  <2>2. x \in Serving /\ x.pc = "eoi"
    BY <1>2 DEF Serving
  <2> HIDE DEF x
  <2>3. \A d \in CPUs : isr'[d] = IF d = c THEN x ELSE isr[d]
    BY <1>2, <2>1
  <2>4. Typed'
    BY <1>1, <2>1, <2>2 DEF Typed
  <2>5. g_kbd_lock = <<c, "isr">>
    BY <1>1 DEF LockHeld
  <2>6. \A d \in CPUs : t[d].pc # "held" /\ (d # c => isr[d].pc \notin {"read", "call"})
    BY <2>5 DEF LockHeld
  <2>7. LockHeld'
    BY <1>1, <2>1, <2>2, <2>3, <2>6, KeyboardAssumption, SMT DEF LockHeld
  <2>8. \A d \in CPUs : (isr'[d].pc \in {"lock", "read"}) <=> (isr[d].pc \in {"lock", "read"})
    BY <1>1, <2>2, <2>3
  <2>9. OneDue'
    BY <1>1, <2>8 DEF OneDue, Due
  <2>10. Calls'
    BY <1>1, <2>1, <2>2, OtherCalls
  <2> QED BY <1>4, <2>4, <2>7, <2>9, <2>10
<1> QED BY <1>6, <1>7

LEMMA KbdIrqEoiKeeps ==
  ASSUME IInv, NEW c \in CPUs, KbdIrqEoi(c)
  PROVE  IInv'
<1> USE DEF IInv
<1>1. /\ isr[c].pc = "eoi"
      /\ isr' = [isr EXCEPT ![c] = None]
      /\ UNCHANGED <<machine, obf, irr, g_kbd_lock, g_kbd_list, g_e0_prefix, last, t>>
  BY DEF KbdIrqEoi, boot_vars, fw_vars
<1>2. None \in Serving /\ None.pc = "none" /\ isr \in [CPUs -> Serving]
  BY DEF Serving, None, Typed
<1>3. \A d \in CPUs : isr'[d] = IF d = c THEN None ELSE isr[d]
  BY <1>1, <1>2
<1>4. Typed'
  BY <1>1, <1>2 DEF Typed
<1>5. /\ \A d \in CPUs : (isr'[d].pc \in {"lock", "read"}) <=> (isr[d].pc \in {"lock", "read"})
      /\ \A d \in CPUs : (isr'[d].pc \in {"read", "call"}) <=> (isr[d].pc \in {"read", "call"})
  BY <1>1, <1>2, <1>3
<1>6. LockHeld' /\ OneDue'
  BY <1>1, <1>5 DEF LockHeld, OneDue, Due
<1>7. Ordered(g_kbd_list)' /\ PrefixKept'
  BY <1>1 DEF PrefixKept, Ordered
<1>8. Calls'
  BY <1>1, <1>2, OtherCalls
<1> QED BY <1>4, <1>6, <1>7, <1>8

\* A thread calls: it is a spinning call of c, and holds nothing.
LEMMA KbdCallKeeps ==
  ASSUME IInv, NEW c \in CPUs, KbdCall(c)
  PROVE  IInv'
<1> USE DEF IInv
<1>1. UNCHANGED <<machine, obf, irr, g_kbd_lock, g_kbd_list, g_e0_prefix, last, isr>>
  BY DEF KbdCall, boot_vars, fw_vars
<1>2. PICK op \in {"register", "unregister"}, l \in Listeners :
        t' = [t EXCEPT ![c] = [pc |-> "spin", op |-> op, listener |-> l]]
  BY DEF KbdCall
<1> DEFINE x == [pc |-> "spin", op |-> op, listener |-> l]
<1>3. x \in Calling /\ x.pc = "spin" /\ t \in [CPUs -> Calling]
  BY DEF Calling, Typed
<1>4. t[c].pc = "idle"
  BY SMT DEF KbdCall, Idle
<1> HIDE DEF x
<1>5. t' = [t EXCEPT ![c] = x]
  BY <1>2 DEF x
<1>6. Typed'
  BY <1>1, <1>3, <1>5 DEF Typed
<1>7. \A d \in CPUs : (t'[d].pc = "held") <=> (t[d].pc = "held")
  BY <1>3, <1>4, <1>5
<1>8. LockHeld'
  BY <1>1, <1>7 DEF LockHeld
<1>9. OneDue' /\ Ordered(g_kbd_list)' /\ Calls'
  BY <1>1, SMT DEF OneDue, Due, Ordered, Calls, HalfWay, RightEvent
<1>10. PrefixKept'
  BY <1>1 DEF PrefixKept
<1> QED BY <1>6, <1>8, <1>9, <1>10

LEMMA KbdCallLockKeeps ==
  ASSUME IInv, NEW c \in CPUs, KbdCallLock(c)
  PROVE  IInv'
<1> USE DEF IInv
<1> DEFINE x == [t[c] EXCEPT !.pc = "held"]
<1>1. /\ t[c].pc = "spin" /\ g_kbd_lock = NULL /\ g_kbd_lock' = <<c, "thread">>
      /\ UNCHANGED <<machine, obf, irr, g_kbd_list, g_e0_prefix, last, isr>>
  BY DEF KbdCallLock, boot_vars, fw_vars
<1>2. t \in [CPUs -> Calling] /\ t[c] \in Calling
  BY DEF Typed
<1>3. t' = [t EXCEPT ![c] = x]
  BY <1>2 DEF KbdCallLock
<1>4. x \in Calling /\ x.pc = "held"
  BY <1>1, <1>2, SMT DEF Calling, Idle
<1> HIDE DEF x
<1>5. Typed'
  BY <1>1, <1>3, <1>4 DEF Typed
<1>6. \A d \in CPUs : t'[d] = IF d = c THEN x ELSE t[d]
  BY <1>2, <1>3
<1>7. LockHeld'
  <2>1. \A d \in CPUs : isr[d].pc \notin {"read", "call"} /\ t[d].pc # "held"
    BY <1>1, KeyboardAssumption, SMTT(20) DEF LockHeld
  <2> QED BY <1>1, <1>4, <1>6, <2>1 DEF LockHeld
<1>8. OneDue' /\ Ordered(g_kbd_list)' /\ PrefixKept' /\ Calls'
  <2>1. OneDue' /\ PrefixKept'
    BY <1>1 DEF OneDue, Due, PrefixKept
  <2>2. Ordered(g_kbd_list)'
    BY <1>1 DEF Ordered
  <2>3. Calls'
    BY <1>1 DEF Calls, HalfWay, RightEvent
  <2> QED BY <2>1, <2>2, <2>3
<1> QED BY <1>5, <1>7, <1>8

\* The list changes in the hands of a thread: no handler is in the middle of
\* it, as the thread holds the lock.
LEMMA KbdCallBodyKeeps ==
  ASSUME IInv, NEW c \in CPUs, KbdCallBody(c)
  PROVE  IInv'
<1> USE DEF IInv
<1>1. /\ t[c].pc = "held" /\ g_kbd_lock' = NULL /\ t' = [t EXCEPT ![c] = Idle]
      /\ UNCHANGED <<machine, obf, irr, g_e0_prefix, last, isr>>
  BY DEF KbdCallBody, boot_vars, fw_vars
<1>2. Idle \in Calling /\ Idle.pc = "idle" /\ t \in [CPUs -> Calling]
  BY DEF Calling, Idle, Typed
<1>3. \A d \in CPUs : t'[d] = IF d = c THEN Idle ELSE t[d]
  BY <1>1, <1>2
<1>4. t[c].listener \in Listeners
  BY <1>1, <1>2 DEF Calling, Idle
<1>5. g_kbd_list' \in Seq(Listeners) /\ Ordered(g_kbd_list')
  <2>1. CASE t[c].op = "register"
    <3>1. g_kbd_list' = Registered(t[c].listener)
      BY <2>1 DEF KbdCallBody
    <3> QED BY <1>4, <3>1, RegisteredOrdered DEF Typed
  <2>2. CASE t[c].op # "register"
    <3>1. g_kbd_list' = Unregistered(t[c].listener)
      BY <2>2 DEF KbdCallBody
    <3> QED BY <1>4, <3>1, UnregisteredOrdered DEF Typed
  <2> QED BY <2>1, <2>2
<1>6. Ordered(g_kbd_list)'
  BY <1>1, <1>5 DEF Ordered
<1>7. Typed'
  BY <1>1, <1>2, <1>5 DEF Typed
<1>8. g_kbd_lock = <<c, "thread">>
  BY <1>1 DEF LockHeld
<1>9. \A d \in CPUs : isr[d].pc \notin {"read", "call"} /\ (d # c => t[d].pc # "held")
  BY <1>8 DEF LockHeld
<1>10. LockHeld'
  BY <1>1, <1>2, <1>3, <1>9, KeyboardAssumption, SMT DEF LockHeld
<1>11. Calls'
  BY <1>1, <1>9 DEF Calls
<1>12. OneDue' /\ PrefixKept'
  BY <1>1 DEF PrefixKept, OneDue, Due
<1> QED BY <1>6, <1>7, <1>10, <1>11, <1>12

LEMMA NextKeeps == IInv /\ [Next]_vars => IInv'
<1> SUFFICES ASSUME IInv, [Next]_vars PROVE IInv'
  OBVIOUS
<1>1. CASE Boot
  <2>1. UNCHANGED <<obf, irr, g_kbd_lock, g_kbd_list, g_e0_prefix, last, isr, t>>
    BY <1>1 DEF Boot, kbd_vars
  <2>2. machine' = machine
    BY <1>1 DEF Boot, AcpiInit, MadtInit, PciEnumerate, fw_vars
  <2> QED BY <2>1, <2>2, QuietStep DEF driver
<1>2. CASE DriverMasks
  BY <1>2, QuietStep DEF driver, DriverMasks, fw_vars, kbd_vars
<1>3. CASE \E code \in Codes : Type(code)
  BY <1>3, TypeKeeps
<1>4. CASE RaiseLevel
  BY <1>4, RaiseLevelKeeps
<1>5. ASSUME NEW c \in CPUs, IsrStep(c)
      PROVE  IInv'
  BY <1>5, TakeIrqKeeps, KbdIrqLockKeeps, KbdIrqReadKeeps, KbdIrqCallKeeps, KbdIrqEoiKeeps
     DEF IsrStep
<1>6. ASSUME NEW c \in CPUs, KbdCall(c)
      PROVE  IInv'
  BY <1>6, KbdCallKeeps
<1>7. ASSUME NEW c \in CPUs, ThreadStep(c)
      PROVE  IInv'
  BY <1>7, KbdCallLockKeeps, KbdCallBodyKeeps DEF ThreadStep
<1>8. CASE UNCHANGED vars
  BY <1>8, QuietStep DEF driver, vars, boot_vars, fw_vars, kbd_vars
<1> QED BY <1>1, <1>2, <1>3, <1>4, <1>5, <1>6, <1>7, <1>8 DEF Next

-----------------------------------------------------------------------------
(* The theorems.                                                           *)

\* The inductive invariant holds in every state: g_kbd_lock is held by the
\* context inside it, and at most one interrupt is due for the byte in the
\* controller's buffer.
THEOREM Invariance == Spec => []IInv
<1>1. Init => IInv
  BY InitIInv
<1>2. IInv /\ [Next]_vars => IInv'
  BY NextKeeps
<1> QED BY <1>1, <1>2, PTL DEF Spec

\* For every machine and any number of CPUs and listeners, ps2_keyboard_irq
\* finds the byte it was sent for, makes the right event of it and calls the
\* listeners linked, in the order of their priority, each of them once.
THEOREM KeysReachListeners == Spec => []EventsRight
<1>1. IInv => EventsRight
  <2> SUFFICES ASSUME IInv PROVE EventsRight
    OBVIOUS
  <2>1. g_kbd_list \in Seq(Listeners) /\ DOMAIN g_kbd_list = 1..Len(g_kbd_list)
    BY SMT DEF IInv, Typed
  <2>2. \A i, j \in DOMAIN g_kbd_list :
          i < j => /\ g_kbd_list[i] # g_kbd_list[j]
                   /\ machine.prio[g_kbd_list[i]] >= machine.prio[g_kbd_list[j]]
    BY <2>1 DEF IInv, Ordered
  <2>3. ASSUME NEW c \in CPUs, isr[c].pc = "read"
        PROVE  obf # NULL
    BY <2>3 DEF IInv, OneDue, Due
  <2>4. ASSUME NEW c \in CPUs, isr[c].pc = "call"
        PROVE  /\ RightEvent(c)
               /\ isr[c].listener = NULL => isr[c].called = g_kbd_list
               /\ isr[c].listener # NULL =>
                    \E i \in DOMAIN g_kbd_list : g_kbd_list[i] = isr[c].listener
    <3> DEFINE n == Len(g_kbd_list)
               q == isr[c].called
    <3>1. HalfWay(c) /\ RightEvent(c)
      BY <2>4 DEF IInv, Calls
    <3>2. isr[c].called \in Seq(Listeners)
      <4>1. isr[c] \in Serving /\ isr[c] # None /\ isr[c] \notin [pc : {"lock", "read", "eoi"}]
        BY <2>4, SMT DEF IInv, Typed, None
      <4> QED BY <4>1 DEF Serving
    <3>3. q \in Seq(Listeners) /\ n \in Nat /\ Len(q) \in Nat /\ Len(q) <= n
      BY <2>1, <3>1, <3>2, SMT DEF HalfWay
    <3>4. \A i \in 1..n : g_kbd_list[i] # NULL
      BY <2>1, KeyboardAssumption, SMT
    <3>5. CASE Len(q) = n
      <4>1. isr[c].listener = NULL
        BY <3>1, <3>5 DEF HalfWay
      <4>2. \A i \in 1..n : q[i] = g_kbd_list[i]
        BY <3>1, <3>5 DEF HalfWay
      <4> HIDE DEF q
      <4>3. q = g_kbd_list
        BY <2>1, <3>3, <3>5, <4>2, SMT
      <4> QED BY <3>1, <4>1, <4>3 DEF q
    <3>6. CASE Len(q) # n
      <4>1. Len(q) + 1 \in 1..n /\ isr[c].listener = g_kbd_list[Len(q) + 1]
        BY <3>1, <3>3, <3>6, SMT DEF HalfWay
      <4> QED BY <2>1, <3>1, <3>4, <4>1
    <3> QED BY <3>5, <3>6
  <2> QED BY <2>2, <2>3, <2>4 DEF EventsRight, RightEvent
<1> QED BY <1>1, Invariance, PTL

\* A listener is out of the list when its unregister call gives the lock back.
TakesOut ==
  \A c \in CPUs : KbdCallBody(c) /\ t[c].op = "unregister" =>
    \A i \in DOMAIN g_kbd_list' : g_kbd_list'[i] # t[c].listener

\* kbd_unregister_listener leaves no link to the listener behind: with
\* KeysReachListeners, its handler is not called again.
THEOREM UnregisterTakesOut == Spec => [][TakesOut]_vars
<1>1. IInv /\ [Next]_vars => [TakesOut]_vars
  <2> SUFFICES ASSUME IInv, NEW c \in CPUs, KbdCallBody(c), t[c].op = "unregister"
               PROVE  \A i \in DOMAIN g_kbd_list' : g_kbd_list'[i] # t[c].listener
    BY DEF TakesOut
  <2>1. t[c].listener \in Listeners
    BY SMT DEF IInv, Typed, Calling, Idle, KbdCallBody
  <2>2. g_kbd_list' = Unregistered(t[c].listener)
    BY DEF KbdCallBody
  <2>3. /\ g_kbd_list' \in Seq(Listeners)
        /\ \A i \in 1..Len(g_kbd_list') : g_kbd_list'[i] # t[c].listener
    BY <2>1, <2>2, UnregisteredOrdered DEF IInv, Typed
  <2> QED BY <2>3, SMT
<1> QED BY <1>1, Invariance, PTL DEF Spec
-----------------------------------------------------------------------------
(* The route of the keyboard's line, for machines whose tables are right.  *)

\* The GSIs of unit i of the MADT.
Gsis(i) ==
  g_ioapics[i].gsi_base .. g_ioapics[i].gsi_base + machine.ioapics[g_ioapics[i].address].redirs - 1

PinOf(i, gsi) == <<g_ioapics[i].address, gsi - g_ioapics[i].gsi_base>>

\* The units the kernel knows are there and share neither addresses nor GSIs.
UnitsThere ==
  /\ g_ioapics \in Seq([address : DOMAIN machine.ioapics, gsi_base : Nat])
  /\ \A i \in DOMAIN g_ioapics : machine.ioapics[g_ioapics[i].address].redirs \in Nat
  /\ \A i, j \in DOMAIN g_ioapics : i # j =>
       g_ioapics[i].address # g_ioapics[j].address /\ Gsis(i) \cap Gsis(j) = {}

\* The override of IRQ 1, or the lack of one, describes the keyboard's line.
LineTold ==
  /\ machine.line.gsi = find_iso_for_irq(1).gsi
  /\ machine.line.low = (find_iso_for_irq(1).polarity = 3)
  /\ machine.line.level = (find_iso_for_irq(1).trigger = 3)
  /\ \E i \in DOMAIN g_ioapics :
       machine.line.gsi \in Gsis(i) /\ machine.line.pin = PinOf(i, machine.line.gsi)

\* What the arrays of madt_init say is how the machine is wired.
Wired == UnitsThere /\ LineTold

Described(io) ==
  [address |-> io.address, gsi_base |-> io.gsi_base, max_redirs |-> machine.ioapics[io.address].redirs]

\* The registers of pin p, whose line is not the keyboard's, are as the
\* drivers want them.
Others ==
  \A p \in Pins \ {machine.line.pin} : \A u \in DOMAIN g_ioapics :
    g_ioapics[u].address = p[1] =>
      redir[p] = [Placeholder EXCEPT !.low.masked = (g_ioapics[u].gsi_base + p[2]) \notin opened]

RoutedLow ==
  [vector |-> PS2_KBD_VECTOR, masked |-> FALSE,
   polarity |-> machine.line.low, trigger |-> machine.line.level]

\* The units looked at so far are described, and their entries masked.
UnitsMasked ==
  /\ g_ioapic_desc \in Seq([address : DOMAIN machine.ioapics, gsi_base : Nat, max_redirs : Nat])
  /\ Len(g_ioapic_desc) <= Len(g_ioapics)
  /\ \A i \in 1..Len(g_ioapic_desc) : g_ioapic_desc[i] = Described(g_ioapics[i])
  /\ bpc = "ioapic" => g_ioapics = <<>> \/ Len(g_ioapic_desc) < Len(g_ioapics)
  /\ bpc # "ioapic" => Len(g_ioapic_desc) = Len(g_ioapics)
  /\ bpc \in {"ioapic", "handler", "low"} =>
       \A p \in Pins, i \in 1..Len(g_ioapic_desc) :
         g_ioapics[i].address = p[1] => redir[p] = Placeholder

RouteSteps == {"ioapic", "handler", "low", "high", "sti", "run"}

RouteInv ==
  /\ DOMAIN redir = Pins /\ redir = [p \in Pins |-> redir[p]]
  /\ bpc # "run" => opened = {}
  /\ bpc \in {"acpi", "madt", "pci"} => g_ioapic_desc = <<>>
  /\ bpc \in {"acpi", "madt", "pci", "panic"} \cup RouteSteps
  /\ Wired /\ bpc \in RouteSteps =>
       /\ UnitsMasked
       /\ bpc \in {"high", "sti", "run"} => Others
       /\ bpc = "high" => Entry = [low |-> RoutedLow, high |-> 0]
       /\ bpc \in {"sti", "run"} => Entry = [low |-> RoutedLow, high |-> machine.bsp]

LEMMA UnitIs ==
  ASSUME UnitsThere, NEW i \in DOMAIN g_ioapics
  PROVE  /\ g_ioapics[i].address \in DOMAIN machine.ioapics /\ g_ioapics[i].gsi_base \in Nat
         /\ machine.ioapics[g_ioapics[i].address].redirs \in Nat
<1> DEFINE R == [address : DOMAIN machine.ioapics, gsi_base : Nat]
<1>1. g_ioapics \in Seq(R) /\ machine.ioapics[g_ioapics[i].address].redirs \in Nat
  BY DEF UnitsThere
<1>2. \A x \in R : x.address \in DOMAIN machine.ioapics /\ x.gsi_base \in Nat
  OBVIOUS
<1> HIDE DEF R
<1>3. g_ioapics[i] \in R
  BY <1>1, SMT
<1> QED BY <1>1, <1>2, <1>3

LEMMA PinIs ==
  ASSUME UnitsThere, NEW i \in DOMAIN g_ioapics, NEW gsi \in Gsis(i)
  PROVE  /\ PinOf(i, gsi) \in Pins /\ PinOf(i, gsi)[1] = g_ioapics[i].address
         /\ gsi \in Nat /\ g_ioapics[i].gsi_base + PinOf(i, gsi)[2] = gsi
<1> DEFINE a == g_ioapics[i].address
           b == g_ioapics[i].gsi_base
           n == machine.ioapics[a].redirs
<1>1. a \in DOMAIN machine.ioapics /\ b \in Nat /\ n \in Nat
  BY UnitIs
<1>2. gsi \in b .. b + n - 1
  BY DEF Gsis
<1> HIDE DEF a, b, n
<1>3. gsi \in Nat /\ gsi - b \in 0 .. n - 1 /\ b + (gsi - b) = gsi
  BY <1>1, <1>2, SMT
<1>4. PinOf(i, gsi) = <<a, gsi - b>>
  BY DEF PinOf, a, b
<1>5. <<a, gsi - b>> \in Pins
  BY <1>1, <1>3, SMT DEF Pins, n
<1> QED BY <1>3, <1>4, <1>5, SMT DEF a, b

\* A pin of unit i is the pin of one of the unit's GSIs.
LEMMA PinOfUnit ==
  ASSUME UnitsThere, NEW i \in DOMAIN g_ioapics, NEW p \in Pins, g_ioapics[i].address = p[1]
  PROVE  /\ g_ioapics[i].gsi_base + p[2] \in Gsis(i) /\ p[2] \in Nat
         /\ p = PinOf(i, g_ioapics[i].gsi_base + p[2])
         /\ p[2] < machine.ioapics[p[1]].redirs
<1> DEFINE a == g_ioapics[i].address
           b == g_ioapics[i].gsi_base
           n == machine.ioapics[a].redirs
<1>1. a \in DOMAIN machine.ioapics /\ b \in Nat /\ n \in Nat
  BY UnitIs
<1>2. PICK c \in DOMAIN machine.ioapics :
        \E k \in 0 .. machine.ioapics[c].redirs - 1 : p = <<c, k>>
  BY DEF Pins
<1>3. PICK k \in 0 .. n - 1 : p = <<a, k>> /\ p[1] = a /\ p[2] = k
  BY <1>2, SMT
<1>4. Gsis(i) = b .. b + n - 1 /\ PinOf(i, b + k) = <<a, (b + k) - b>>
  BY DEF Gsis, PinOf
<1> HIDE DEF a, b, n
<1>5. k \in Nat /\ k < n /\ b + k \in b .. b + n - 1 /\ (b + k) - b = k
  BY <1>1, <1>3, SMT
<1>6. PinOf(i, b + k) = p /\ b + k \in Gsis(i)
  BY <1>3, <1>4, <1>5
<1> QED BY <1>3, <1>5, <1>6 DEF a, b, n

\* ioapic_for_gsi finds the pin of every GSI of a unit, and no other.
LEMMA ForGsi ==
  ASSUME UnitsThere, UnitsMasked, bpc # "ioapic", NEW gsi \in Nat
  PROVE  /\ \A i \in DOMAIN g_ioapics : gsi \in Gsis(i) => ioapic_for_gsi(gsi) = PinOf(i, gsi)
         /\ ioapic_for_gsi(gsi) # NULL => \E i \in DOMAIN g_ioapics : gsi \in Gsis(i)
<1> DEFINE D == g_ioapic_desc
           has == {i \in DOMAIN D : gsi >= D[i].gsi_base /\ gsi <= D[i].gsi_base + D[i].max_redirs - 1}
<1>1. DOMAIN D = DOMAIN g_ioapics /\ DOMAIN g_ioapics \subseteq Nat
  BY SMT DEF UnitsMasked, UnitsThere
<1>2. ASSUME NEW i \in DOMAIN D
      PROVE  /\ D[i].address = g_ioapics[i].address /\ D[i].gsi_base = g_ioapics[i].gsi_base
             /\ D[i].gsi_base \in Nat /\ (i \in has <=> gsi \in Gsis(i))
  <2>1. D[i] = Described(g_ioapics[i])
    BY <1>1, SMT DEF UnitsMasked
  <2>2. /\ D[i].address = g_ioapics[i].address /\ D[i].gsi_base = g_ioapics[i].gsi_base
        /\ D[i].max_redirs = machine.ioapics[g_ioapics[i].address].redirs
    BY <2>1, SMT DEF Described
  <2>3. g_ioapics[i].gsi_base \in Nat /\ machine.ioapics[g_ioapics[i].address].redirs \in Nat
    BY <1>1, UnitIs
  <2>4. i \in has <=> gsi >= D[i].gsi_base /\ gsi <= D[i].gsi_base + D[i].max_redirs - 1
    OBVIOUS
  <2> QED BY <2>2, <2>3, <2>4, SMT DEF Gsis
<1>3. ioapic_for_gsi(gsi) = IF has = {} THEN NULL
        ELSE <<D[CHOOSE i \in has : \A j \in has : i <= j].address,
               gsi - D[CHOOSE i \in has : \A j \in has : i <= j].gsi_base>>
  BY DEF ioapic_for_gsi
<1>4. \A i \in has : i \in DOMAIN D
  OBVIOUS
<1> HIDE DEF has, D
<1>5. ASSUME NEW i \in DOMAIN g_ioapics, gsi \in Gsis(i)
      PROVE  ioapic_for_gsi(gsi) = PinOf(i, gsi)
  <2>1. i \in has
    BY <1>1, <1>2, <1>5
  <2>2. ASSUME NEW j \in has PROVE j = i
    <3>1. j \in DOMAIN g_ioapics /\ gsi \in Gsis(j)
      BY <1>1, <1>2, <1>4, <2>2
    <3> QED BY <1>5, <3>1 DEF UnitsThere
  <2>3. \A j \in has : i <= j
    BY <1>1, <2>2, SMT
  <2>4. (CHOOSE k \in has : \A j \in has : k <= j) = i
    BY <2>1, <2>2, <2>3
  <2>5. ioapic_for_gsi(gsi) = <<D[i].address, gsi - D[i].gsi_base>>
    BY <1>3, <2>1, <2>4
  <2> QED BY <1>1, <1>2, <2>5 DEF PinOf
<1>6. ASSUME ioapic_for_gsi(gsi) # NULL
      PROVE  \E i \in DOMAIN g_ioapics : gsi \in Gsis(i)
  <2>1. has # {}
    BY <1>3, <1>6
  <2> QED BY <1>1, <1>2, <1>4, <2>1
<1> QED BY <1>5, <1>6

-----------------------------------------------------------------------------

LEMMA WiredSame ==
  ASSUME UNCHANGED <<machine, g_ioapics, g_isos>>
  PROVE  /\ Wired' <=> Wired
         /\ UnitsThere' <=> UnitsThere
         /\ Pins' = Pins /\ RoutedLow' = RoutedLow
         /\ \A x : Described(x)' = Described(x)
<1>1. machine' = machine /\ g_ioapics' = g_ioapics /\ g_isos' = g_isos
  OBVIOUS
<1>2. /\ \A i : Gsis(i)' = Gsis(i)
      /\ \A i, gsi : PinOf(i, gsi)' = PinOf(i, gsi)
      /\ find_iso_for_irq(1)' = find_iso_for_irq(1)
  BY <1>1, SMT DEF Gsis, PinOf, find_iso_for_irq
<1>3. Pins' = Pins /\ RoutedLow' = RoutedLow /\ \A x : Described(x)' = Described(x)
  BY <1>1, SMT DEF Pins, RoutedLow, Described
<1>4. UnitsThere' <=> UnitsThere
  BY <1>1, <1>2 DEF UnitsThere
<1>5. LineTold' <=> LineTold
  BY <1>1, <1>2 DEF LineTold
<1> QED BY <1>3, <1>4, <1>5 DEF Wired

\* A step that leaves the tables and the units alone.
LEMMA RouteQuiet ==
  ASSUME RouteInv, bpc' = bpc, machine' = machine, g_ioapics' = g_ioapics, g_isos' = g_isos,
         g_ioapic_desc' = g_ioapic_desc, redir' = redir, opened' = opened
  PROVE  RouteInv'
<1>1. /\ Wired' <=> Wired
      /\ Pins' = Pins /\ RoutedLow' = RoutedLow
      /\ \A x : Described(x)' = Described(x)
  BY WiredSame
<1>2. UnitsMasked' <=> UnitsMasked
  BY <1>1 DEF UnitsMasked
<1>3. (Others' <=> Others) /\ Entry' = Entry
  BY <1>1 DEF Others, Entry, Placeholder
<1> QED BY <1>1, <1>2, <1>3 DEF RouteInv, RouteSteps

LEMMA FirmwareRoutes ==
  ASSUME RouteInv, AcpiInit \/ MadtInit, UNCHANGED ioapic_vars
  PROVE  RouteInv'
<1>1. machine' = machine /\ UNCHANGED <<g_ioapic_desc, redir, opened>>
  BY DEF AcpiInit, MadtInit, ioapic_vars
<1>2. bpc \in {"acpi", "madt"} /\ bpc' \in {"madt", "pci", "panic"}
  BY DEF AcpiInit, MadtInit
<1>3. Pins' = Pins
  BY <1>1, SMT DEF Pins
<1> QED BY <1>1, <1>2, <1>3 DEF RouteInv, RouteSteps

LEMMA PciRoutes ==
  ASSUME RouteInv, PciEnumerate, UNCHANGED ioapic_vars
  PROVE  RouteInv'
<1>1. UNCHANGED <<machine, g_ioapics, g_isos, g_ioapic_desc, redir, opened>>
  BY DEF PciEnumerate, fw_vars, ioapic_vars
<1>2. bpc = "pci" /\ bpc' \in {"pci", "ioapic"}
  BY DEF PciEnumerate
<1>3. g_ioapic_desc = <<>> /\ opened = {}
  BY <1>2 DEF RouteInv
<1>4. Pins' = Pins /\ (Wired' <=> Wired)
  BY <1>1, WiredSame
<1>5. ASSUME Wired, bpc' = "ioapic" PROVE UnitsMasked'
  <2>1. Len(g_ioapics) \in Nat /\ (g_ioapics = <<>> \/ 0 < Len(g_ioapics))
    BY <1>5, SMT DEF Wired, UnitsThere
  <2>2. g_ioapic_desc' = <<>> /\ g_ioapics' = g_ioapics
    BY <1>1, <1>3
  <2>3. Len(<<>>) = 0 /\ \A S : <<>> \in Seq(S)
    BY SMT
  <2> QED BY <1>5, <2>1, <2>2, <2>3, SMT DEF UnitsMasked
<1> QED BY <1>1, <1>2, <1>3, <1>4, <1>5 DEF RouteInv, RouteSteps

\* x86_ioapic_init describes the next unit and masks all its entries.
LEMMA IoapicRoutes ==
  ASSUME RouteInv, IoapicInit, UNCHANGED <<machine, g_ioapics, g_isos>>
  PROVE  RouteInv'
<1>1. /\ bpc = "ioapic" /\ opened' = opened /\ opened = {}
      /\ DOMAIN redir = Pins /\ redir = [p \in Pins |-> redir[p]]
  BY DEF IoapicInit, RouteInv
<1>2. /\ Wired' <=> Wired
      /\ UnitsThere' <=> UnitsThere
      /\ Pins' = Pins
      /\ \A x : Described(x)' = Described(x)
  BY WiredSame
<1>3. CASE g_ioapics = <<>>
  <2>1. bpc' = "panic" /\ redir' = redir
    BY <1>3 DEF IoapicInit
  <2> QED BY <1>1, <1>2, <2>1 DEF RouteInv, RouteSteps
<1>4. CASE g_ioapics # <<>>
  <2> DEFINE n == Len(g_ioapic_desc)
             from == g_ioapics[n + 1]
             io == Described(from)
  <2>1. /\ g_ioapic_desc' = Append(g_ioapic_desc, io)
        /\ redir' = MasksAll(io)
        /\ g_ioapic_ready' = (Len(g_ioapic_desc') = Len(g_ioapics))
        /\ bpc' = IF g_ioapic_ready' THEN "handler" ELSE "ioapic"
    BY <1>4 DEF IoapicInit, Described
  <2>2. DOMAIN redir' = Pins' /\ redir' = [p \in Pins' |-> redir'[p]]
    BY <1>2, <2>1 DEF MasksAll
  <2>3. bpc' = IF Len(g_ioapic_desc') = Len(g_ioapics) THEN "handler" ELSE "ioapic"
    BY <2>1
  <2>4. ASSUME Wired PROVE UnitsMasked'
    <3> DEFINE D == g_ioapic_desc
               R == [address : DOMAIN machine.ioapics, gsi_base : Nat, max_redirs : Nat]
    <3>1. UnitsThere /\ UnitsMasked
      BY <1>1, <2>4 DEF Wired, RouteInv, RouteSteps
    <3>2. D \in Seq(R) /\ n \in Nat /\ n < Len(g_ioapics) /\ Len(g_ioapics) \in Nat
      BY <1>1, <1>4, <3>1, SMT DEF UnitsMasked, UnitsThere
    <3>3. n + 1 \in DOMAIN g_ioapics
      BY <3>1, <3>2, SMT DEF UnitsThere
    <3>4. /\ from.address \in DOMAIN machine.ioapics /\ from.gsi_base \in Nat
          /\ machine.ioapics[from.address].redirs \in Nat
      BY <3>1, <3>3, UnitIs
    <3>5. io \in R /\ io.address = from.address /\ io.max_redirs = machine.ioapics[from.address].redirs
      BY <3>4 DEF Described
    <3> HIDE DEF R, io
    <3>6. /\ D' \in Seq(R) /\ Len(D') = n + 1 /\ D'[n + 1] = io
          /\ \A i \in 1..n : D'[i] = D[i]
      BY <2>1, <3>2, <3>5, SMT
    <3>7. \A i \in 1..Len(D') : D'[i] = Described(g_ioapics[i])
      BY <3>1, <3>2, <3>6, SMT DEF UnitsMasked, io
    <3>8. ASSUME NEW p \in Pins, NEW i \in 1..Len(D'), g_ioapics[i].address = p[1]
          PROVE  redir'[p] = Placeholder
      <4>1. redir'[p] = IF p[1] = io.address /\ p[2] < io.max_redirs THEN Placeholder ELSE redir[p]
        BY <2>1 DEF MasksAll
      <4>2. CASE i = n + 1
        <5>1. p[2] < machine.ioapics[p[1]].redirs /\ p[1] = from.address
          BY <3>1, <3>3, <3>8, <4>2, PinOfUnit
        <5> QED BY <3>5, <4>1, <5>1
      <4>3. CASE i # n + 1
        <5>1. i \in 1..n
          BY <3>2, <3>6, <4>3, SMT
        <5>2. redir[p] = Placeholder
          BY <1>1, <3>1, <3>8, <5>1 DEF UnitsMasked
        <5> QED BY <4>1, <5>2
      <4> QED BY <4>2, <4>3
    <3>9. Len(D') <= Len(g_ioapics)
      BY <3>2, <3>6, SMT
    <3>10. D' \in Seq([address : DOMAIN machine'.ioapics, gsi_base : Nat, max_redirs : Nat])
      BY <3>6 DEF R
    <3>11. bpc' = "ioapic" => Len(D') < Len(g_ioapics)
      BY <2>3, <3>2, <3>6, SMT
    <3>12. bpc' # "ioapic" => Len(D') = Len(g_ioapics)
      BY <2>3
    <3> QED BY <1>2, <3>7, <3>8, <3>9, <3>10, <3>11, <3>12 DEF UnitsMasked
  <2> QED BY <1>1, <1>2, <2>2, <2>3, <2>4 DEF RouteInv, RouteSteps
<1> QED BY <1>3, <1>4

\* The keyboard's line is a GSI of a unit, which has its pin.
LEMMA LinePin ==
  ASSUME Wired, UnitsMasked, bpc # "ioapic"
  PROVE  /\ machine.line.gsi \in Nat /\ machine.line.pin \in Pins
         /\ ioapic_for_gsi(find_iso_for_irq(1).gsi) = machine.line.pin
         /\ \E i \in DOMAIN g_ioapics :
              /\ machine.line.gsi \in Gsis(i) /\ machine.line.pin = PinOf(i, machine.line.gsi)
              /\ machine.line.pin[1] = g_ioapics[i].address
<1>1. UnitsThere /\ machine.line.gsi = find_iso_for_irq(1).gsi
  BY DEF Wired, LineTold
<1>2. PICK i \in DOMAIN g_ioapics :
        machine.line.gsi \in Gsis(i) /\ machine.line.pin = PinOf(i, machine.line.gsi)
  BY DEF Wired, LineTold
<1>3. /\ machine.line.pin \in Pins /\ machine.line.gsi \in Nat
      /\ machine.line.pin[1] = g_ioapics[i].address
  BY <1>1, <1>2, PinIs
<1>4. ioapic_for_gsi(machine.line.gsi) = machine.line.pin
  BY <1>1, <1>2, <1>3, ForGsi
<1> QED BY <1>1, <1>2, <1>3, <1>4

\* An entry that no driver has changed but for its mask bit.
ClosedLow(m) == [vector |-> 32, masked |-> m, polarity |-> FALSE, trigger |-> FALSE]
ClosedEntry(m) == [low |-> ClosedLow(m), high |-> 0]

LEMMA MaskBit ==
  ASSUME NEW v, NEW m, NEW n, NEW p, NEW q
  PROVE  [[vector |-> v, masked |-> m, polarity |-> p, trigger |-> q] EXCEPT !.masked = n]
           = [vector |-> v, masked |-> n, polarity |-> p, trigger |-> q]
<1> DEFINE h == [[vector |-> v, masked |-> m, polarity |-> p, trigger |-> q] EXCEPT !.masked = n]
           k == [vector |-> v, masked |-> n, polarity |-> p, trigger |-> q]
<1>1. DOMAIN h = DOMAIN k /\ h = [x \in DOMAIN h |-> h[x]] /\ k = [x \in DOMAIN k |-> k[x]]
  OBVIOUS
<1>2. \A x \in DOMAIN k : h[x] = k[x]
  BY SMT
<1> HIDE DEF h, k
<1>3. h = k
  BY <1>1, <1>2
<1> QED BY <1>3 DEF h, k

LEMMA ClosedIs ==
  ASSUME NEW m, NEW n
  PROVE  [ClosedEntry(m) EXCEPT !.low.masked = n] = ClosedEntry(n)
<1> DEFINE off == FALSE
           v == 32
<1>0. \A x : ClosedLow(x) = [vector |-> v, masked |-> x, polarity |-> off, trigger |-> off]
  BY DEF ClosedLow
<1> HIDE DEF off, v
<1>1. [ClosedLow(m) EXCEPT !.masked = n] = ClosedLow(n)
  BY <1>0, MaskBit, SMT
<1>2. ClosedEntry(m).low = ClosedLow(m)
  BY DEF ClosedEntry
<1> QED BY <1>1, <1>2, SMT DEF ClosedEntry

LEMMA MaskedIs ==
  ASSUME NEW m
  PROVE  [Placeholder EXCEPT !.low.masked = m] = ClosedEntry(m)
<1> DEFINE on == TRUE
<1>1. Placeholder = ClosedEntry(on)
  BY DEF Placeholder, ClosedEntry, ClosedLow
<1> HIDE DEF on
<1> QED BY <1>1, ClosedIs

\* ps2_keyboard_init writes the entry of the line, and no other.
LEMMA KbdInitRoutes ==
  ASSUME RouteInv, KbdInit, UNCHANGED <<machine, g_ioapics, g_isos>>
  PROVE  RouteInv'
<1>1. /\ Wired' <=> Wired
      /\ Pins' = Pins /\ RoutedLow' = RoutedLow
      /\ \A x : Described(x)' = Described(x)
  BY WiredSame
<1>2. DOMAIN redir = Pins /\ redir = [p \in Pins |-> redir[p]] /\ bpc \in RouteSteps /\ bpc # "ioapic"
      /\ bpc # "run" /\ opened = {}
  BY DEF RouteInv, KbdInit, RouteSteps
<1>3. UNCHANGED <<g_ioapic_desc, opened>>
  BY DEF KbdInit, RouteLow, RouteHigh, ioapic_vars
<1>4. ASSUME Wired, bpc' # "ioapic", bpc' # "low" PROVE UnitsMasked'
  <2>1. UnitsMasked
    BY <1>2, <1>4 DEF RouteInv
  <2>2. bpc' \notin {"ioapic", "handler", "low"}
    BY <1>4 DEF KbdInit, RouteLow
  <2> QED BY <1>1, <1>2, <1>3, <2>1, <2>2 DEF UnitsMasked
<1>5. CASE bpc = "handler"
  <2>1. bpc' = "low" /\ redir' = redir
    BY <1>5 DEF KbdInit, ioapic_vars
  <2>2. ASSUME Wired PROVE UnitsMasked'
    <3>1. UnitsMasked
      BY <1>2, <2>2 DEF RouteInv
    <3> QED BY <1>1, <1>3, <1>5, <2>1, <3>1 DEF UnitsMasked
  <2> QED BY <1>1, <1>2, <1>3, <2>1, <2>2 DEF RouteInv, RouteSteps
<1>6. CASE bpc = "low"
  <2> DEFINE iso == find_iso_for_irq(1)
             pin == ioapic_for_gsi(iso.gsi)
             low == [vector |-> PS2_KBD_VECTOR, masked |-> FALSE,
                     polarity |-> iso.polarity = 3, trigger |-> iso.trigger = 3]
  <2>1. /\ bpc' \in {"high", "panic"}
        /\ redir' = IF bpc' = "panic" THEN redir ELSE [redir EXCEPT ![pin].low = low]
    BY <1>6, SMT DEF KbdInit, RouteLow
  <2>2. DOMAIN redir' = Pins /\ redir' = [p \in Pins |-> redir'[p]]
    BY <1>2, <2>1
  <2>3. ASSUME Wired, bpc' = "high"
        PROVE  Others' /\ Entry' = [low |-> RoutedLow, high |-> 0]
    <3>1. UnitsMasked
      BY <1>2, <2>3 DEF RouteInv
    <3>2. pin = machine.line.pin /\ pin \in Pins /\ low = RoutedLow
      <4>1. pin = machine.line.pin /\ pin \in Pins
        BY <1>2, <2>3, <3>1, LinePin
      <4>2. low = RoutedLow
        BY <2>3 DEF Wired, LineTold, RoutedLow
      <4> QED BY <4>1, <4>2
    <3>3. \A p \in Pins, u \in DOMAIN g_ioapics : g_ioapics[u].address = p[1] => redir[p] = Placeholder
      <4>1. DOMAIN g_ioapics = 1..Len(g_ioapic_desc)
        BY <1>2, <2>3, <3>1, SMT DEF UnitsMasked, Wired, UnitsThere
      <4> QED BY <1>6, <3>1, <4>1 DEF UnitsMasked
    <3>4. redir[pin] = Placeholder
      BY <1>2, <2>3, <3>1, <3>2, <3>3, LinePin
    <3> HIDE DEF pin, low
    <3>5. redir'[pin] = [redir[pin] EXCEPT !.low = low] /\ \A p \in Pins \ {pin} : redir'[p] = redir[p]
      BY <1>2, <2>1, <2>3, <3>2
    <3>6. redir'[pin] = [low |-> RoutedLow, high |-> 0]
      BY <3>2, <3>4, <3>5, SMT DEF Placeholder
    <3>7. Others'
      <4>1. ASSUME NEW p \in Pins \ {pin}, NEW u \in DOMAIN g_ioapics, g_ioapics[u].address = p[1]
            PROVE  redir'[p] = [Placeholder EXCEPT !.low.masked =
                                  (g_ioapics[u].gsi_base + p[2]) \notin opened']
        <5>1. redir'[p] = Placeholder
          BY <3>3, <3>5, <4>1
        <5>2. ((g_ioapics[u].gsi_base + p[2]) \notin opened') = TRUE
          BY <1>2, <1>3
        <5>3. Placeholder = ClosedEntry((g_ioapics[u].gsi_base + p[2]) \notin opened')
          BY <5>2 DEF Placeholder, ClosedEntry, ClosedLow
        <5> QED BY <5>1, <5>3, MaskedIs
      <4> QED BY <1>1, <3>2, <4>1 DEF Others, Placeholder
    <3> QED BY <3>2, <3>6, <3>7 DEF Entry
  <2> QED BY <1>1, <1>2, <1>3, <1>4, <2>1, <2>2, <2>3 DEF RouteInv, RouteSteps
<1>7. CASE bpc = "high"
  <2> DEFINE pin == ioapic_for_gsi(find_iso_for_irq(1).gsi)
  <2>1. bpc' = "sti" /\ redir' = [redir EXCEPT ![pin].high = machine.bsp]
    BY <1>7 DEF KbdInit, RouteHigh
  <2>2. DOMAIN redir' = Pins /\ redir' = [p \in Pins |-> redir'[p]]
    BY <1>2, <2>1
  <2>3. ASSUME Wired
        PROVE  Others' /\ Entry' = [low |-> RoutedLow, high |-> machine.bsp]
    <3>1. UnitsMasked /\ Others /\ redir[machine.line.pin] = [low |-> RoutedLow, high |-> 0]
      BY <1>2, <1>7, <2>3 DEF RouteInv, Entry
    <3>2. pin = machine.line.pin /\ pin \in Pins
      BY <1>2, <2>3, <3>1, LinePin
    <3> HIDE DEF pin
    <3>3. redir'[pin] = [redir[pin] EXCEPT !.high = machine.bsp] /\ \A p \in Pins \ {pin} : redir'[p] = redir[p]
      BY <1>2, <2>1, <3>2
    <3>4. redir'[pin] = [low |-> RoutedLow, high |-> machine.bsp]
      BY <3>1, <3>2, <3>3, SMT
    <3>5. Others'
      BY <1>1, <1>3, <3>1, <3>2, <3>3, SMT DEF Others, Placeholder
    <3> QED BY <3>2, <3>4, <3>5 DEF Entry
  <2> QED BY <1>1, <1>2, <1>3, <1>4, <2>1, <2>2, <2>3 DEF RouteInv, RouteSteps
<1> QED BY <1>5, <1>6, <1>7 DEF KbdInit

LEMMA StiRoutes ==
  ASSUME RouteInv, Sti, UNCHANGED <<machine, g_ioapics, g_isos, ioapic_vars>>
  PROVE  RouteInv'
<1>1. /\ Wired' <=> Wired
      /\ Pins' = Pins /\ RoutedLow' = RoutedLow
      /\ \A x : Described(x)' = Described(x)
  BY WiredSame
<1>2. /\ bpc = "sti" /\ bpc' = "run" /\ machine' = machine /\ g_ioapics' = g_ioapics
      /\ g_ioapic_desc' = g_ioapic_desc /\ redir' = redir /\ opened' = opened
  BY DEF Sti, ioapic_vars
<1>3. UnitsMasked => UnitsMasked'
  BY <1>1, <1>2 DEF UnitsMasked
<1>4. (Others' <=> Others) /\ Entry' = Entry
  BY <1>1, <1>2 DEF Others, Entry, Placeholder
<1> QED BY <1>1, <1>2, <1>3, <1>4 DEF RouteInv, RouteSteps

\* ioapic_for_gsi, of the units described by D.
PinIn(D, gsi) ==
  LET has == {i \in DOMAIN D : gsi >= D[i].gsi_base /\ gsi <= D[i].gsi_base + D[i].max_redirs - 1}
  IN  IF has = {} THEN NULL
      ELSE LET i == CHOOSE i \in has : \A j \in has : i <= j
           IN  <<D[i].address, gsi - D[i].gsi_base>>

\* The call of x86_ioapic_mask_gsi that is under way is for a line that is not
\* the keyboard's, and what it has still to write back is as it was read.
CallInv ==
  mask # NoCall =>
    /\ bpc = "run"
    /\ mask = [pc |-> mask.pc, gsi |-> mask.gsi, masked |-> mask.masked,
               pin |-> mask.pin, entry |-> mask.entry]
    /\ mask.pc \in {"low", "high"} /\ mask.masked \in BOOLEAN
    /\ mask.gsi \in Nat /\ mask.gsi # machine.line.gsi
    /\ mask.pin = PinIn(g_ioapic_desc, mask.gsi) /\ mask.pin # NULL
    /\ mask.pc = "low" => mask.entry = redir[mask.pin]
    /\ mask.pc = "high" => mask.entry.high = redir[mask.pin].high

\* The pin of a GSI that is not the keyboard's is the pin of no other GSI, and
\* its entry is as its driver wants it.
OwnPin(gsi, pin) ==
  /\ pin \in Pins /\ pin # machine.line.pin /\ machine.line.pin \in Pins
  /\ redir[pin] = ClosedEntry(gsi \notin opened)
  /\ \A p \in Pins, u \in DOMAIN g_ioapics :
       g_ioapics[u].address = p[1] => ((g_ioapics[u].gsi_base + p[2] = gsi) <=> (p = pin))

LEMMA DriverPin ==
  ASSUME RouteInv, Wired, bpc = "run", NEW gsi \in Nat, gsi # machine.line.gsi,
         NEW pin, pin = PinIn(g_ioapic_desc, gsi), pin # NULL
  PROVE  OwnPin(gsi, pin)
<1>1. UnitsMasked /\ Others /\ UnitsThere
  BY DEF RouteInv, RouteSteps, Wired
<1>0. pin = ioapic_for_gsi(gsi)
  BY DEF PinIn, ioapic_for_gsi
<1>2. PICK i \in DOMAIN g_ioapics : gsi \in Gsis(i)
  BY <1>0, <1>1, ForGsi
<1>3. pin = PinOf(i, gsi)
  BY <1>0, <1>1, <1>2, ForGsi
<1>4. pin \in Pins /\ pin[1] = g_ioapics[i].address /\ g_ioapics[i].gsi_base + pin[2] = gsi
  BY <1>1, <1>2, <1>3, PinIs
<1>5. \A u \in DOMAIN g_ioapics : g_ioapics[u].address = g_ioapics[i].address => u = i
  BY <1>1 DEF UnitsThere
<1>6. \A u \in DOMAIN g_ioapics : gsi \in Gsis(u) => u = i
  BY <1>1, <1>2 DEF UnitsThere
<1>7. machine.line.pin # pin /\ machine.line.pin \in Pins
  <2>1. /\ machine.line.pin \in Pins
        /\ \E k \in DOMAIN g_ioapics :
             /\ machine.line.gsi \in Gsis(k) /\ machine.line.pin = PinOf(k, machine.line.gsi)
             /\ machine.line.pin[1] = g_ioapics[k].address
    BY <1>1, LinePin
  <2>2. PICK k \in DOMAIN g_ioapics :
          /\ machine.line.gsi \in Gsis(k) /\ machine.line.pin = PinOf(k, machine.line.gsi)
          /\ machine.line.pin[1] = g_ioapics[k].address
    BY <2>1
  <2>3. g_ioapics[k].gsi_base + machine.line.pin[2] = machine.line.gsi
    BY <1>1, <2>2, PinIs
  <2> QED BY <1>4, <1>5, <2>1, <2>2, <2>3
<1>8. redir[pin] = ClosedEntry(gsi \notin opened)
  <2> DEFINE g == g_ioapics[i].gsi_base + pin[2]
             b == g \notin opened
  <2>1. redir[pin] = [Placeholder EXCEPT !.low.masked = b]
    BY <1>1, <1>4, <1>7 DEF Others
  <2>2. g = gsi
    BY <1>4
  <2> HIDE DEF b, g
  <2>3. redir[pin] = ClosedEntry(b)
    BY <2>1, MaskedIs
  <2> QED BY <2>2, <2>3 DEF b
<1>9. ASSUME NEW p \in Pins, NEW u \in DOMAIN g_ioapics, g_ioapics[u].address = p[1]
      PROVE  (g_ioapics[u].gsi_base + p[2] = gsi) <=> (p = pin)
  <2> DEFINE g == g_ioapics[u].gsi_base + p[2]
  <2>1. g \in Gsis(u) /\ p = PinOf(u, g)
    BY <1>1, <1>9, PinOfUnit
  <2>2. p = pin => g = gsi
    BY <1>4, <1>5, <1>9
  <2>3. g = gsi => p = pin
    BY <1>3, <1>6, <2>1
  <2> QED BY <2>2, <2>3
<1> QED BY <1>4, <1>7, <1>8, <1>9 DEF OwnPin

\* The low register of a line written with another mask bit.
LEMMA LowWritten ==
  ASSUME RouteInv, bpc = "run", NEW gsi \in Nat, NEW m \in BOOLEAN, NEW pin, Wired => OwnPin(gsi, pin),
         bpc' = bpc, machine' = machine, g_ioapics' = g_ioapics, g_isos' = g_isos,
         g_ioapic_desc' = g_ioapic_desc,
         redir' = [redir EXCEPT ![pin].low = [redir[pin].low EXCEPT !.masked = m]],
         opened' = IF m THEN opened \ {gsi} ELSE opened \cup {gsi}
  PROVE  RouteInv'
<1>1. /\ Wired' <=> Wired
      /\ Pins' = Pins /\ RoutedLow' = RoutedLow
      /\ \A x : Described(x)' = Described(x)
  BY WiredSame
<1>2. DOMAIN redir = Pins /\ redir = [p \in Pins |-> redir[p]]
  BY DEF RouteInv
<1>3. DOMAIN redir' = Pins /\ redir' = [p \in Pins |-> redir'[p]]
  BY <1>2
<1>4. ASSUME Wired
      PROVE  UnitsMasked' /\ Others' /\ Entry' = [low |-> RoutedLow, high |-> machine.bsp]
  <2> DEFINE v == [redir[pin].low EXCEPT !.masked = m]
  <2>1. UnitsMasked /\ Others /\ Entry = [low |-> RoutedLow, high |-> machine.bsp]
    BY <1>4 DEF RouteInv, RouteSteps
  <2>2. /\ pin \in Pins /\ pin # machine.line.pin /\ machine.line.pin \in Pins
        /\ redir[pin] = ClosedEntry(gsi \notin opened)
        /\ \A p \in Pins, u \in DOMAIN g_ioapics :
             g_ioapics[u].address = p[1] => ((g_ioapics[u].gsi_base + p[2] = gsi) <=> (p = pin))
    BY <1>4 DEF OwnPin
  <2>3. UnitsMasked'
    BY <1>1, <2>1 DEF UnitsMasked
  <2>4. /\ redir'[pin] = [redir[pin] EXCEPT !.low = v]
        /\ \A p \in Pins \ {pin} : redir'[p] = redir[p]
    BY <1>2, <2>2
  <2>5. Entry' = Entry
    BY <2>2, <2>4 DEF Entry
  <2>6. redir'[pin] = ClosedEntry(m)
    <3> DEFINE b == gsi \notin opened
    <3>1. redir[pin] = ClosedEntry(b)
      BY <2>2
    <3> HIDE DEF b
    <3>2. ClosedEntry(b).low = ClosedLow(b)
      BY DEF ClosedEntry
    <3>3. v = [ClosedLow(b) EXCEPT !.masked = m]
      BY <3>1, <3>2
    <3> HIDE DEF v
    <3>4. [ClosedEntry(b) EXCEPT !.low.masked = m] = ClosedEntry(m)
      BY ClosedIs
    <3>5. [ClosedEntry(b) EXCEPT !.low.masked = m] = [ClosedEntry(b) EXCEPT !.low = v]
      BY <3>2, <3>3, SMT
    <3> QED BY <2>4, <3>1, <3>4, <3>5
  <2>7. (gsi \notin opened') = m
    <3>1. CASE m
      BY <3>1
    <3>2. CASE ~m
      BY <3>2
    <3> QED BY <3>1, <3>2
  <2> HIDE DEF v
  <2>8. ASSUME NEW p \in Pins \ {machine.line.pin}, NEW u \in DOMAIN g_ioapics,
               g_ioapics[u].address = p[1]
        PROVE  redir'[p] = [Placeholder EXCEPT !.low.masked = (g_ioapics[u].gsi_base + p[2]) \notin opened']
    <3> DEFINE g == g_ioapics[u].gsi_base + p[2]
    <3>1. CASE p = pin
      <4>1. g = gsi
        BY <2>2, <2>8, <3>1
      <4> HIDE DEF g
      <4>2. (g \notin opened') = m
        BY <2>7, <4>1
      <4>3. redir'[p] = [Placeholder EXCEPT !.low.masked = m]
        BY <2>6, <3>1, MaskedIs
      <4> QED BY <4>2, <4>3 DEF g
    <3>2. CASE p # pin
      <4>1. g # gsi
        BY <2>2, <2>8, <3>2
      <4>2. (g \in opened') <=> (g \in opened)
        BY <4>1
      <4>3. redir'[p] = redir[p]
        BY <2>4, <2>8, <3>2
      <4>4. redir[p] = [Placeholder EXCEPT !.low.masked = g \notin opened]
        BY <2>1, <2>8 DEF Others
      <4> QED BY <4>2, <4>3, <4>4
    <3> QED BY <3>1, <3>2
  <2>9. Others'
    <3>1. PICK r, o : r = redir' /\ o = opened'
      OBVIOUS
    <3>2. \A p \in Pins \ {machine.line.pin}, u \in DOMAIN g_ioapics :
            g_ioapics[u].address = p[1] =>
              r[p] = [Placeholder EXCEPT !.low.masked = (g_ioapics[u].gsi_base + p[2]) \notin o]
      BY <2>8, <3>1
    <3> QED BY <1>1, <3>1, <3>2, SMT DEF Others, Placeholder
  <2> QED BY <2>1, <2>3, <2>5, <2>9
<1> QED BY <1>1, <1>3, <1>4 DEF RouteInv, RouteSteps

\* The read of an entry changes no register.
LEMMA MaskReadKeeps ==
  ASSUME RouteInv, bpc = "run", NEW gsi \in Lines, NEW masked \in BOOLEAN,
         gsi # machine.line.gsi, MaskRead(gsi, masked), UNCHANGED <<bpc, fw_vars>>
  PROVE  RouteInv' /\ CallInv'
<1> DEFINE pin == PinIn(g_ioapic_desc, gsi)
<1>1. /\ bpc' = bpc /\ machine' = machine /\ g_ioapics' = g_ioapics /\ g_isos' = g_isos
      /\ g_ioapic_desc' = g_ioapic_desc /\ redir' = redir /\ opened' = opened
  BY DEF MaskRead, fw_vars
<1>2. RouteInv'
  BY <1>1, RouteQuiet
<1>3. pin = ioapic_for_gsi(gsi)
  BY DEF PinIn, ioapic_for_gsi
<1> HIDE DEF pin
<1>4. /\ pin # NULL
      /\ mask' = [pc |-> "low", gsi |-> gsi, masked |-> masked, pin |-> pin, entry |-> redir[pin]]
  BY <1>3 DEF MaskRead
<1>5. gsi \in Nat
  BY KeyboardAssumption
<1>6. /\ mask'.pc = "low" /\ mask'.gsi = gsi /\ mask'.masked = masked
      /\ mask'.pin = pin /\ mask'.entry = redir[pin]
  BY <1>4
<1>7. mask' = [pc |-> mask'.pc, gsi |-> mask'.gsi, masked |-> mask'.masked,
               pin |-> mask'.pin, entry |-> mask'.entry]
  BY <1>4, <1>6
<1>8. mask'.pin = PinIn(g_ioapic_desc', mask'.gsi)
  BY <1>1, <1>6 DEF pin
<1>9. CallInv'
  BY <1>1, <1>4, <1>5, <1>6, <1>7, <1>8 DEF CallInv
<1> QED BY <1>2, <1>9

\* The write of the low register changes the mask bit of the line.
LEMMA MaskLowKeeps ==
  ASSUME RouteInv, CallInv, MaskLow, UNCHANGED <<bpc, fw_vars>>
  PROVE  RouteInv' /\ CallInv'
<1>1. /\ bpc' = bpc /\ machine' = machine /\ g_ioapics' = g_ioapics /\ g_isos' = g_isos
      /\ g_ioapic_desc' = g_ioapic_desc
  BY DEF MaskLow, fw_vars
<1>2. mask.pc = "low" /\ mask # NoCall
  <2>1. NoCall.pc = "none" /\ mask.pc = "low"
    BY DEF MaskLow, NoCall
  <2> QED BY <2>1
<1>3. PICK a, gsi, m, pin, e :
        mask = [pc |-> a, gsi |-> gsi, masked |-> m, pin |-> pin, entry |-> e]
  BY <1>2 DEF CallInv
<1>4. mask.gsi = gsi /\ mask.masked = m /\ mask.pin = pin /\ mask.entry = e
  BY <1>3
<1>5. /\ bpc = "run" /\ m \in BOOLEAN /\ gsi \in Nat /\ gsi # machine.line.gsi
      /\ pin = PinIn(g_ioapic_desc, gsi) /\ pin # NULL /\ e = redir[pin]
  BY <1>2, <1>4 DEF CallInv
<1>6. /\ redir' = [redir EXCEPT ![pin].low = [redir[pin].low EXCEPT !.masked = m]]
      /\ opened' = IF m THEN opened \ {gsi} ELSE opened \cup {gsi}
  BY <1>4, <1>5 DEF MaskLow
<1>7. RouteInv'
  BY <1>1, <1>5, <1>6, DriverPin, LowWritten
<1>8. mask' = [pc |-> "high", gsi |-> gsi, masked |-> m, pin |-> pin, entry |-> e]
  BY <1>3, SMT DEF MaskLow
<1>9. CallInv'
  <2>1. /\ mask'.pc = "high" /\ mask'.gsi = gsi /\ mask'.masked = m
        /\ mask'.pin = pin /\ mask'.entry = e
    BY <1>8
  <2>2. mask' = [pc |-> mask'.pc, gsi |-> mask'.gsi, masked |-> mask'.masked,
                 pin |-> mask'.pin, entry |-> mask'.entry]
    BY <1>8, <2>1
  <2>3. mask'.pin = PinIn(g_ioapic_desc', mask'.gsi)
    BY <1>1, <1>5, <2>1
  <2>4. redir'[pin].high = redir[pin].high
    BY <1>6, SMT
  <2> QED BY <1>1, <1>5, <2>1, <2>2, <2>3, <2>4 DEF CallInv
<1> QED BY <1>7, <1>9

\* The write of the high register writes what is there.
LEMMA MaskHighKeeps ==
  ASSUME RouteInv, CallInv, MaskHigh, UNCHANGED <<bpc, fw_vars>>
  PROVE  RouteInv' /\ CallInv'
<1>1. /\ bpc' = bpc /\ machine' = machine /\ g_ioapics' = g_ioapics /\ g_isos' = g_isos
      /\ g_ioapic_desc' = g_ioapic_desc /\ opened' = opened
  BY DEF MaskHigh, fw_vars
<1>2. mask.pc = "high" /\ mask # NoCall
  <2>1. NoCall.pc = "none" /\ mask.pc = "high"
    BY DEF MaskHigh, NoCall
  <2> QED BY <2>1
<1>3. PICK gsi, pin : gsi = mask.gsi /\ pin = mask.pin
  OBVIOUS
<1>4. /\ bpc = "run" /\ gsi \in Nat /\ gsi # machine.line.gsi
      /\ pin = PinIn(g_ioapic_desc, gsi) /\ pin # NULL /\ mask.entry.high = redir[pin].high
  BY <1>2, <1>3 DEF CallInv
<1>5. redir' = [redir EXCEPT ![pin].high = redir[pin].high]
  BY <1>3, <1>4 DEF MaskHigh
<1>6. CallInv'
  BY DEF CallInv, MaskHigh
<1>7. DOMAIN redir = Pins /\ redir = [p \in Pins |-> redir[p]]
  BY DEF RouteInv
<1>8. Pins' = Pins /\ (Wired' <=> Wired)
  BY <1>1, WiredSame
<1>9. DOMAIN redir' = Pins /\ redir' = [p \in Pins |-> redir'[p]]
  BY <1>5, <1>7
<1>10. CASE Wired
  <2>1. pin \in Pins /\ redir[pin] = ClosedEntry(gsi \notin opened)
    BY <1>4, <1>10, DriverPin DEF OwnPin
  <2>2. redir'[pin] = [redir[pin] EXCEPT !.high = redir[pin].high]
    BY <1>5, <1>7, <2>1
  <2>3. redir'[pin] = redir[pin]
    <3> DEFINE l == ClosedLow(gsi \notin opened)
               h == 0
    <3>1. redir[pin] = [low |-> l, high |-> h]
      BY <2>1 DEF ClosedEntry
    <3> HIDE DEF l, h
    <3> QED BY <2>2, <3>1, SMT
  <2>4. \A p \in Pins : redir'[p] = redir[p]
    BY <1>5, <1>7, <2>1, <2>3
  <2>5. redir' = redir
    BY <1>7, <1>9, <2>4
  <2> QED BY <1>1, <1>6, <2>5, RouteQuiet
<1>11. CASE ~Wired
  BY <1>1, <1>4, <1>6, <1>8, <1>9, <1>11 DEF RouteInv, RouteSteps
<1> QED BY <1>10, <1>11

\* x86_ioapic_mask_gsi changes the entry of its own line, and no other.
LEMMA DriverRoutes ==
  ASSUME RouteInv, CallInv, DriverMasks
  PROVE  RouteInv' /\ CallInv'
<1>1. UNCHANGED <<bpc, fw_vars>>
  BY DEF DriverMasks
<1>2. CASE /\ bpc = "run"
           /\ \E gsi \in Lines, masked \in BOOLEAN :
                gsi # machine.line.gsi /\ MaskRead(gsi, masked)
  BY <1>1, <1>2, MaskReadKeeps
<1>3. CASE MaskLow
  BY <1>1, <1>3, MaskLowKeeps
<1>4. CASE MaskHigh
  BY <1>1, <1>4, MaskHighKeeps
<1> QED BY <1>2, <1>3, <1>4 DEF DriverMasks

\* No call is under way before arch_irq_init has returned, and other steps
\* leave the call that is under way alone.
LEMMA CallQuiet ==
  ASSUME CallInv, mask' = mask,
         \/ bpc # "run"
         \/ bpc' = bpc /\ machine' = machine /\ g_ioapic_desc' = g_ioapic_desc /\ redir' = redir
  PROVE  CallInv'
BY DEF CallInv, NoCall

\* Whatever the firmware left in the registers and whatever other drivers
\* do with their own lines, one call of x86_ioapic_mask_gsi after the other,
\* if the tables describe the machine the keyboard's line goes to the boot CPU
\* with its vector, and no other line is open that its driver has not opened:
\* for any number of units, pins and lines, and between any two writes.
THEOREM LineIsRouted == Spec => [](Wired => RouteExact)
<1>1. Init => RouteInv /\ CallInv
  <2> SUFFICES ASSUME Init PROVE RouteInv /\ CallInv
    OBVIOUS
  <2>1. /\ bpc = "acpi" /\ g_ioapic_desc = <<>> /\ mask = NoCall /\ opened = {}
        /\ redir = [p \in Pins |-> machine.left]
    BY DEF Init, IoapicStart
  <2> QED BY <2>1 DEF RouteInv, RouteSteps, CallInv
<1>2. RouteInv /\ CallInv /\ [Next]_vars => RouteInv' /\ CallInv'
  <2> SUFFICES ASSUME RouteInv, CallInv, [Next]_vars PROVE RouteInv' /\ CallInv'
    OBVIOUS
  <2>1. CASE UNCHANGED boot_vars
    <3>1. /\ bpc' = bpc /\ machine' = machine /\ g_ioapics' = g_ioapics /\ g_isos' = g_isos
          /\ g_ioapic_desc' = g_ioapic_desc /\ redir' = redir /\ opened' = opened /\ mask' = mask
      BY <2>1 DEF boot_vars, fw_vars, ioapic_vars
    <3> QED BY <3>1, RouteQuiet, CallQuiet
  <2>2. CASE Boot
    <3>1. ASSUME (AcpiInit \/ MadtInit) /\ UNCHANGED ioapic_vars PROVE RouteInv'
      BY <3>1, FirmwareRoutes
    <3>2. ASSUME PciEnumerate /\ UNCHANGED ioapic_vars PROVE RouteInv'
      BY <3>2, PciRoutes
    <3>3. ASSUME IoapicInit /\ UNCHANGED fw_vars PROVE RouteInv'
      BY <3>3, IoapicRoutes DEF fw_vars
    <3>4. ASSUME KbdInit /\ UNCHANGED fw_vars PROVE RouteInv'
      BY <3>4, KbdInitRoutes DEF fw_vars
    <3>5. ASSUME Sti /\ UNCHANGED <<fw_vars, ioapic_vars>> PROVE RouteInv'
      BY <3>5, StiRoutes DEF fw_vars
    <3>6. RouteInv'
      BY <2>2, <3>1, <3>2, <3>3, <3>4, <3>5 DEF Boot
    <3>7. bpc # "run" /\ mask' = mask
      BY <2>2 DEF Boot, AcpiInit, MadtInit, PciEnumerate, IoapicInit, KbdInit, RouteLow,
                  RouteHigh, Sti, ioapic_vars
    <3> QED BY <3>6, <3>7, CallQuiet
  <2>3. CASE DriverMasks
    BY <2>3, DriverRoutes
  <2>4. ASSUME NEW code \in Codes, Type(code) PROVE UNCHANGED boot_vars
    BY <2>4 DEF Type
  <2>5. CASE RaiseLevel
    BY <2>1, <2>5 DEF RaiseLevel
  <2>6. ASSUME NEW c \in CPUs, IsrStep(c) \/ KbdCall(c) \/ ThreadStep(c)
        PROVE  UNCHANGED boot_vars
    BY <2>6 DEF IsrStep, TakeIrq, KbdIrqLock, KbdIrqRead, KbdIrqCall, KbdIrqEoi, KbdCall,
                ThreadStep, KbdCallLock, KbdCallBody
  <2>7. CASE UNCHANGED vars
    BY <2>1, <2>7 DEF vars
  <2> QED BY <2>1, <2>2, <2>3, <2>4, <2>5, <2>6, <2>7 DEF Next
<1>3. RouteInv => (Wired => RouteExact)
  BY DEF RouteInv, RouteSteps, RouteExact, Others, RoutedLow
<1> QED BY <1>1, <1>2, <1>3, PTL DEF Spec
-----------------------------------------------------------------------------
(* The enumeration of the PCI buses.                                       *)

\* A frame: its function numbers above 0 are those of a device that has them.
Frame(f) ==
  /\ f \in Nat \X (0 .. PCI_DEVICES) \X Nat
  /\ f[3] # 0 => f[3] < PCI_FUNCTIONS /\ Present(<<f[1], f[2], 0>>) /\ machine.pci[<<f[1], f[2], 0>>].multi

\* Function g comes before the one of frame f in the scan of their bus.
Before(g, f) == g[2] < f[2] \/ (g[2] = f[2] /\ g[3] < f[3])

\* The functions of a list, and those that can be found on their bus.
In(list) == {list[i] : i \in DOMAIN list}
Once(list) == \A i, j \in DOMAIN list : list[i] = list[j] => i = j
Found(g) == g \in OnBus(g[1])
Secondary(f) == machine.pci[f].secondary

\* The frames below the innermost one are at bridges, each of which leads
\* to the bus of the next frame.
Stacked(s) ==
  /\ s \in Seq(Nat \X (0 .. PCI_DEVICES) \X Nat) /\ s # <<>> /\ s[1][1] = 0
  /\ \A j \in 1 .. Len(s) : Frame(s[j])
  /\ \A j \in 1 .. Len(s) - 1 :
       Present(s[j]) /\ Bridge(s[j]) /\ Secondary(s[j]) = s[j + 1][1]
  /\ \A i, j \in 1 .. Len(s) : i < j => s[i][1] < s[j][1]

\* The functions seen are, on the bus of a frame, those before it.
Passed(s, seen) ==
  \A j \in 1 .. Len(s), g \in DOMAIN machine.pci :
    g[1] = s[j][1] => (g \in seen <=> Found(g) /\ Before(g, s[j]))

\* A function that has been seen is on the bus of a frame, or behind a bridge
\* in the list.
Placed(s, list, g) ==
  \/ \E j \in 1 .. Len(s) : s[j][1] = g[1]
  \/ \E h \in In(list) : Bridge(h) /\ Secondary(h) = g[1]

\* The list holds a function once; and all functions behind a bridge in it
\* have been seen.
Scanned(s, list, drop) ==
  /\ Stacked(s)
  /\ list \in Seq(DOMAIN machine.pci) /\ drop \subseteq DOMAIN machine.pci
  /\ Once(list)
  /\ In(list) \cap drop = {}
  /\ Passed(s, In(list) \cup drop)
  /\ \A h \in In(list) : Bridge(h) => OnBus(Secondary(h)) \subseteq In(list) \cup drop
  /\ \A g \in In(list) \cup drop : Found(g) /\ Placed(s, list, g)

ScanInv == Scanned(scan, pci_device_list, dropped)

\* The innermost frame moves on to g; and a list gets f in front.
Moved(r, s, g) == r = [s EXCEPT ![Len(s)] = g]
Headed(r, f, s) == r = <<f>> \o s

\* The frames below the innermost one.
Lower(u, s) == u = SubSeq(s, 1, Len(s) - 1)

\* A frame for the bus behind f.
Pushed(r, s, f) == r = Append(s, <<machine.pci[f].secondary, 0, 0>>)

\* A set with one element, or one function, more; and f is not a function in a set.
Adds(new, old, f) == new = old \cup {f}
Sees(new, old, f) == new = old \cup ({f} \cap DOMAIN machine.pci)
NotIn(f, old) == f \notin old \cap DOMAIN machine.pci

\* Frames of s and r that are at the same buses.
SameBuses(r, s) == Len(r) = Len(s) /\ \A j \in 1 .. Len(s) : r[j][1] = s[j][1]
SameBelow(r, s) == \A j \in 1 .. Len(s) - 1 : r[j] = s[j]

PciInv ==
  /\ machine \in Machines
  /\ bpc \in {"acpi", "madt", "pci"} => ScanInv
  /\ PciExact

LEMMA FunctionIs ==
  ASSUME machine \in Machines, NEW g \in DOMAIN machine.pci
  PROVE  /\ g = <<g[1], g[2], g[3]>> /\ g[1] \in Nat
         /\ g[2] \in Nat /\ g[2] < PCI_DEVICES /\ g[3] \in Nat /\ g[3] < PCI_FUNCTIONS
         /\ PCI_DEVICES \in Nat /\ PCI_FUNCTIONS \in Nat
<1>1. /\ g \in Nat \X (0 .. PCI_DEVICES - 1) \X (0 .. PCI_FUNCTIONS - 1)
      /\ PCI_DEVICES \in Nat /\ PCI_FUNCTIONS \in Nat
  BY PciAssumption
<1> QED BY <1>1, SMT

\* The innermost frame, the intervals of a stack's indices, a list's
\* functions, the first frame of a bus and the frame past its last device.
LEMMA Innermost ==
  ASSUME NEW s, Stacked(s)
  PROVE  Len(s) \in Nat /\ Len(s) >= 1 /\ Len(s) \in 1 .. Len(s) /\ Frame(s[Len(s)])
<1>1. s \in Seq(Nat \X (0 .. PCI_DEVICES) \X Nat) /\ s # <<>>
  BY DEF Stacked
<1>2. Len(s) \in Nat /\ Len(s) >= 1 /\ Len(s) \in 1 .. Len(s)
  BY <1>1, SMT
<1> QED BY <1>2 DEF Stacked

LEMMA Upto ==
  ASSUME NEW n \in Nat
  PROVE  /\ \A j \in 1 .. n : j \in 1 .. n - 1 \/ j = n
         /\ \A j \in 1 .. n - 1 : j \in 1 .. n
BY SMT

LEMMA ListIn ==
  ASSUME NEW F, NEW list \in Seq(F)
  PROVE  In(list) \subseteq F
BY SMT DEF In

LEMMA FirstFrame ==
  ASSUME NEW b \in Nat
  PROVE  /\ <<b, 0, 0>> \in Nat \X (0 .. PCI_DEVICES) \X Nat
         /\ Frame(<<b, 0, 0>>) /\ <<b, 0, 0>>[1] = b
BY PciAssumption, SMT DEF Frame

LEMMA BusOver ==
  ASSUME machine \in Machines, NEW g \in DOMAIN machine.pci, NEW f, Frame(f), ~(f[2] < PCI_DEVICES)
  PROVE  Before(g, f)
<1>1. g[2] \in Nat /\ g[2] < PCI_DEVICES /\ PCI_DEVICES \in Nat
  BY FunctionIs
<1>2. f[2] \in Nat
  BY SMT DEF Frame
<1> QED BY <1>1, <1>2, SMT DEF Before

LEMMA BridgeIs ==
  ASSUME machine \in Machines, NEW f \in DOMAIN machine.pci, Bridge(f)
  PROVE  /\ Secondary(f) \in Nat /\ f[1] < Secondary(f) /\ Secondary(f) # 0
         /\ \A g \in DOMAIN machine.pci : Bridge(g) /\ Secondary(g) = Secondary(f) => f = g
<1>1. /\ Secondary(f) \in Nat /\ f[1] < Secondary(f)
      /\ \A g \in DOMAIN machine.pci :
           machine.pci[g].type = 1 /\ machine.pci[g].secondary = machine.pci[f].secondary => f = g
  BY PciAssumption DEF Bridge, Secondary
<1> QED BY <1>1 DEF Bridge, Secondary

\* A function that answers where a frame is, is found.
LEMMA FrameFound ==
  ASSUME NEW f, Frame(f), Present(f)
  PROVE  Found(f)
BY DEF Frame, Found, OnBus, Present

\* The frame after f: it has passed f, and nothing that can be found besides.
LEMMA AdvancedIs ==
  ASSUME machine \in Machines, NEW f, Frame(f), f[2] < PCI_DEVICES
  PROVE  /\ Frame(Advanced(f)) /\ Advanced(f)[1] = f[1]
         /\ \A g \in DOMAIN machine.pci : g[1] = f[1] /\ Found(g) =>
              (Before(g, Advanced(f)) <=> Before(g, f) \/ g = f)
<1>0. /\ f = <<f[1], f[2], f[3]>> /\ f[1] \in Nat /\ f[2] \in Nat /\ f[3] \in Nat
      /\ PCI_DEVICES \in Nat /\ PCI_FUNCTIONS \in Nat /\ f[2] + 1 \in 0 .. PCI_DEVICES
  BY PciAssumption, SMT DEF Frame
<1> DEFINE z == <<f[1], f[2], 0>>
           ends == ~Present(z) \/ ~machine.pci[z].multi \/ f[3] + 1 = PCI_FUNCTIONS
<1>1. CASE ends
  <2>1. Advanced(f) = <<f[1], f[2] + 1, 0>>
    BY <1>1 DEF Advanced
  <2>2. Frame(Advanced(f)) /\ Advanced(f)[1] = f[1]
    BY <1>0, <2>1, SMT DEF Frame
  <2>3. ASSUME NEW g \in DOMAIN machine.pci, g[1] = f[1], Found(g)
        PROVE  Before(g, Advanced(f)) <=> Before(g, f) \/ g = f
    <3>1. /\ g = <<g[1], g[2], g[3]>> /\ g[2] \in Nat /\ g[3] \in Nat /\ g[3] < PCI_FUNCTIONS
      BY FunctionIs
    <3>2. Before(g, Advanced(f)) <=> g[2] <= f[2]
      BY <1>0, <2>1, <3>1, SMT DEF Before
    <3>3. ASSUME g[2] = f[2] PROVE g[3] <= f[3]
      <4>1. CASE f[3] + 1 = PCI_FUNCTIONS
        BY <1>0, <3>1, <4>1, SMT
      <4>2. CASE ~Present(z) \/ ~machine.pci[z].multi
        <5>1. g[3] = 0
          BY <2>3, <3>3, <4>2 DEF Found, OnBus, Present
        <5> QED BY <1>0, <5>1, SMT
      <4> QED BY <1>1, <4>1, <4>2
    <3>4. g[2] = f[2] /\ g[3] = f[3] => g = f
      BY <1>0, <2>3, <3>1
    <3> QED BY <1>0, <3>1, <3>2, <3>3, <3>4, SMT DEF Before
  <2> QED BY <2>2, <2>3
<1>2. CASE ~ends
  <2>1. Advanced(f) = <<f[1], f[2], f[3] + 1>>
    BY <1>2 DEF Advanced
  <2>2. f[3] + 1 < PCI_FUNCTIONS
    BY <1>0, <1>2, FunctionIs, SMT DEF Frame, Present
  <2>3. Frame(Advanced(f)) /\ Advanced(f)[1] = f[1]
    BY <1>0, <1>2, <2>1, <2>2, SMT DEF Frame
  <2>4. ASSUME NEW g \in DOMAIN machine.pci, g[1] = f[1]
        PROVE  Before(g, Advanced(f)) <=> Before(g, f) \/ g = f
    <3>1. g = <<g[1], g[2], g[3]>> /\ g[2] \in Nat /\ g[3] \in Nat
      BY FunctionIs
    <3>2. g = f <=> g[2] = f[2] /\ g[3] = f[3]
      BY <1>0, <2>4, <3>1
    <3> QED BY <1>0, <2>1, <3>1, <3>2, SMT DEF Before
  <2> QED BY <2>3, <2>4
<1> QED BY <1>1, <1>2

\* The stack after its innermost frame has moved on.
LEMMA TopStacked ==
  ASSUME NEW s, NEW g, NEW r, Stacked(s), Frame(g), g[1] = s[Len(s)][1], Moved(r, s, g)
  PROVE  Stacked(r) /\ SameBuses(r, s) /\ r[Len(s)] = g /\ SameBelow(r, s)
<1> DEFINE T == Nat \X (0 .. PCI_DEVICES) \X Nat
<1>1. s \in Seq(T) /\ s # <<>> /\ g \in T /\ s[1][1] = 0
  BY DEF Stacked, Frame
<1> HIDE DEF T
<1>2. Len(s) \in Nat /\ Len(s) >= 1 /\ Len(s) \in 1 .. Len(s)
  BY <1>1, SMT
<1>3. /\ r \in Seq(T) /\ Len(r) = Len(s) /\ r[Len(s)] = g /\ r # <<>>
      /\ \A j \in 1 .. Len(s) : j # Len(s) => r[j] = s[j]
  BY <1>1, <1>2, SMT DEF Moved
<1>4. \A j \in 1 .. Len(s) : r[j][1] = s[j][1]
  BY <1>3
<1> DEFINE n == Len(s)
<1> HIDE DEF n
<1>5. n \in Nat /\ n >= 1 /\ n = Len(s)
  BY <1>2 DEF n
<1>6. \A j \in 1 .. n - 1 : j \in 1 .. n /\ j # n /\ j + 1 \in 1 .. n
  BY <1>5, SMT
<1>7. \A j \in 1 .. n - 1 : r[j] = s[j] /\ r[j + 1][1] = s[j + 1][1]
  BY <1>5, <1>6, <1>3, <1>4
<1>8. r[1][1] = 0 /\ \A i, j \in 1 .. n : i < j => r[i][1] < r[j][1]
  <2>1. \A i, j \in 1 .. n : i < j => s[i][1] < s[j][1]
    BY <1>5 DEF Stacked
  <2>2. 1 \in 1 .. n
    BY <1>5, SMT
  <2>3. \A j \in 1 .. n : r[j][1] = s[j][1]
    BY <1>5, <1>4
  <2> QED BY <1>1, <2>1, <2>2, <2>3
<1>9. \A j \in 1 .. Len(r) : Frame(r[j])
  BY <1>3 DEF Stacked
<1>10. \A j \in 1 .. n - 1 : Present(r[j]) /\ Bridge(r[j]) /\ Secondary(r[j]) = r[j + 1][1]
  <2>1. \A j \in 1 .. n - 1 : Present(s[j]) /\ Bridge(s[j]) /\ Secondary(s[j]) = s[j + 1][1]
    BY <1>5 DEF Stacked
  <2> QED BY <1>7, <2>1
<1>11. Len(r) = n /\ n = Len(s)
  BY <1>5, <1>3
<1>12. Stacked(r)
  BY <1>3, <1>7, <1>8, <1>9, <1>10, <1>11 DEF Stacked, T
<1>13. SameBuses(r, s) /\ SameBelow(r, s)
  BY <1>3, <1>4, <1>7, <1>11 DEF SameBuses, SameBelow
<1> QED BY <1>3, <1>12, <1>13

\* The list with one more function in front.
LEMMA Linked ==
  ASSUME NEW S, NEW s, NEW f, NEW r, s \in Seq(S), f \in S, Headed(r, f, s)
  PROVE  /\ r \in Seq(S)
         /\ Adds(In(r), In(s), f)
         /\ Once(s) /\ f \notin In(s) => Once(r)
<1>1. /\ r \in Seq(S) /\ Len(r) = Len(s) + 1 /\ r[1] = f /\ Len(s) \in Nat
      /\ \A i \in 1 .. Len(s) : r[i + 1] = s[i]
  BY SMT DEF Headed
<1>2. DOMAIN r = 1 .. Len(s) + 1 /\ DOMAIN s = 1 .. Len(s)
  BY <1>1, SMT
<1>3. \A i \in DOMAIN r : i # 1 => i - 1 \in DOMAIN s /\ r[i] = s[i - 1]
  BY <1>1, <1>2, SMT
<1>4. In(r) = In(s) \cup {f}
  <2>1. ASSUME NEW i \in DOMAIN r PROVE r[i] \in {s[k] : k \in DOMAIN s} \cup {f}
    BY <1>1, <1>3
  <2>2. ASSUME NEW i \in DOMAIN s PROVE s[i] \in {r[k] : k \in DOMAIN r}
    <3>1. i + 1 \in DOMAIN r /\ r[i + 1] = s[i]
      BY <1>1, <1>2, SMT
    <3> QED BY <3>1
  <2>3. f \in {r[k] : k \in DOMAIN r}
    BY <1>1, <1>2, SMT
  <2> QED BY <2>1, <2>2, <2>3 DEF In
<1>5. ASSUME Once(s), f \notin In(s),
             NEW i \in DOMAIN r, NEW j \in DOMAIN r, r[i] = r[j]
      PROVE  i = j
  <2>1. CASE i = 1 /\ j = 1
    BY <2>1
  <2>2. CASE i = 1 /\ j # 1
    BY <1>1, <1>3, <1>5, <2>2 DEF In
  <2>3. CASE i # 1 /\ j = 1
    BY <1>1, <1>3, <1>5, <2>3 DEF In
  <2>4. CASE i # 1 /\ j # 1
    <3>1. i - 1 = j - 1
      BY <1>3, <1>5, <2>4 DEF Once
    <3> QED BY <1>2, <3>1, SMT
  <2> QED BY <2>1, <2>2, <2>3, <2>4
<1>6. Once(s) /\ f \notin In(s) => Once(r)
  BY <1>5 DEF Once
<1> QED BY <1>1, <1>4, <1>6 DEF Adds

\* The innermost frame moves on, and its function has been seen.
LEMMA Passes ==
  ASSUME NEW s, NEW f, NEW old, NEW r, NEW new, machine \in Machines,
         Stacked(s), f = s[Len(s)], f[2] < PCI_DEVICES, Passed(s, old),
         Moved(r, s, Advanced(f)), Sees(new, old, f)
  PROVE  /\ Stacked(r) /\ SameBuses(r, s)
         /\ Passed(r, new)
         /\ NotIn(f, old) /\ (f \in DOMAIN machine.pci => Found(f))
<1> DEFINE n == Len(s)
           F == DOMAIN machine.pci
<1>1. n \in Nat /\ n \in 1 .. n /\ Frame(f)
  <2>1. n \in Nat /\ n >= 1
    BY SMT DEF Stacked
  <2>2. n \in 1 .. n
    BY <2>1, SMT
  <2> QED BY <2>1, <2>2 DEF Stacked
<1>2. /\ Frame(Advanced(f)) /\ Advanced(f)[1] = f[1]
      /\ \A g \in F : g[1] = f[1] /\ Found(g) => (Before(g, Advanced(f)) <=> Before(g, f) \/ g = f)
  BY <1>1, AdvancedIs
<1>3. Stacked(r) /\ Len(r) = n /\ r[n] = Advanced(f) /\ \A j \in 1 .. n - 1 : r[j] = s[j]
  <2>1. PICK a : a = Advanced(f)
    OBVIOUS
  <2>2. Frame(a) /\ a[1] = s[Len(s)][1] /\ Moved(r, s, a)
    BY <1>2, <2>1
  <2>3. Stacked(r) /\ SameBuses(r, s) /\ r[n] = a /\ SameBelow(r, s)
    BY <2>2, TopStacked
  <2> QED BY <2>1, <2>3 DEF SameBuses, SameBelow
<1>4. \A j \in 1 .. n : j = n \/ j \in 1 .. n - 1
  BY <1>1, SMT
<1>5. \A j \in 1 .. n : r[j][1] = s[j][1]
  BY <1>2, <1>3, <1>4
<1>6. f \in F => Found(f)
  BY <1>1, FrameFound DEF Present
<1>7. ~Before(f, f)
  BY <1>1, SMT DEF Before, Frame
<1>8. f \notin old \cap F
  BY <1>1, <1>7 DEF Passed
<1>9. ASSUME NEW j \in 1 .. n, NEW g \in F, g[1] = r[j][1]
      PROVE  g \in new <=> Found(g) /\ Before(g, r[j])
  <2>1. g \in old <=> Found(g) /\ Before(g, s[j])
    BY <1>5, <1>9 DEF Passed
  <2>2. g \in new <=> g \in old \/ g = f
    BY <1>9 DEF Sees
  <2>3. CASE j = n
    <3>1. g[1] = f[1]
      BY <1>5, <1>9, <2>3
    <3> QED BY <1>2, <1>3, <1>6, <2>1, <2>2, <2>3, <3>1
  <2>4. CASE j # n
    <3>1. j \in 1 .. n - 1 /\ r[j] = s[j] /\ j < n
      BY <1>1, <1>3, <2>4, SMT
    <3>2. s[j][1] < f[1]
      BY <1>1, <3>1 DEF Stacked
    <3>3. s[j][1] \in Nat
      BY DEF Stacked, Frame
    <3>4. g # f
      BY <1>9, <3>1, <3>2, <3>3, SMT
    <3> QED BY <2>1, <2>2, <3>1, <3>4
  <2> QED BY <2>3, <2>4
<1>10. Passed(r, new)
  BY <1>3, <1>9 DEF Passed
<1>11. SameBuses(r, s)
  BY <1>3, <1>5 DEF SameBuses
<1> QED BY <1>3, <1>6, <1>8, <1>10, <1>11 DEF NotIn

\* A function that is skipped: it is dropped if it is there.
LEMMA Skips ==
  ASSUME NEW s, NEW list, NEW drop, NEW f, NEW r, NEW d, machine \in Machines,
         Scanned(s, list, drop), f = s[Len(s)], f[2] < PCI_DEVICES,
         Moved(r, s, Advanced(f)), Sees(d, drop, f)
  PROVE  Scanned(r, list, d)
<1> DEFINE old == In(list) \cup drop
           new == In(list) \cup d
<1>1. Stacked(s) /\ Passed(s, old) /\ new = old \cup ({f} \cap DOMAIN machine.pci)
  BY DEF Scanned, Sees
<1>2. /\ Stacked(r) /\ SameBuses(r, s)
      /\ Passed(r, new)
      /\ f \notin old \cap DOMAIN machine.pci /\ (f \in DOMAIN machine.pci => Found(f))
  <2>1. PICK o, n : o = old /\ n = new
    OBVIOUS
  <2>2. Passed(s, o) /\ Sees(n, o, f)
    BY <1>1, <2>1 DEF Sees
  <2>3. Stacked(r) /\ SameBuses(r, s) /\ Passed(r, n)
        /\ NotIn(f, o) /\ (f \in DOMAIN machine.pci => Found(f))
    BY <1>1, <2>2, Passes
  <2> QED BY <2>1, <2>3 DEF NotIn
<1>3. Len(s) \in 1 .. Len(s)
  BY <1>1, SMT DEF Stacked
<1>4. In(list) \cap d = {} /\ d \subseteq DOMAIN machine.pci
  BY <1>2 DEF Scanned, Sees
<1>5. ASSUME NEW g \in new PROVE Found(g) /\ Placed(r, list, g)
  <2>1. CASE g \in old
    <3>1. Found(g) /\ Placed(s, list, g)
      BY <2>1 DEF Scanned
    <3> QED BY <1>2, <3>1 DEF Placed, SameBuses
  <2>2. CASE g = f /\ g \in DOMAIN machine.pci
    <3>1. r[Len(s)][1] = g[1]
      BY <1>2, <1>3, <2>2 DEF SameBuses
    <3> QED BY <1>2, <1>3, <2>2, <3>1 DEF Placed, SameBuses
  <2> QED BY <1>1, <2>1, <2>2
<1>6. /\ list \in Seq(DOMAIN machine.pci)
      /\ Once(list)
      /\ \A h \in In(list) : Bridge(h) => OnBus(Secondary(h)) \subseteq new
  BY DEF Scanned, Sees
<1> QED BY <1>2, <1>4, <1>5, <1>6 DEF Scanned

\* A function that is put in the list, behind which all have been seen if it
\* is a bridge.
LEMMA Links ==
  ASSUME NEW s, NEW list, NEW drop, NEW f, NEW r, NEW l, machine \in Machines,
         f = s[Len(s)], Present(f), Moved(r, s, Advanced(f)), Headed(l, f, list),
         Stacked(s), list \in Seq(DOMAIN machine.pci), drop \subseteq DOMAIN machine.pci,
         Once(list),
         In(list) \cap drop = {}, Passed(s, In(list) \cup drop),
         \A h \in In(list) \cup {f} : Bridge(h) => OnBus(Secondary(h)) \subseteq In(list) \cup drop,
         \A g \in In(list) \cup drop :
           Found(g) /\ (Placed(s, list, g) \/ (Bridge(f) /\ Secondary(f) = g[1]))
  PROVE  Scanned(r, l, drop)
<1> DEFINE old == In(list) \cup drop
           new == In(l) \cup drop
           F == DOMAIN machine.pci
<1>1. f \in F /\ f[2] < PCI_DEVICES
  BY FunctionIs DEF Present
<1>2. l \in Seq(F) /\ In(l) = In(list) \cup {f}
      /\ (f \notin In(list) => Once(l))
  <2>1. PICK S : S = F
    OBVIOUS
  <2>2. list \in Seq(S) /\ f \in S
    BY <1>1, <2>1
  <2>3. l \in Seq(S) /\ Adds(In(l), In(list), f) /\ (Once(list) /\ f \notin In(list) => Once(l))
    BY <2>2, Linked
  <2> QED BY <2>1, <2>3 DEF Adds
<1>3. new = old \cup ({f} \cap F) /\ new = old \cup {f}
  BY <1>1, <1>2
<1>4. /\ Stacked(r) /\ SameBuses(r, s)
      /\ Passed(r, new) /\ f \notin old \cap F /\ (f \in F => Found(f))
  <2>1. PICK o, n : o = old /\ n = new
    OBVIOUS
  <2>2. Passed(s, o) /\ Sees(n, o, f)
    BY <1>3, <2>1 DEF Sees
  <2>3. Stacked(r) /\ SameBuses(r, s) /\ Passed(r, n)
        /\ NotIn(f, o) /\ (f \in DOMAIN machine.pci => Found(f))
    BY <1>1, <2>2, Passes
  <2> QED BY <2>1, <2>3 DEF NotIn
<1>5. Len(s) \in 1 .. Len(s)
  BY Innermost
<1>6. f \notin In(list) /\ f \notin drop
  BY <1>1, <1>4
<1>7. In(l) \cap drop = {}
  BY <1>2, <1>6
<1>8. ASSUME NEW g \in new PROVE Found(g) /\ Placed(r, l, g)
  <2>1. CASE g \in old
    <3>1. Found(g) /\ (Placed(s, list, g) \/ (Bridge(f) /\ Secondary(f) = g[1]))
      BY <2>1
    <3>2. f \in In(l) /\ In(list) \subseteq In(l)
      BY <1>2
    <3> QED BY <1>4, <3>1, <3>2 DEF Placed, SameBuses
  <2>2. CASE g = f
    <3>1. r[Len(s)][1] = g[1]
      BY <1>4, <1>5, <2>2 DEF SameBuses
    <3> QED BY <1>1, <1>4, <1>5, <2>2, <3>1 DEF Placed, SameBuses
  <2> QED BY <1>3, <2>1, <2>2
<1>9. \A h \in In(l) : Bridge(h) => OnBus(Secondary(h)) \subseteq new
  BY <1>2, <1>3
<1> QED BY <1>2, <1>4, <1>6, <1>7, <1>8, <1>9 DEF Scanned

\* The stack without its innermost frame.
LEMMA LowerStacked ==
  ASSUME NEW s, NEW u, Stacked(s), Len(s) > 1, Lower(u, s)
  PROVE  /\ Stacked(u) /\ SameBelow(u, s) /\ Len(u) = Len(s) - 1 /\ Len(s) \in Nat
         /\ Present(u[Len(u)]) /\ Bridge(u[Len(u)]) /\ Secondary(u[Len(u)]) = s[Len(s)][1]
<1> DEFINE T == Nat \X (0 .. PCI_DEVICES) \X Nat
           n == Len(s)
<1>1. s \in Seq(T) /\ s[1][1] = 0
  BY DEF Stacked
<1> HIDE DEF T
<1>2. n \in Nat /\ n - 1 \in Nat /\ n - 1 >= 1 /\ n - 1 + 1 = n
  BY <1>1, SMT
<1>3. u \in Seq(T) /\ Len(u) = n - 1 /\ \A j \in 1 .. n - 1 : u[j] = s[j]
  BY <1>1, <1>2, SMT DEF Lower
<1> HIDE DEF n
<1>4. u # <<>> /\ u[1][1] = 0
  BY <1>1, <1>2, <1>3, SMT
<1>5. /\ \A j \in 1 .. n - 1 : j \in 1 .. n
      /\ \A j \in 1 .. n - 1 - 1 : j \in 1 .. n - 1 /\ j + 1 \in 1 .. n - 1
      /\ n - 1 \in 1 .. n - 1
  BY <1>2, SMT
<1>6. /\ \A j \in 1 .. n : Frame(s[j])
      /\ \A j \in 1 .. n - 1 : Present(s[j]) /\ Bridge(s[j]) /\ Secondary(s[j]) = s[j + 1][1]
      /\ \A i, j \in 1 .. n : i < j => s[i][1] < s[j][1]
  BY DEF Stacked, n
<1>7. \A j \in 1 .. n - 1 : Frame(u[j])
  BY <1>3, <1>5, <1>6
<1>8. \A j \in 1 .. n - 1 - 1 : Present(u[j]) /\ Bridge(u[j]) /\ Secondary(u[j]) = u[j + 1][1]
  BY <1>3, <1>5, <1>6
<1>9. \A i, j \in 1 .. n - 1 : i < j => u[i][1] < u[j][1]
  BY <1>3, <1>5, <1>6
<1>10. Stacked(u)
  BY <1>3, <1>4, <1>7, <1>8, <1>9 DEF Stacked, T
<1>11. Present(u[n - 1]) /\ Bridge(u[n - 1]) /\ Secondary(u[n - 1]) = s[n][1]
  <2>1. s[n - 1 + 1] = s[n]
    BY <1>2
  <2> QED BY <1>3, <1>5, <1>6, <2>1
<1> QED BY <1>2, <1>3, <1>10, <1>11 DEF SameBelow, n

\* The scan of a bus is over: the bridge to it is put in the list.
LEMMA Returns ==
  ASSUME NEW s, NEW list, NEW drop, NEW u, NEW f, NEW r, NEW l, machine \in Machines,
         Scanned(s, list, drop), Len(s) > 1, ~(s[Len(s)][2] < PCI_DEVICES),
         Lower(u, s), f = u[Len(u)], Moved(r, u, Advanced(f)), Headed(l, f, list)
  PROVE  Scanned(r, l, drop)
<1> DEFINE n == Len(s)
           seen == In(list) \cup drop
           F == DOMAIN machine.pci
<1>1. /\ Stacked(s) /\ list \in Seq(F) /\ drop \subseteq F /\ Once(list) /\ In(list) \cap drop = {}
      /\ Passed(s, seen)
      /\ \A h \in In(list) : Bridge(h) => OnBus(Secondary(h)) \subseteq seen
      /\ \A g \in seen : Found(g) /\ Placed(s, list, g)
  BY DEF Scanned
<1>2. /\ Stacked(u) /\ \A j \in 1 .. n - 1 : u[j] = s[j]
      /\ Len(u) = n - 1 /\ n \in Nat /\ n > 1
      /\ Present(f) /\ Bridge(f) /\ Secondary(f) = s[n][1]
  BY <1>1, LowerStacked, SMT DEF SameBelow
<1>3. \A j \in 1 .. n : j \in 1 .. n - 1 \/ j = n
  BY <1>2, Upto
<1>4. \A j \in 1 .. n - 1 : j \in 1 .. n
  BY <1>2, Upto
<1>5. Passed(u, seen)
  BY <1>1, <1>2, <1>4 DEF Passed
<1>6. ASSUME NEW g \in OnBus(s[n][1]) PROVE g \in seen
  <2>1. g \in F /\ g[1] = s[n][1] /\ Found(g)
    BY <1>6 DEF OnBus, Found
  <2>2. n \in 1 .. n /\ Frame(s[n])
    BY <1>1, Innermost
  <2>3. Before(g, s[n])
    BY <2>1, <2>2, BusOver
  <2> QED BY <1>1, <2>1, <2>2, <2>3 DEF Passed
<1>7. \A h \in In(list) \cup {f} : Bridge(h) => OnBus(Secondary(h)) \subseteq seen
  BY <1>1, <1>2, <1>6
<1>8. ASSUME NEW g \in seen
      PROVE  Found(g) /\ (Placed(u, list, g) \/ (Bridge(f) /\ Secondary(f) = g[1]))
  <2>1. Found(g) /\ Placed(s, list, g)
    BY <1>1, <1>8
  <2>2. CASE \E h \in In(list) : Bridge(h) /\ Secondary(h) = g[1]
    BY <2>1, <2>2 DEF Placed
  <2>3. CASE \E j \in 1 .. n : s[j][1] = g[1]
    <3>1. PICK j \in 1 .. n : s[j][1] = g[1]
      BY <2>3
    <3>2. CASE j = n
      BY <1>2, <2>1, <3>1, <3>2
    <3>3. CASE j \in 1 .. n - 1
      BY <1>2, <2>1, <3>1, <3>3 DEF Placed
    <3> QED BY <1>3, <3>2, <3>3
  <2> QED BY <2>1, <2>2, <2>3 DEF Placed
<1> HIDE DEF n
<1> QED BY <1>1, <1>2, <1>5, <1>7, <1>8, Links

\* The frame of a bus that no function seen is on.
LEMMA Descends ==
  ASSUME NEW s, NEW list, NEW drop, NEW f, NEW r, machine \in Machines,
         Scanned(s, list, drop), f = s[Len(s)], Present(f), Bridge(f),
         Pushed(r, s, f)
  PROVE  Scanned(r, list, drop)
<1> DEFINE n == Len(s)
           seen == In(list) \cup drop
           F == DOMAIN machine.pci
           T == Nat \X (0 .. PCI_DEVICES) \X Nat
           b == <<Secondary(f), 0, 0>>
<1>1. /\ Stacked(s) /\ list \in Seq(F) /\ drop \subseteq F /\ Once(list) /\ In(list) \cap drop = {}
      /\ Passed(s, seen)
      /\ \A h \in In(list) : Bridge(h) => OnBus(Secondary(h)) \subseteq seen
      /\ \A g \in seen : Found(g) /\ Placed(s, list, g)
  BY DEF Scanned
<1>2. /\ f \in F /\ Secondary(f) \in Nat /\ f[1] < Secondary(f)
      /\ \A g \in F : Bridge(g) /\ Secondary(g) = Secondary(f) => f = g
  BY BridgeIs DEF Present
<1>3. b \in T /\ Frame(b) /\ b[1] = Secondary(f)
  BY <1>2, FirstFrame
<1>4. s \in Seq(T) /\ s[1][1] = 0 /\ s # <<>>
  BY <1>1 DEF Stacked
<1>5. n \in Nat /\ n >= 1 /\ n \in 1 .. n /\ n + 1 - 1 = n
  <2>1. n \in Nat /\ n >= 1 /\ n \in 1 .. n
    BY <1>1, Innermost
  <2> HIDE DEF n
  <2> QED BY <2>1, SMT
<1>6. r \in Seq(T) /\ Len(r) = n + 1 /\ r[n + 1] = b /\ r # <<>> /\ \A j \in 1 .. n : r[j] = s[j]
  <2> HIDE DEF T, b
  <2>1. r = Append(s, b)
    BY DEF Pushed, Secondary, b
  <2> QED BY <1>3, <1>4, <1>5, <2>1, SMT
<1>7. /\ \A j \in 1 .. n : Frame(s[j])
      /\ \A j \in 1 .. n - 1 : Present(s[j]) /\ Bridge(s[j]) /\ Secondary(s[j]) = s[j + 1][1]
      /\ \A i, j \in 1 .. n : i < j => s[i][1] < s[j][1]
  BY <1>1 DEF Stacked
<1>8. f = s[n] /\ Len(s) = n
  OBVIOUS
<1> HIDE DEF n
<1>9. \A j \in 1 .. n + 1 : j \in 1 .. n \/ j = n + 1
  BY <1>5, SMT
<1>10. \A j \in 1 .. n : j = n \/ (j \in 1 .. n - 1 /\ j + 1 \in 1 .. n)
  BY <1>5, SMT
<1>11. \A j \in 1 .. n : s[j][1] \in Nat /\ s[j][1] < Secondary(f)
  <2>1. ASSUME NEW j \in 1 .. n PROVE s[j][1] \in Nat /\ s[j][1] < Secondary(f)
    <3>1. s[j][1] \in Nat /\ f[1] \in Nat
      BY <1>5, <1>7, <1>8, <2>1 DEF Frame
    <3>2. j = n \/ j < n
      BY <1>5, SMT
    <3>3. s[j][1] <= f[1]
      BY <1>5, <1>7, <1>8, <2>1, <3>1, <3>2, SMT
    <3> QED BY <1>2, <3>1, <3>3, SMT
  <2> QED BY <2>1
<1>12. Stacked(r)
  <2> HIDE DEF b
  <2>1. r[1][1] = 0
    <3>1. 1 \in 1 .. n
      BY <1>5, SMT
    <3> QED BY <1>4, <1>6, <3>1
  <2>2. \A j \in 1 .. n + 1 : Frame(r[j])
    BY <1>3, <1>6, <1>9, <1>7
  <2>3. ASSUME NEW j \in 1 .. n PROVE Present(r[j]) /\ Bridge(r[j]) /\ Secondary(r[j]) = r[j + 1][1]
    <3>1. CASE j = n
      <4>1. r[j] = f /\ r[j + 1] = b
        BY <1>6, <1>8, <2>3, <3>1
      <4> QED BY <1>3, <4>1
    <3>2. CASE j \in 1 .. n - 1 /\ j + 1 \in 1 .. n
      BY <1>6, <1>7, <2>3, <3>2
    <3> QED BY <1>10, <3>1, <3>2
  <2>4. ASSUME NEW i \in 1 .. n + 1, NEW j \in 1 .. n + 1, i < j PROVE r[i][1] < r[j][1]
    <3>1. i \in 1 .. n
      BY <1>5, <2>4, SMT
    <3>2. CASE j \in 1 .. n
      BY <1>6, <1>7, <2>4, <3>1, <3>2
    <3>3. CASE j = n + 1
      BY <1>3, <1>6, <1>11, <3>1, <3>3
    <3> QED BY <1>9, <3>2, <3>3
  <2> DEFINE m == n + 1
  <2>5. m = Len(r) /\ m - 1 = n
    BY <1>5, <1>6, SMT
  <2>6. /\ \A j \in 1 .. m : Frame(r[j])
        /\ \A j \in 1 .. m - 1 : Present(r[j]) /\ Bridge(r[j]) /\ Secondary(r[j]) = r[j + 1][1]
        /\ \A i, j \in 1 .. m : i < j => r[i][1] < r[j][1]
    BY <2>2, <2>3, <2>4, <2>5
  <2> HIDE DEF m
  <2> QED BY <1>6, <2>1, <2>5, <2>6 DEF Stacked
<1>13. f \notin In(list)
  <2>1. Frame(f)
    BY <1>5, <1>7, <1>8
  <2>2. ~Before(f, f)
    BY <2>1, SMT DEF Before, Frame
  <2>3. f \notin seen
    BY <1>1, <1>2, <1>5, <1>8, <2>2 DEF Passed
  <2> QED BY <2>3
<1>14. In(list) \subseteq F
  BY <1>1, ListIn
<1>15. ASSUME NEW g \in F, g[1] = Secondary(f) PROVE g \notin seen
  <2>1. SUFFICES ASSUME g \in seen PROVE FALSE
    OBVIOUS
  <2>2. CASE \E j \in 1 .. n : s[j][1] = g[1]
    BY <1>2, <1>11, <1>15, <2>2, SMT
  <2>3. CASE \E h \in In(list) : Bridge(h) /\ Secondary(h) = g[1]
    BY <1>2, <1>13, <1>14, <1>15, <2>3
  <2> QED BY <1>1, <1>8, <2>1, <2>2, <2>3 DEF Placed
<1>16. \A g \in F : ~Before(g, b)
  <2> SUFFICES ASSUME NEW g \in F PROVE ~Before(g, b)
    OBVIOUS
  <2>1. g[2] \in Nat /\ g[3] \in Nat
    BY FunctionIs
  <2> QED BY <2>1, SMT DEF Before
<1>17. Passed(r, seen)
  <2> SUFFICES ASSUME NEW j \in 1 .. n + 1, NEW g \in F, g[1] = r[j][1]
               PROVE  g \in seen <=> Found(g) /\ Before(g, r[j])
    BY <1>6 DEF Passed
  <2>1. CASE j \in 1 .. n
    BY <1>1, <1>6, <1>8, <2>1 DEF Passed
  <2>2. CASE j = n + 1
    BY <1>3, <1>6, <1>15, <1>16, <2>2
  <2> QED BY <1>9, <2>1, <2>2
<1>18. \A g \in seen : Found(g) /\ Placed(r, list, g)
  <2>1. \A j \in 1 .. n : j \in 1 .. n + 1
    BY <1>5, SMT
  <2> QED BY <1>1, <1>6, <1>8, <2>1 DEF Placed
<1> QED BY <1>1, <1>12, <1>17, <1>18 DEF Scanned

\* What PciExact says of the list.
AllListed ==
  /\ In(pci_device_list) = Reachable \ dropped
  /\ Once(pci_device_list)

\* The scan of bus 0 is over: the functions seen are those of the buses that
\* can be reached.
LEMMA ScanEnds ==
  ASSUME machine \in Machines, ScanInv, Len(scan) = 1, ~(scan[1][2] < PCI_DEVICES)
  PROVE  AllListed
<1> DEFINE list == pci_device_list
           seen == In(list) \cup dropped
           F == DOMAIN machine.pci
<1>1. /\ Stacked(scan) /\ list \in Seq(F) /\ dropped \subseteq F /\ Once(list)
      /\ In(list) \cap dropped = {} /\ Passed(scan, seen)
      /\ \A h \in In(list) : Bridge(h) => OnBus(Secondary(h)) \subseteq seen
      /\ \A g \in seen : Found(g) /\ Placed(scan, list, g)
  BY DEF ScanInv, Scanned
<1>2. 1 \in 1 .. Len(scan) /\ Frame(scan[1]) /\ scan[1][1] = 0
  BY <1>1, SMT DEF Stacked
<1>3. seen \subseteq F
  <2>1. In(list) \subseteq F
    BY <1>1, ListIn
  <2> QED BY <1>1, <2>1
<1>4. OnBus(0) \subseteq seen
  <2> SUFFICES ASSUME NEW g \in OnBus(0) PROVE g \in seen
    OBVIOUS
  <2>1. g \in F /\ g[1] = 0 /\ Found(g)
    BY DEF OnBus, Found
  <2>2. Before(g, scan[1])
    BY <1>2, <2>1, BusOver
  <2> QED BY <1>1, <1>2, <2>1, <2>2 DEF Passed
<1>5. \A g \in seen : g[1] = 0 \/ \E h \in In(list) : Bridge(h) /\ Secondary(h) = g[1]
  <2>1. \A j \in 1 .. Len(scan) : scan[j][1] = 0
    BY <1>2, SMT
  <2> QED BY <1>1, <2>1 DEF Placed
<1>6. ASSUME NEW b \in Buses PROVE OnBus(b) \ dropped \subseteq In(list)
  <2> DEFINE B == {c \in AllBuses : OnBus(c) \subseteq seen}
  <2>1. 0 \in B
    BY <1>4 DEF AllBuses
  <2>2. ASSUME NEW c \in B, NEW f \in OnBus(c) \ dropped, Bridge(f) PROVE Secondary(f) \in B
    <3>1. f \in In(list) /\ f \in F
      BY <1>3, <2>2
    <3>2. OnBus(Secondary(f)) \subseteq seen
      BY <1>1, <2>2, <3>1
    <3>3. Secondary(f) \in AllBuses
      BY <3>1 DEF AllBuses, Secondary
    <3> QED BY <3>2, <3>3
  <2>3. Closed(B)
    BY <2>1, <2>2 DEF Closed, Secondary
  <2>4. B \in SUBSET AllBuses
    OBVIOUS
  <2>5. b \in B
    <3> HIDE DEF B
    <3> QED BY <2>3, <2>4 DEF Buses
  <2> QED BY <2>5
<1>7. ASSUME NEW B \in SUBSET AllBuses, Closed(B) PROVE \A g \in seen : g[1] \in B
  <2> DEFINE T == {g[1] : g \in {x \in seen : x[1] \notin B}}
  <2> SUFFICES ASSUME T # {} PROVE FALSE
    OBVIOUS
  <2>1. T \subseteq Nat
    BY <1>3, FunctionIs
  <2>2. PICK x \in T : \A y \in T : x <= y
    <3> HIDE DEF T
    <3> QED BY <2>1, Least
  <2>3. PICK g \in seen : g[1] = x /\ x \notin B
    OBVIOUS
  <2>4. x # 0
    BY <1>7, <2>3 DEF Closed
  <2>5. PICK h \in In(list) : Bridge(h) /\ Secondary(h) = x
    BY <1>5, <2>3, <2>4
  <2>6. h \in F /\ h \in seen /\ h \notin dropped /\ h \in OnBus(h[1])
    BY <1>1, <1>3 DEF Found
  <2>7. h[1] \in Nat /\ x \in Nat /\ h[1] < x
    BY <2>5, <2>6, BridgeIs, FunctionIs
  <2>8. h[1] \in B
    BY <2>2, <2>6, <2>7, SMT
  <2>9. Secondary(h) \in B
    BY <1>7, <2>5, <2>6, <2>8 DEF Closed, Secondary
  <2> QED BY <2>3, <2>5, <2>9
<1>8. ASSUME NEW g \in In(list) PROVE g \in OnBus(g[1]) /\ g[1] \in Buses /\ g \notin dropped
  <2>1. g \in seen /\ g \notin dropped /\ g \in OnBus(g[1])
    BY <1>1, <1>8 DEF Found
  <2>2. g[1] \in AllBuses
    <3>1. \A h \in In(list) : Secondary(h) \in AllBuses
      BY <1>3 DEF AllBuses, Secondary
    <3> QED BY <1>5, <2>1, <3>1 DEF AllBuses
  <2> QED BY <1>7, <2>1, <2>2 DEF Buses
<1>9. \A g : g \in Reachable <=> \E b \in Buses : g \in OnBus(b)
  BY DEF Reachable
<1>10. \A g : g \in In(list) <=> g \in Reachable /\ g \notin dropped
  BY <1>6, <1>8, <1>9
<1>11. In(list) = Reachable \ dropped
  BY <1>10
<1> QED BY <1>1, <1>11 DEF AllListed

\* The end of a step of the enumeration.
LEMMA ScanNext ==
  ASSUME NEW s, NEW list, NEW drop, machine' = machine, scan' = s, pci_device_list' = list,
         dropped' = drop, Scanned(s, list, drop)
  PROVE  ScanInv'
<1>1. \A b : OnBus(b)' = OnBus(b)
  BY DEF OnBus
<1>2. \A g : /\ Found(g)' <=> Found(g)
             /\ Bridge(g)' <=> Bridge(g)
             /\ Secondary(g)' = Secondary(g)
             /\ Present(g)' <=> Present(g)
             /\ Frame(g)' <=> Frame(g)
  BY <1>1 DEF Found, Bridge, Secondary, Present, Frame
<1>3. Stacked(scan)' <=> Stacked(s)
  BY <1>2 DEF Stacked
<1>4. In(pci_device_list)' = In(list) /\ (Once(pci_device_list)' <=> Once(list))
  BY DEF In, Once
<1>5. Passed(scan, In(pci_device_list) \cup dropped)' <=> Passed(s, In(list) \cup drop)
  BY <1>2, <1>4 DEF Passed
<1>6. \A g : Placed(scan, pci_device_list, g)' <=> Placed(s, list, g)
  BY <1>2, <1>4 DEF Placed
<1> QED BY <1>1, <1>2, <1>3, <1>4, <1>5, <1>6 DEF ScanInv, Scanned

\* Steps that leave the functions, the list and the dropped ones alone.
LEMMA PciExactSame ==
  ASSUME machine' = machine, UNCHANGED pci_vars,
         AllListed
  PROVE  PciExact'
<1>1. (\A b : OnBus(b)' = OnBus(b)) /\ AllBuses' = AllBuses /\ (\A g : Bridge(g)' <=> Bridge(g))
  BY DEF OnBus, AllBuses, Bridge
<1>2. \A B : Closed(B)' <=> Closed(B)
  BY <1>1 DEF Closed, pci_vars
<1>3. Buses' = Buses
  BY <1>1, <1>2 DEF Buses
<1>4. Reachable' = Reachable
  BY <1>1, <1>3 DEF Reachable
<1>5. /\ In(pci_device_list)' = Reachable' \ dropped'
      /\ Once(pci_device_list)'
  BY <1>4 DEF pci_vars, In, Once, AllListed
<1> QED BY <1>5 DEF PciExact, In, Once

\* A step of pci_enumerate.
LEMMA PciSteps ==
  ASSUME machine \in Machines, ScanInv, PciEnumerate
  PROVE  machine' = machine /\ ((bpc' = "pci" /\ ScanInv') \/ (bpc' = "ioapic" /\ PciExact'))
<1>1. machine' = machine /\ bpc = "pci"
  BY DEF PciEnumerate, fw_vars
<1>2. PICK s, list, drop, f : s = scan /\ list = pci_device_list /\ drop = dropped /\ f = scan[Len(scan)]
  OBVIOUS
<1>3. Scanned(s, list, drop) /\ f = s[Len(s)]
  BY <1>2 DEF ScanInv
<1>4. PICK r, l, d : r = scan' /\ l = pci_device_list' /\ d = dropped'
  OBVIOUS
<1>5. CASE f[2] < PCI_DEVICES /\ bpc' = bpc /\ PciSkip(f)
  <2>1. Moved(r, s, Advanced(f)) /\ Sees(d, drop, f) /\ l = list
    BY <1>2, <1>4, <1>5 DEF PciSkip, Top, Moved, Sees
  <2>2. Scanned(r, list, d)
    BY <1>3, <1>5, <2>1, Skips
  <2>3. scan' = r /\ pci_device_list' = list /\ dropped' = d
    BY <1>4, <2>1
  <2> QED BY <1>1, <1>5, <2>2, <2>3, ScanNext
<1>6. CASE f[2] < PCI_DEVICES /\ bpc' = bpc /\ PciLink(f)
  <2>1. /\ Moved(r, s, Advanced(f)) /\ Headed(l, f, list) /\ d = drop
        /\ Present(f) /\ ~Bridge(f)
    BY <1>2, <1>4, <1>6 DEF PciLink, Top, Moved, Headed
  <2>2. /\ Stacked(s) /\ list \in Seq(DOMAIN machine.pci) /\ drop \subseteq DOMAIN machine.pci
        /\ Once(list) /\ In(list) \cap drop = {} /\ Passed(s, In(list) \cup drop)
        /\ \A h \in In(list) : Bridge(h) => OnBus(Secondary(h)) \subseteq In(list) \cup drop
        /\ \A g \in In(list) \cup drop : Found(g) /\ Placed(s, list, g)
    BY <1>3 DEF Scanned
  <2>3. \A h \in In(list) \cup {f} : Bridge(h) => OnBus(Secondary(h)) \subseteq In(list) \cup drop
    BY <2>1, <2>2
  <2>4. Scanned(r, l, drop)
    BY <1>3, <2>1, <2>2, <2>3, Links
  <2>5. scan' = r /\ pci_device_list' = l /\ dropped' = drop
    BY <1>4, <2>1
  <2> QED BY <1>1, <1>6, <2>4, <2>5, ScanNext
<1>7. CASE f[2] < PCI_DEVICES /\ bpc' = bpc /\ PciDescend(f)
  <2>1. Pushed(r, s, f) /\ Present(f) /\ Bridge(f) /\ l = list /\ d = drop
    BY <1>2, <1>4, <1>7 DEF PciDescend, Pushed
  <2>2. Scanned(r, list, drop)
    BY <1>3, <2>1, Descends
  <2>3. scan' = r /\ pci_device_list' = list /\ dropped' = drop
    BY <1>4, <2>1
  <2> QED BY <1>1, <1>7, <2>2, <2>3, ScanNext
<1>8. CASE ~(f[2] < PCI_DEVICES) /\ Len(scan) > 1 /\ bpc' = bpc /\ PciReturn
  <2>1. PICK u, g : u = SubSeq(s, 1, Len(s) - 1) /\ g = u[Len(u)]
    OBVIOUS
  <2>2. Lower(u, s) /\ Moved(r, u, Advanced(g)) /\ Headed(l, g, list) /\ d = drop
    BY <1>2, <1>4, <1>8, <2>1 DEF PciReturn, Lower, Moved, Headed
  <2>3. Len(s) > 1 /\ ~(s[Len(s)][2] < PCI_DEVICES)
    BY <1>2, <1>8
  <2>4. Scanned(r, l, drop)
    BY <1>3, <2>1, <2>2, <2>3, Returns
  <2>5. scan' = r /\ pci_device_list' = l /\ dropped' = drop
    BY <1>4, <2>2
  <2> QED BY <1>1, <1>8, <2>4, <2>5, ScanNext
<1>9. CASE ~(f[2] < PCI_DEVICES) /\ ~(Len(scan) > 1) /\ bpc' = "ioapic" /\ UNCHANGED pci_vars
  <2>1. Len(scan) = 1 /\ ~(scan[1][2] < PCI_DEVICES)
    <3>1. Stacked(scan)
      BY DEF ScanInv, Scanned
    <3>2. Len(scan) \in Nat /\ Len(scan) >= 1
      BY <3>1, SMT DEF Stacked
    <3>3. Len(scan) = 1
      <4> DEFINE n == Len(scan)
      <4>1. n \in Nat /\ n >= 1 /\ ~(n > 1)
        BY <1>9, <3>2
      <4> HIDE DEF n
      <4>2. n = 1
        BY <4>1, SMT
      <4> QED BY <4>2 DEF n
    <3> QED BY <1>2, <1>9, <3>3
  <2>2. AllListed
    BY <2>1, ScanEnds
  <2>3. PciExact'
    BY <1>1, <1>9, <2>2, PciExactSame
  <2> QED BY <1>1, <1>9, <2>3
<1> QED BY <1>1, <1>2, <1>5, <1>6, <1>7, <1>8, <1>9 DEF PciEnumerate

\* AcpiInit and MadtInit leave the enumeration to come alone.
LEMMA FirmwareFirst ==
  ASSUME ScanInv, UNCHANGED <<machine, pci_vars>>
  PROVE  ScanInv'
<1>1. PICK s, list, drop : s = scan /\ list = pci_device_list /\ drop = dropped
  OBVIOUS
<1>2. Scanned(s, list, drop) /\ scan' = s /\ pci_device_list' = list /\ dropped' = drop
  BY <1>1 DEF ScanInv, pci_vars
<1> QED BY <1>2, ScanNext

\* pci_enumerate puts every function that can be reached and has a node in
\* the list, once, on every machine whose buses the firmware has numbered,
\* for any number of buses, bridges, devices and functions.
THEOREM PciIsExact == Spec => []PciExact
<1>1. Init => PciInv
  <2> SUFFICES ASSUME Init PROVE PciInv
    OBVIOUS
  <2>1. machine \in Machines /\ bpc = "acpi"
        /\ scan = <<<<0, 0, 0>>>> /\ pci_device_list = <<>> /\ dropped = {}
    BY DEF Init, PciStart
  <2>2. Frame(<<0, 0, 0>>)
    BY PciAssumption, SMT DEF Frame
  <2>3. Stacked(scan)
    BY <2>1, <2>2, SMT DEF Stacked, Frame
  <2>4. In(pci_device_list) = {} /\ Once(pci_device_list)
    BY <2>1, SMT DEF In, Once
  <2>5. pci_device_list \in Seq(DOMAIN machine.pci)
    BY <2>1, SMT
  <2>6. Passed(scan, {})
    <3> SUFFICES ASSUME NEW j \in 1 .. Len(scan), NEW g \in DOMAIN machine.pci
                 PROVE  ~Before(g, scan[j])
      BY DEF Passed
    <3>1. scan[j] = <<0, 0, 0>>
      BY <2>1, SMT
    <3>2. g[2] \in Nat /\ g[3] \in Nat
      BY <2>1, FunctionIs
    <3> QED BY <3>1, <3>2, SMT DEF Before
  <2>7. ScanInv
    BY <2>1, <2>3, <2>4, <2>5, <2>6 DEF ScanInv, Scanned
  <2> QED BY <2>1, <2>7 DEF PciInv, PciExact
<1>2. PciInv /\ [Next]_vars => PciInv'
  <2> SUFFICES ASSUME PciInv, [Next]_vars PROVE PciInv'
    OBVIOUS
  <2>1. /\ machine \in Machines
        /\ bpc \in {"acpi", "madt", "pci"} => ScanInv
        /\ PciExact
    BY DEF PciInv
  <2>2. CASE (AcpiInit \/ MadtInit) /\ UNCHANGED pci_vars
    <3>1. machine' = machine /\ bpc \in {"acpi", "madt"} /\ bpc' \in {"acpi", "madt", "pci", "panic"}
      BY <2>2 DEF AcpiInit, MadtInit, fw_vars
    <3>2. ScanInv'
      BY <2>1, <2>2, <3>1, FirmwareFirst
    <3> QED BY <2>1, <3>1, <3>2 DEF PciInv, PciExact
  <2>3. CASE PciEnumerate
    <3>1. ScanInv
      BY <2>1, <2>3 DEF PciEnumerate
    <3>2. machine' = machine /\ ((bpc' = "pci" /\ ScanInv') \/ (bpc' = "ioapic" /\ PciExact'))
      BY <2>1, <2>3, <3>1, PciSteps
    <3> QED BY <2>1, <3>2 DEF PciInv, PciExact
  <2>4. CASE /\ UNCHANGED <<machine, pci_vars>>
             /\ bpc \notin {"acpi", "madt", "pci"} /\ bpc' \notin {"acpi", "madt", "pci"}
             /\ bpc = "panic" => bpc' = "panic"
    <3>1. CASE bpc = "panic"
      BY <2>1, <2>4, <3>1 DEF PciInv, PciExact
    <3>2. CASE bpc # "panic"
      <4>1. AllListed
        BY <2>1, <2>4, <3>2 DEF PciExact, AllListed, In, Once
      <4>2. PciExact'
        BY <2>4, <4>1, PciExactSame
      <4> QED BY <2>1, <2>4, <4>2 DEF PciInv
    <3> QED BY <3>1, <3>2
  <2>5. CASE UNCHANGED <<machine, bpc, pci_vars>>
    <3>1. CASE bpc \in {"acpi", "madt", "pci"}
      BY <2>1, <2>5, <3>1, FirmwareFirst DEF PciInv, PciExact
    <3>2. CASE bpc \notin {"acpi", "madt", "pci"}
      BY <2>4, <2>5, <3>2
    <3> QED BY <3>1, <3>2
  <2>6. CASE IoapicInit /\ UNCHANGED <<fw_vars, pci_vars>>
    BY <2>4, <2>6 DEF IoapicInit, fw_vars
  <2>7. CASE KbdInit /\ UNCHANGED <<fw_vars, pci_vars>>
    BY <2>4, <2>7 DEF KbdInit, RouteLow, fw_vars
  <2>8. CASE Sti /\ UNCHANGED <<fw_vars, pci_vars>>
    BY <2>4, <2>8 DEF Sti, fw_vars
  <2>9. CASE DriverMasks
    BY <2>5, <2>9 DEF DriverMasks, fw_vars
  <2>10. CASE \E code \in Codes : Type(code)
    BY <2>5, <2>10 DEF Type, boot_vars, fw_vars
  <2>11. CASE RaiseLevel
    BY <2>5, <2>11 DEF RaiseLevel, boot_vars, fw_vars
  <2>12. ASSUME NEW c \in CPUs, IsrStep(c) \/ KbdCall(c) \/ ThreadStep(c) PROVE PciInv'
    <3>1. UNCHANGED boot_vars
      BY <2>12 DEF IsrStep, TakeIrq, KbdIrqLock, KbdIrqRead, KbdIrqCall, KbdIrqEoi, KbdCall,
                   ThreadStep, KbdCallLock, KbdCallBody
    <3> QED BY <2>5, <3>1 DEF boot_vars, fw_vars
  <2>13. CASE UNCHANGED vars
    BY <2>5, <2>13 DEF vars, boot_vars, fw_vars
  <2>14. CASE Boot
    BY <2>2, <2>3, <2>6, <2>7, <2>8, <2>14 DEF Boot
  <2> QED BY <2>9, <2>10, <2>11, <2>12, <2>13, <2>14 DEF Next
<1>3. PciInv => PciExact
  BY DEF PciInv
<1> QED BY <1>1, <1>2, <1>3, PTL DEF Spec
=============================================================================
