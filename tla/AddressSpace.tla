---------------------------- MODULE AddressSpace ----------------------------
(***************************************************************************)
(* What paging promises its callers: a partial map from virtual pages to   *)
(* frames with flags.  Mapping adds a run of pages on a run of frames and  *)
(* leaves every mapped page alone, unmapping removes one page, protecting  *)
(* gives pages other flags and keeps their frames.                         *)
(***************************************************************************)
EXTENDS Integers

VARIABLE space    \* space[v]: [to |-> frame, flags |-> set of flags]

Init == DOMAIN space = {}

\* The map the kernel starts with.
Boot == DOMAIN space = {}

\* The steps relate the map before, m, and after, n.
Same(m, n, v) == v \in DOMAIN n /\ n[v] = m[v]

Map(m, n) ==
  /\ \A v \in DOMAIN m : Same(m, n, v)
  /\ \A u, v \in DOMAIN n \ DOMAIN m : n[u].to - n[v].to = u - v /\ n[u].flags = n[v].flags

Unmap(m, n) ==
  \E v \in DOMAIN m :
    DOMAIN n = DOMAIN m \ {v} /\ \A u \in DOMAIN n : Same(m, n, u)

Protect(m, n) ==
  /\ DOMAIN n = DOMAIN m
  /\ \A v \in DOMAIN m : n[v].to = m[v].to
  /\ \A u, v \in {w \in DOMAIN m : ~Same(m, n, w)} : n[u].flags = n[v].flags

Next ==
  \/ Boot
  \/ \E m \in {space}, n \in {space'} : Map(m, n) \/ Unmap(m, n) \/ Protect(m, n)

Spec == Init /\ [][Next]_space

=============================================================================
