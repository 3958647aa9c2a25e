--------------------------- MODULE PageAllocator ---------------------------
(***************************************************************************)
(* What the physical page manager (mm/pmm.c) promises its callers, with    *)
(* no bitmap, no counters and no search hint: a set of available pages,    *)
(* handed out lowest page first, refused only when the set is empty.       *)
(***************************************************************************)
EXTENDS Naturals

CONSTANTS
  PAGE,      \* bytes per page
  Clients,   \* callers of the allocator
  INVALID    \* the value returned when no page is available

VARIABLES
  up,        \* the allocator has been initialised
  avail,     \* pages that may be handed out
  held,      \* held[c]: pages handed to c and not returned yet
  ret        \* what the last allocation returned: an address or INVALID

vars == <<up, avail, held, ret>>

Init ==
  /\ up = FALSE
  /\ avail = {}
  /\ held = [c \in Clients |-> {}]
  /\ ret = INVALID

\* The allocator comes up with some set of pages.
Start ==
  /\ ~up
  /\ up' = TRUE
  /\ avail' \in SUBSET Nat
  /\ UNCHANGED <<held, ret>>

\* More pages nobody holds become available.
Donate ==
  /\ up
  /\ avail \subseteq avail'
  /\ avail' \in SUBSET Nat
  /\ \A c \in Clients : avail' \cap held[c] = {}
  /\ UNCHANGED <<up, held, ret>>

\* A request takes the lowest available page.
Allocate(c) ==
  \E p \in avail :
    /\ \A q \in avail : p <= q
    /\ avail' = avail \ {p}
    /\ held' = [held EXCEPT ![c] = @ \cup {p}]
    /\ ret' = p * PAGE
    /\ UNCHANGED up

\* A request is refused only when nothing is available.
Refuse ==
  /\ avail = {}
  /\ ret' = INVALID
  /\ UNCHANGED <<up, avail, held>>

\* A page comes back from the client that holds it.
Release(c) ==
  \E p \in held[c] :
    /\ avail' = avail \cup {p}
    /\ held' = [held EXCEPT ![c] = @ \ {p}]
    /\ UNCHANGED <<up, ret>>

Next ==
  \/ Start
  \/ Donate
  \/ Refuse
  \/ \E c \in Clients : Allocate(c) \/ Release(c)

Spec == Init /\ [][Next]_vars

=============================================================================
