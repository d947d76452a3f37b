---------------------------- MODULE PageAllocator ----------------------------
(***************************************************************************)
(* What a page allocator promises, with no list and no memory: a page is   *)
(* never in two hands, and an allocation comes back empty only when there  *)
(* is nothing left to give.                                                *)
(***************************************************************************)
CONSTANTS Pages, NULL

VARIABLES
  free,   \* pages the allocator may hand out
  held,   \* pages handed out
  ret     \* what the last allocation returned

vars == <<free, held, ret>>

Init == free = {} /\ held = {} /\ ret = NULL

(* A page is put under management at boot. *)
Donate(p) ==
  /\ p \notin free \cup held
  /\ free' = free \cup {p}
  /\ UNCHANGED <<held, ret>>

Alloc(p) ==
  /\ p \in free
  /\ ret' = p
  /\ free' = free \ {p}
  /\ held' = held \cup {p}

Exhausted ==
  /\ free = {}
  /\ ret' = NULL
  /\ UNCHANGED <<free, held>>

Free(p) ==
  /\ p \in held
  /\ held' = held \ {p}
  /\ free' = free \cup {p}
  /\ UNCHANGED ret

Next ==
  \/ \E p \in Pages : Donate(p) \/ Alloc(p) \/ Free(p)
  \/ Exhausted

Spec == Init /\ [][Next]_vars
=============================================================================
