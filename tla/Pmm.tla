--------------------------------- MODULE Pmm ---------------------------------
(***************************************************************************)
(* The physical page allocator (os/src/pmm.cpp): pmm_init threads every    *)
(* page between the kernel and the end of RAM on a list whose links live   *)
(* in the free pages themselves; alloc_page and free_page pop and push.    *)
(* The clients are the rest of the kernel: whoever holds a page may store  *)
(* anything in it, over the word that was a link included.                 *)
(***************************************************************************)
EXTENDS PhysMem

CONSTANT Stores   \* the words found in RAM at power-on and stored by clients

ASSUME StoresAssumption == Stores \subseteq Word

VARIABLES
  ram,      \* free_pages_list and the contents of RAM
  cursor,   \* p of pmm_init's loop
  held,     \* pages the clients got from alloc_page and have not given back
  ret       \* what the last alloc_page returned

vars == <<ram, cursor, held, ret>>

(* free_pages_list and the link of every free page are addresses of pages  *)
(* pmm_init has put on the list, or NULL; the loop stops at RAM_END.       *)
TypeOK ==
  /\ ram \in Ram
  /\ cursor \in KERNEL_END .. RAM_END
  /\ held \in SUBSET Pages
  /\ ret \in Pages \cup {NULL}

Init ==
  /\ \E m \in [Pages -> [Slots -> Stores]] :
       ram = [free_pages_list |-> NULL, mem |-> m, free |-> <<>>]
  /\ cursor = KERNEL_END
  /\ held = {}
  /\ ret = NULL

Ready == cursor = RAM_END

(* Mutant: the loop's bound is off by one. *)
pmm_init_PastEnd ==
  /\ cursor <= RAM_END
  /\ ram' = free_page(ram, cursor)
  /\ cursor' = cursor + 1
  /\ UNCHANGED <<held, ret>>

(* One round of pmm_init's loop.  Nothing else runs before the loop ends.  *)
pmm_init ==
  /\ cursor < RAM_END
  /\ ram' = free_page(ram, cursor)
  /\ cursor' = cursor + 1
  /\ UNCHANGED <<held, ret>>

AllocPage ==
  /\ Ready
  /\ LET a == alloc_page(ram)
     IN  /\ ram' = a.ram
         /\ ret' = a.page
         /\ held' = held \cup ({a.page} \ {NULL})
  /\ UNCHANGED cursor

FreePage(page) ==
  /\ Ready
  /\ page \in held
  /\ ram' = free_page(ram, page)
  /\ held' = held \ {page}
  /\ UNCHANGED <<cursor, ret>>

ClientStore(page, i, w) ==
  /\ page \in held
  /\ ram' = [ram EXCEPT !.mem[page][i] = w]
  /\ UNCHANGED <<cursor, held, ret>>

Next ==
  \/ pmm_init
  \/ AllocPage
  \/ \E page \in Pages : FreePage(page)
  \/ \E page \in Pages, i \in Slots, w \in Stores : ClientStore(page, i, w)

Spec == Init /\ [][Next]_vars

-----------------------------------------------------------------------------
(* The list threaded through the free pages is what the calls made it: it  *)
(* starts at free_pages_list, visits each free page once and ends in NULL, *)
(* however the pages were scribbled on while they were held.               *)
FreeListIntact == LinksSpellHistory(ram) /\ NoRepeat(ram)

(* No page is lost and none is in two hands: the pages pmm_init has passed *)
(* are divided between the free list and the holders.                      *)
PagesAccounted ==
  /\ held \cap FreeSet(ram) = {}
  /\ held \cup FreeSet(ram) = KERNEL_END .. cursor - 1

(* alloc_page and free_page keep the promises of a page allocator: no page *)
(* is handed out while someone holds it, and NULL means there is no page.  *)
Allocator == INSTANCE PageAllocator WITH free <- FreeSet(ram)

ImplementsPageAllocator == Allocator!Spec
=============================================================================
