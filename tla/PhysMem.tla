------------------------------- MODULE PhysMem -------------------------------
(***************************************************************************)
(* RAM above the kernel image and the page allocator's two operations on   *)
(* it.  An address is counted in pages (address >> PGSHIFT): linker.ld     *)
(* aligns _kernel_end, so every address pmm and vmm handle is that of a    *)
(* page.  A page is PTE_PER_PAGE 64-bit words.  The same words serve as    *)
(* the allocator's links, as page table entries and as client data; that   *)
(* overlay is what the modules built on this one are about.                *)
(***************************************************************************)
EXTENDS Integers, Sequences

CONSTANTS
  KERNEL_END,    \* first page above the kernel image
  RAM_END,       \* first page above the RAM
  PTE_PER_PAGE   \* words in a page, 512 in the code

ASSUME FrameAssumption ==
  /\ KERNEL_END \in Nat \ {0}
  /\ RAM_END \in Nat
  /\ KERNEL_END <= RAM_END

ASSUME SlotAssumption == PTE_PER_PAGE \in Nat \ {0}

NULL     == 0
Pages    == KERNEL_END .. RAM_END - 1
Slots    == 0 .. PTE_PER_PAGE - 1
PTEFlags == {"V", "R", "W", "X", "U", "COW"}

(***************************************************************************)
(* A word is read either as a link (its pa) or as a page table entry.  A   *)
(* link is the address of a page, so its low twelve bits are zero: read as *)
(* an entry it has no flag set.                                            *)
(***************************************************************************)
Word     == [pa : Pages \cup {NULL}, flag : SUBSET PTEFlags]
Link(p)  == [pa |-> p, flag |-> {}]
ZeroWord == Link(NULL)
Content  == [Slots -> Word]
ZeroPage == [i \in Slots |-> ZeroWord]

(***************************************************************************)
(* The allocator's state: the head of the free list, the contents of RAM,  *)
(* and a history of the list, the sequence of free pages from the head on. *)
(* No operation reads the history; FreeListIntact compares the links in    *)
(* memory with it.                                                         *)
(***************************************************************************)
Ram == [free_pages_list : Pages \cup {NULL},
        mem             : [Pages -> Content],
        free            : Seq(Pages)]

FreeSet(r) == { r.free[i] : i \in 1 .. Len(r.free) }

FreeHead(r) == IF r.free = <<>> THEN NULL ELSE r.free[1]

FreeAfter(r, i) == IF i < Len(r.free) THEN r.free[i + 1] ELSE NULL

(* Mutant: the list is not advanced. *)
alloc_page_NotPopped(r) ==
  IF r.free_pages_list = NULL THEN [page |-> NULL, ram |-> r]
  ELSE [page |-> r.free_pages_list, ram |-> r]

(* pmm::alloc_page: the page returned (NULL when there is none) and the    *)
(* state after the call.                                                   *)
alloc_page(r) ==
  LET p == r.free_pages_list
  IN  IF p = NULL
      THEN [page |-> NULL, ram |-> r]
      ELSE [page |-> p,
            ram  |-> [r EXCEPT !.free_pages_list = r.mem[p][0].pa,
                               !.free = Tail(@)]]

(* Mutant: the head is moved before the link is written. *)
free_page_HeadFirst(r, page) ==
  [r EXCEPT !.mem[page][0] = Link(page),
            !.free_pages_list = page,
            !.free = <<page>> \o @]

(* Mutant: the link is written but the head is not moved. *)
free_page_HeadKept(r, page) ==
  [r EXCEPT !.mem[page][0] = Link(r.free_pages_list)]

(* pmm::free_page: the first word of the page becomes the link. *)
free_page(r, page) ==
  [r EXCEPT !.mem[page][0] = Link(r.free_pages_list),
            !.free_pages_list = page,
            !.free = <<page>> \o @]

(***************************************************************************)
(* The links in RAM spell out the history, which repeats no page: the list *)
(* from free_pages_list is acyclic and ends in NULL.                       *)
(***************************************************************************)
LinksSpellHistory(r) ==
  /\ r.free_pages_list = FreeHead(r)
  /\ \A i \in 1 .. Len(r.free) : r.mem[r.free[i]][0] = Link(FreeAfter(r, i))

NoRepeat(r) ==
  \A i, j \in 1 .. Len(r.free) : r.free[i] = r.free[j] => i = j
=============================================================================
