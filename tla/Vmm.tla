--------------------------------- MODULE Vmm ---------------------------------
(***************************************************************************)
(* Sv39 page tables (os/src/vmm.cpp) on top of the page allocator.  Tables *)
(* and the pages they map come from one RAM, so an entry of a table, a     *)
(* link of the free list and a word of user data can be the same word at   *)
(* different times.  A PageTable's whole state is its root.                *)
(***************************************************************************)
EXTENDS PhysMem, FiniteSets

CONSTANTS
  Tables,   \* PageTable objects
  VAs,      \* virtual byte addresses the clients use
  Perms,    \* permissions the clients pass to add
  PGSIZE,   \* bytes in a page
  UINT64,   \* 2^64 in the code
  MaxHeld,  \* bound: pages the clients hold unmapped at a time
  Stores    \* words found in RAM at power-on and stored by page owners

ASSUME PageSizeAssumption == PGSIZE \in Nat \ {0}
ASSUME AddressAssumption == UINT64 \in Nat \ {0} /\ VAs \subseteq 0 .. UINT64 - 1
ASSUME StoresAssumption == Stores \subseteq Word
ASSUME MaxHeldAssumption == MaxHeld \in Nat
ASSUME PermsAssumption == \A perm \in Perms : perm \subseteq PTEFlags /\ {"V", "R"} \subseteq perm

VARIABLES
  ram,    \* the allocator's state and the contents of RAM
  root,   \* root of each PageTable, NULL while it is not constructed
  held,   \* pages a client got from alloc_page and has not mapped or freed
  call,   \* the PageTable call the last step made: <<op, table, key, result>>
  cpu     \* "halted" once a store fault has led to panic

vars == <<ram, root, held, call, cpu>>

-----------------------------------------------------------------------------
(* The three table indices of a virtual address, and nothing above them:   *)
(* addresses that differ only in the page offset or beyond the three       *)
(* indices (bit 39 on) have the same key.                                  *)
vpn0(va) == (va \div PGSIZE) % PTE_PER_PAGE
vpn1(va) == (va \div (PGSIZE * PTE_PER_PAGE)) % PTE_PER_PAGE
vpn2(va) == (va \div (PGSIZE * PTE_PER_PAGE * PTE_PER_PAGE)) % PTE_PER_PAGE

Key(va) == <<vpn2(va), vpn1(va), vpn0(va)>>
Keys    == { Key(va) : va \in VAs }

permission_code(write, read, exec, user, cow) ==
  {"V"} \cup (IF write THEN {"W"} ELSE {}) \cup (IF read THEN {"R"} ELSE {})
        \cup (IF exec THEN {"X"} ELSE {}) \cup (IF user THEN {"U"} ELSE {})
        \cup (IF cow THEN {"COW"} ELSE {})

PageTableEntry(pa, flag) == [pa |-> pa, flag |-> flag]
INVALID_PTE == PageTableEntry(NULL, {})
isValid(pte) == "V" \in pte.flag

(* PageTableEntry::step, with the walk's early return: NULL stays NULL.    *)
step(m, table, i) ==
  IF table # NULL /\ isValid(m[table][i]) THEN m[table][i].pa ELSE NULL

(* Mutant: the last level's validity is not checked. *)
page_walk_LeafUnchecked(m, rt, va) == step(m, step(m, rt, vpn2(va)), vpn1(va))

(* PageTable::page_walk: the low table that holds va's entry, NULL if one  *)
(* of the three entries on the way is invalid.                             *)
page_walk(m, rt, va) ==
  LET low == step(m, step(m, rt, vpn2(va)), vpn1(va))
  IN  IF low # NULL /\ isValid(m[low][vpn0(va)]) THEN low ELSE NULL

(* Mutant: the page is not cleared. *)
alloc_empty_page_NotCleared(r) == alloc_page(r)

(* A NULL page stands for the store fault of memset(NULL, 0, PGSIZE).      *)
alloc_empty_page(r) ==
  LET a == alloc_page(r)
  IN  IF a.page = NULL THEN a ELSE [a EXCEPT !.ram.mem[a.page] = ZeroPage]

(* Mutant: entries that point to a table carry the permission bits. *)
NewTable_LeafFlags(r, table, i) ==
  LET a == alloc_empty_page(r)
  IN  IF a.page = NULL THEN a
      ELSE [a EXCEPT !.ram.mem[table][i] = PageTableEntry(a.page, {"V", "R"})]

(* Allocate a table and hang it at entry i of another one. *)
NewTable(r, table, i) ==
  LET a == alloc_empty_page(r)
  IN  IF a.page = NULL THEN a
      ELSE [a EXCEPT !.ram.mem[table][i] = PageTableEntry(a.page, {"V"})]

(* Mutant: a second table replaces the one that is there. *)
page_walk_alloc_Replaces(r, rt, va) ==
  LET mid == NewTable(r, rt, vpn2(va))
  IN  IF mid.page = NULL THEN mid ELSE NewTable(mid.ram, mid.page, vpn1(va))

(* PageTable::page_walk_alloc: the low table for va, made if missing; NULL *)
(* if the machine faulted on the way.                                      *)
page_walk_alloc(r, rt, va) ==
  LET mid == step(r.mem, rt, vpn2(va))
      low == step(r.mem, mid, vpn1(va))
      new == NewTable(r, rt, vpn2(va))
  IN  IF mid = NULL
      THEN IF new.page = NULL THEN new ELSE NewTable(new.ram, new.page, vpn1(va))
      ELSE IF low = NULL
           THEN NewTable(r, mid, vpn1(va))
           ELSE [page |-> low, ram |-> r]

(* Mutant: a valid entry is overwritten. *)
Map_Overwrites(r, rt, va, pa, perm) ==
  LET w == page_walk_alloc(r, rt, va)
  IN  IF w.page = NULL
      THEN [fault |-> TRUE, ret |-> 0, ram |-> w.ram]
      ELSE [fault |-> FALSE, ret |-> 0,
            ram |-> [w.ram EXCEPT !.mem[w.page][vpn0(va)] = PageTableEntry(pa, perm)]]

(* PageTable::add: what it returns and leaves behind, or the store fault   *)
(* on the way.                                                             *)
Map(r, rt, va, pa, perm) ==
  LET w == page_walk_alloc(r, rt, va)
  IN  IF w.page = NULL
      THEN [fault |-> TRUE, ret |-> 0, ram |-> w.ram]
      ELSE IF isValid(w.ram.mem[w.page][vpn0(va)])
           THEN [fault |-> FALSE, ret |-> -1, ram |-> w.ram]
           ELSE [fault |-> FALSE, ret |-> 0,
                 ram |-> [w.ram EXCEPT !.mem[w.page][vpn0(va)] = PageTableEntry(pa, perm)]]

-----------------------------------------------------------------------------
(* The places of the page tables and the page at each: <<t>> is the root  *)
(* of t, and a place followed by i is what a valid entry i leads to.       *)
Roots     == { <<<<t>>, root[t]>> : t \in {u \in Tables : root[u] # NULL} }
Below(ns) == UNION { { <<Append(n[1], i), ram.mem[n[2]][i].pa>> :
                         i \in {j \in Slots : isValid(ram.mem[n[2]][j])} } : n \in ns }

Middles == Below(Roots)
Lows    == Below(Middles)
Leaves  == Below(Lows)

Mapped == { n[2] : n \in Leaves }

NoCall == <<>>

(* The head of the list, the roots and the pages held are pages of RAM or  *)
(* NULL, and an answer of add, lookup or erase is a page, 0 or -1.         *)
TypeOK ==
  /\ ram \in Ram
  /\ root \in [Tables -> Pages \cup {NULL}]
  /\ held \in SUBSET Pages
  /\ call \in {NoCall} \cup ({"add", "erase", "lookup"} \X Tables \X Keys \X (Pages \cup {-1, 0}))
  /\ cpu \in {"running", "halted"}

(* RAM as pmm_init leaves it: the list runs from the last page down. *)
BootRam(m) ==
  [free_pages_list |-> IF KERNEL_END = RAM_END THEN NULL ELSE RAM_END - 1,
   mem  |-> [p \in Pages |-> [m[p] EXCEPT ![0] = Link(IF p = KERNEL_END THEN NULL ELSE p - 1)]],
   free |-> [i \in 1 .. RAM_END - KERNEL_END |-> RAM_END - i]]

Init ==
  /\ \E w \in Stores : ram = BootRam([p \in Pages |-> [i \in Slots |-> w]])
  /\ root = [t \in Tables |-> NULL]
  /\ held = {}
  /\ call = NoCall
  /\ cpu = "running"

Running == cpu = "running"

(* PageTable::PageTable *)
Construct(t) ==
  /\ Running
  /\ root[t] = NULL
  /\ LET a == alloc_empty_page(ram)
     IN  /\ ram' = a.ram
         /\ root' = [root EXCEPT ![t] = a.page]
         /\ cpu' = IF a.page = NULL THEN "halted" ELSE cpu
  /\ call' = NoCall
  /\ UNCHANGED held

(* PageTable::~PageTable frees nothing. *)
Destroy(t) ==
  /\ Running
  /\ root[t] # NULL
  /\ root' = [root EXCEPT ![t] = NULL]
  /\ call' = NoCall
  /\ UNCHANGED <<ram, held, cpu>>

(* PageTable::add, called with a page the client holds.  The client keeps  *)
(* the page when add refuses.                                              *)
add(t, va, pa, perm) ==
  /\ Running
  /\ root[t] # NULL /\ pa \in held
  /\ LET m == Map(ram, root[t], va, pa, perm)
     IN  /\ ram' = m.ram
         /\ \/ /\ m.fault
               /\ cpu' = "halted"
               /\ call' = NoCall
               /\ UNCHANGED held
            \/ /\ ~m.fault
               /\ call' = <<"add", t, Key(va), m.ret>>
               /\ held' = IF m.ret = 0 THEN held \ {pa} ELSE held
               /\ UNCHANGED cpu
  /\ UNCHANGED root

lookup(t, va) ==
  /\ Running
  /\ root[t] # NULL
  /\ LET low == page_walk(ram.mem, root[t], va)
         pa  == IF low = NULL THEN NULL ELSE ram.mem[low][vpn0(va)].pa
     IN  call' = <<"lookup", t, Key(va), pa>>
  /\ UNCHANGED <<ram, root, held, cpu>>

(* Mutant: the entry survives the page. *)
erase_EntryKept(t, va) ==
  /\ Running
  /\ root[t] # NULL
  /\ LET low == page_walk(ram.mem, root[t], va)
     IN  \/ /\ low = NULL
            /\ call' = <<"erase", t, Key(va), -1>>
            /\ UNCHANGED ram
         \/ /\ low # NULL
            /\ ram' = free_page(ram, ram.mem[low][vpn0(va)].pa)
            /\ call' = <<"erase", t, Key(va), 0>>
  /\ UNCHANGED <<root, held, cpu>>

(* Mutant: the page is not given back. *)
erase_PageKept(t, va) ==
  /\ Running
  /\ root[t] # NULL
  /\ LET low == page_walk(ram.mem, root[t], va)
     IN  \/ /\ low = NULL
            /\ call' = <<"erase", t, Key(va), -1>>
            /\ UNCHANGED ram
         \/ /\ low # NULL
            /\ ram' = [ram EXCEPT !.mem[low][vpn0(va)] = INVALID_PTE]
            /\ call' = <<"erase", t, Key(va), 0>>
  /\ UNCHANGED <<root, held, cpu>>

(* PageTable::erase: the mapped page is freed, then the entry cleared. *)
erase(t, va) ==
  /\ Running
  /\ root[t] # NULL
  /\ LET low == page_walk(ram.mem, root[t], va)
         pa  == ram.mem[low][vpn0(va)].pa
     IN  \/ /\ low = NULL
            /\ call' = <<"erase", t, Key(va), -1>>
            /\ UNCHANGED ram
         \/ /\ low # NULL
            /\ ram' = [free_page(ram, pa) EXCEPT !.mem[low][vpn0(va)] = INVALID_PTE]
            /\ call' = <<"erase", t, Key(va), 0>>
  /\ UNCHANGED <<root, held, cpu>>

(* The clients: allocate, give back, and store in the pages they hold and  *)
(* in the pages that are mapped for them.                                  *)
AllocPage ==
  /\ Running
  /\ Cardinality(held) < MaxHeld
  /\ LET a == alloc_page(ram)
     IN  /\ ram' = a.ram
         /\ held' = held \cup ({a.page} \ {NULL})
  /\ call' = NoCall
  /\ UNCHANGED <<root, cpu>>

FreePage(page) ==
  /\ Running
  /\ page \in held
  /\ ram' = free_page(ram, page)
  /\ held' = held \ {page}
  /\ call' = NoCall
  /\ UNCHANGED <<root, cpu>>

OwnerStore(page, i, w) ==
  /\ Running
  /\ page \in held \cup Mapped
  /\ ram' = [ram EXCEPT !.mem[page][i] = w]
  /\ call' = NoCall
  /\ UNCHANGED <<root, held, cpu>>

Next ==
  \/ \E t \in Tables :
       \/ Construct(t)
       \/ Destroy(t)
       \/ \E va \in VAs :
            \/ \E pa \in Pages, perm \in Perms : add(t, va, pa, perm)
            \/ lookup(t, va)
            \/ erase(t, va)
  \/ AllocPage
  \/ \E page \in Pages : FreePage(page)
  \/ \E page \in Pages, i \in Slots, w \in Stores : OwnerStore(page, i, w)

Spec == Init /\ [][Next]_vars

-----------------------------------------------------------------------------
(* The free list is intact although tables, entries and data are written   *)
(* over the pages that were on it.                                         *)
FreeListIntact == LinksSpellHistory(ram) /\ NoRepeat(ram)

(* Every use the system has for a page, with the page: free, held, or a    *)
(* place in a page table (root, middle table, low table, mapped page).     *)
Uses ==
  {<<<<"free">>, p>> : p \in FreeSet(ram)} \cup {<<<<"held">>, p>> : p \in held}
    \cup Roots \cup Middles \cup Lows \cup Leaves

(* No page has two uses: tables form trees that share nothing, no mapped   *)
(* page is a table, is mapped twice, or is on the free list.               *)
OneUse == \A x, y \in Uses : x[2] = y[2] => x = y

(* A page that has no use can never be used again.  ~PageTable frees       *)
(* nothing (vmm.cpp:56), but it is the only one to lose pages: no other    *)
(* call, refused, successful or faulting, drops one.                       *)
UsedPages == { x[2] : x \in Uses }

OnlyDestroyLosesPages ==
  [][(\A t \in Tables : root[t] # NULL => root'[t] # NULL) => UsedPages \subseteq UsedPages']_vars

(* The Sv39 translation the hardware does with a root: an entry with R or  *)
(* X is a leaf wherever it is met, one with neither is a pointer.          *)
MMUPointer(w) == isValid(w) /\ w.flag \cap {"R", "W", "X"} = {}
MMULeaf(w)    == isValid(w) /\ w.flag \cap {"R", "X"} # {}

MMUNext(m, table, i) ==
  IF table # NULL /\ MMUPointer(m[table][i]) THEN m[table][i].pa ELSE NULL

(* Half of what the three indices and the page offset tell apart.  An Sv39 *)
(* address must have all bits above the offset and the indices equal to    *)
(* the highest index bit: it lies below MAXVA or in the highest MAXVA      *)
(* bytes.  Any other faults before a table is read.                        *)
MAXVA == (PGSIZE * PTE_PER_PAGE * PTE_PER_PAGE * PTE_PER_PAGE) \div 2

Canonical(va) == va < MAXVA \/ va >= UINT64 - MAXVA

MMUTranslate(m, satp, va) ==
  LET low == MMUNext(m, MMUNext(m, satp.ppn, vpn2(va)), vpn1(va))
  IN  IF Canonical(va) /\ low # NULL /\ MMULeaf(m[low][vpn0(va)])
      THEN m[low][vpn0(va)].pa ELSE NULL

(* PageTable::make_satp: what the kernel gives the hardware. *)
make_satp(rt) == [mode |-> "Sv39", ppn |-> rt]

(* What lookup answers for a canonical address is what the hardware would  *)
(* do: neither of them sees a mapping the other does not.  add, lookup and *)
(* erase take any other address too (they drop the bits the hardware       *)
(* compares) for the canonical one with its indices; of those addresses    *)
(* nothing is claimed, since every access to them faults.                  *)
LookupAgreesWithMMU ==
  \A t \in Tables, va \in VAs :
    LET low == page_walk(ram.mem, root[t], va)
    IN  Canonical(va) =>
          MMUTranslate(ram.mem, make_satp(root[t]), va)
            = (IF low = NULL THEN NULL ELSE ram.mem[low][vpn0(va)].pa)

(* The entry for a key, absent when the walk fails. *)
EntryOf(t, k) ==
  LET low == step(ram.mem, step(ram.mem, root[t], k[1]), k[2])
  IN  IF low # NULL /\ isValid(ram.mem[low][k[3]]) THEN ram.mem[low][k[3]] ELSE INVALID_PTE

Maps    == [t \in Tables |-> [k \in Keys |-> EntryOf(t, k)]]
Entries == { PageTableEntry(pa, perm) : pa \in Pages, perm \in Perms }

(* add, lookup and erase behave as a map per PageTable: an operation on    *)
(* one key of one table changes no other key, no other table, and nothing  *)
(* a page owner stores changes any.                                        *)
Space == INSTANCE AddressSpace WITH
  Keys <- Keys, Entries <- Entries, None <- INVALID_PTE, space <- Maps

ImplementsAddressSpace == Space!Spec
=============================================================================
