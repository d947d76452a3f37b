----------------------------- MODULE Vmm_proofs -----------------------------
(***************************************************************************)
(* For every RAM, page size, number of PageTable objects and set of        *)
(* addresses and permissions: the state stays well typed, the free list    *)
(* stays intact, no page has two uses, only ~PageTable loses pages, lookup *)
(* answers what the hardware would do, and the page tables implement       *)
(* AddressSpace.  None of these is inductive alone; Well is.               *)
(*                                                                         *)
(* The first half is about the operators: what they do to a forest of page *)
(* tables.  The forest is looked at level by level: the pages of the       *)
(* roots, of the middle tables, of the low tables, and the mapped pages.   *)
(* A page that a call has taken from the free list and not hung yet counts *)
(* as held, so that every call is a sequence of steps each of which keeps  *)
(* the forest well formed.  The second half is about the states.           *)
(***************************************************************************)
EXTENDS Vmm, PhysMem_proofs

Mem == [Pages -> Content]
Path == Slots \X Slots \X Slots

(* The pages that the valid entries of the tables in S lead to. *)
Kids(m, S) ==
  { q \in Pages : \E p \in S, i \in Slots : isValid(m[p][i]) /\ m[p][i].pa = q }

(* An entry of a table in S is valid, with flags from F, or INVALID_PTE.   *)
Shape(m, S, F) ==
  \A p \in S, i \in Slots :
    \/ isValid(m[p][i]) /\ m[p][i].pa \in Pages /\ m[p][i].flag \in F
    \/ ~isValid(m[p][i]) /\ m[p][i] = INVALID_PTE

(* No two entries of the tables in S lead to the same page. *)
OneParent(m, S) ==
  \A p, q \in S, i, j \in Slots :
    isValid(m[p][i]) /\ isValid(m[q][j]) /\ m[p][i].pa = m[q][j].pa => p = q /\ i = j

(* The levels of the forest. *)
RootPages(rt)      == { rt[t] : t \in Tables } \ {NULL}
MiddlePages(m, rt) == Kids(m, RootPages(rt))
LowPages(m, rt)    == Kids(m, MiddlePages(m, rt))
MappedPages(m, rt) == Kids(m, LowPages(m, rt))

InUse(r, rt, h) ==
  FreeSet(r) \cup h \cup RootPages(rt) \cup MiddlePages(r.mem, rt)
    \cup LowPages(r.mem, rt) \cup MappedPages(r.mem, rt)

DistinctRoots(rt) == \A t, u \in Tables : rt[t] # NULL /\ rt[t] = rt[u] => t = u

(* The free pages, the held pages and the four levels share no page. *)
Apart(f, h, l0, l1, l2, l3) ==
  /\ f  \cap (h \cup l0 \cup l1 \cup l2 \cup l3) = {}
  /\ h  \cap (l0 \cup l1 \cup l2 \cup l3) = {}
  /\ l0 \cap (l1 \cup l2 \cup l3) = {}
  /\ l1 \cap (l2 \cup l3) = {}
  /\ l2 \cap l3 = {}

Typed(r, rt, h) ==
  /\ r \in Ram
  /\ rt \in [Tables -> Pages \cup {NULL}]
  /\ h \in SUBSET Pages

Forest(m, rt) ==
  /\ DistinctRoots(rt)
  /\ Shape(m, RootPages(rt), {{"V"}}) /\ OneParent(m, RootPages(rt))
  /\ Shape(m, MiddlePages(m, rt), {{"V"}}) /\ OneParent(m, MiddlePages(m, rt))
  /\ Shape(m, LowPages(m, rt), Perms) /\ OneParent(m, LowPages(m, rt))

(* The inductive invariant, of a RAM, the roots and the held pages. *)
Well(r, rt, h) ==
  /\ Typed(r, rt, h)
  /\ FreeListWF(r)
  /\ Forest(r.mem, rt)
  /\ Apart(FreeSet(r), h, RootPages(rt), MiddlePages(r.mem, rt),
           LowPages(r.mem, rt), MappedPages(r.mem, rt))

(* What a walk from a table finds for the indices of k. *)
EntryAt(m, table, k) ==
  LET low == step(m, step(m, table, k[1]), k[2])
  IN  IF low # NULL /\ isValid(m[low][k[3]]) THEN m[low][k[3]] ELSE INVALID_PTE

SameMaps(m, n, rt) ==
  \A t \in Tables, k \in Path : EntryAt(n, rt[t], k) = EntryAt(m, rt[t], k)

-----------------------------------------------------------------------------
(* Words, entries and addresses.                                           *)
LEMMA EntryIsWord ==
  ASSUME NEW pa \in Pages \cup {NULL}, NEW flag \in SUBSET PTEFlags
  PROVE  /\ PageTableEntry(pa, flag) \in Word
         /\ PageTableEntry(pa, flag).pa = pa
         /\ PageTableEntry(pa, flag).flag = flag
  BY DEF PageTableEntry, Word

LEMMA InvalidEntry ==
  /\ INVALID_PTE \in Word
  /\ INVALID_PTE = ZeroWord
  /\ ~isValid(INVALID_PTE)
  /\ INVALID_PTE.pa = NULL
  BY DEF INVALID_PTE, PageTableEntry, Word, ZeroWord, Link, isValid

LEMMA FlagSets ==
  /\ {"V"} \in SUBSET PTEFlags
  /\ Perms \subseteq SUBSET PTEFlags
  /\ \A perm \in Perms : "V" \in perm /\ "R" \in perm
  BY PermsAssumption DEF PTEFlags

LEMMA ZeroPageIsContent == ZeroPage \in Content
  BY DEF ZeroPage, Content, ZeroWord, Link, Word

LEMMA MemType ==
  ASSUME NEW r \in Ram
  PROVE  r.mem \in Mem
  BY DEF Ram, Mem

(* The three indices of an address select entries of a table.              *)
LEMMA IndicesAreSlots ==
  ASSUME NEW va \in Nat
  PROVE  /\ vpn0(va) \in Slots
         /\ vpn1(va) \in Slots
         /\ vpn2(va) \in Slots
         /\ Key(va) \in Path
         /\ Key(va)[1] = vpn2(va)
         /\ Key(va)[2] = vpn1(va)
         /\ Key(va)[3] = vpn0(va)
  <1>1. \A x, n \in Nat : n > 0 => x % n \in 0 .. n - 1
    OBVIOUS
  <1>2. \A x, n \in Nat : n > 0 => x \div n \in Nat
    OBVIOUS
  <1>3. \A x, y \in Nat : x > 0 /\ y > 0 => x * y \in Nat /\ x * y > 0
    OBVIOUS
  <1>4. va \in Nat /\ PGSIZE \in Nat /\ PGSIZE > 0 /\ PTE_PER_PAGE \in Nat /\ PTE_PER_PAGE > 0
    BY PageSizeAssumption, SlotAssumption
  <1>5. /\ PGSIZE * PTE_PER_PAGE \in Nat
        /\ PGSIZE * PTE_PER_PAGE > 0
    BY <1>3, <1>4
  <1>6. /\ PGSIZE * PTE_PER_PAGE * PTE_PER_PAGE \in Nat
        /\ PGSIZE * PTE_PER_PAGE * PTE_PER_PAGE > 0
    BY <1>3, <1>4, <1>5
  <1>7. vpn0(va) \in Slots
    BY <1>1, <1>2, <1>4 DEF vpn0, Slots
  <1>8. vpn1(va) \in Slots
    <2> DEFINE d == PGSIZE * PTE_PER_PAGE
    <2>1. d \in Nat /\ d > 0
      BY <1>5
    <2> HIDE DEF d
    <2>2. (va \div d) % PTE_PER_PAGE \in Slots
      BY <1>1, <1>2, <1>4, <2>1 DEF Slots
    <2>3. QED
      BY <2>2 DEF vpn1, d
  <1>9. vpn2(va) \in Slots
    <2> DEFINE d == PGSIZE * PTE_PER_PAGE * PTE_PER_PAGE
    <2>1. d \in Nat /\ d > 0
      BY <1>6
    <2> HIDE DEF d
    <2>2. (va \div d) % PTE_PER_PAGE \in Slots
      BY <1>1, <1>2, <1>4, <2>1 DEF Slots
    <2>3. QED
      BY <2>2 DEF vpn2, d
  <1>10. QED
    BY <1>7, <1>8, <1>9 DEF Key, Path

-----------------------------------------------------------------------------
(* A level whose tables are not written keeps its entries.                 *)
LEMMA LevelUntouched ==
  ASSUME NEW m, NEW n, NEW S, \A p \in S : n[p] = m[p]
  PROVE  /\ Kids(n, S) = Kids(m, S)
         /\ \A F : Shape(m, S, F) => Shape(n, S, F)
         /\ OneParent(m, S) => OneParent(n, S)
  <1>1. Kids(n, S) = Kids(m, S)
    BY DEF Kids
  <1>2. ASSUME NEW F, Shape(m, S, F) PROVE Shape(n, S, F)
    BY <1>2 DEF Shape
  <1>3. OneParent(m, S) => OneParent(n, S)
    BY DEF OneParent
  <1>4. QED
    BY <1>1, <1>2, <1>3

(* Part of a well-formed level is well formed and leads to fewer pages.    *)
LEMMA LevelPart ==
  ASSUME NEW m, NEW S, NEW T, T \subseteq S
  PROVE  /\ Kids(m, T) \subseteq Kids(m, S)
         /\ \A F : Shape(m, S, F) => Shape(m, T, F)
         /\ OneParent(m, S) => OneParent(m, T)
  <1>1. Kids(m, T) \subseteq Kids(m, S)
    BY DEF Kids
  <1>2. ASSUME NEW F, Shape(m, S, F) PROVE Shape(m, T, F)
    BY <1>2 DEF Shape
  <1>3. OneParent(m, S) => OneParent(m, T)
    BY DEF OneParent
  <1>4. QED
    BY <1>1, <1>2, <1>3

(* A cleared page added to a level leads nowhere.                          *)
LEMMA LevelGrows ==
  ASSUME NEW m, NEW S, NEW q, m[q] = ZeroPage
  PROVE  /\ Kids(m, S \cup {q}) = Kids(m, S)
         /\ \A F : Shape(m, S, F) => Shape(m, S \cup {q}, F)
         /\ OneParent(m, S) => OneParent(m, S \cup {q})
  <1>1. \A i \in Slots : m[q][i] = INVALID_PTE /\ ~isValid(m[q][i])
    BY InvalidEntry DEF ZeroPage
  <1>2. Kids(m, S \cup {q}) = Kids(m, S)
    BY <1>1 DEF Kids
  <1>3. ASSUME NEW F, Shape(m, S, F) PROVE Shape(m, S \cup {q}, F)
    BY <1>1, <1>3 DEF Shape
  <1>4. OneParent(m, S) => OneParent(m, S \cup {q})
    BY <1>1 DEF OneParent
  <1>5. QED
    BY <1>2, <1>3, <1>4

(* Writing one word of memory. *)
LEMMA WordWritten ==
  ASSUME NEW m \in Mem, NEW p \in Pages, NEW i \in Slots, NEW w
  PROVE  LET n == [m EXCEPT ![p][i] = w]
         IN  /\ n[p][i] = w
             /\ \A q \in Pages, j \in Slots : q # p \/ j # i => n[q][j] = m[q][j]
             /\ \A q \in Pages : q # p => n[q] = m[q]
  BY DEF Mem, Content

(* A new entry in place of an invalid one adds its page to the next level. *)
LEMMA EntryAdded ==
  ASSUME NEW m \in Mem, NEW S \in SUBSET Pages, NEW F,
         Shape(m, S, F), OneParent(m, S),
         NEW p \in S, NEW i \in Slots, ~isValid(m[p][i]),
         NEW w, isValid(w), w.pa \in Pages \ Kids(m, S), w.flag \in F,
         NEW n, n = [m EXCEPT ![p][i] = w]
  PROVE  /\ Kids(n, S) = Kids(m, S) \cup {w.pa}
         /\ Shape(n, S, F)
         /\ OneParent(n, S)
  <1>1. /\ n[p][i] = w
        /\ \A q \in S, j \in Slots : q # p \/ j # i => n[q][j] = m[q][j]
    <2>1. p \in Pages /\ \A q \in S : q \in Pages
      OBVIOUS
    <2>2. /\ n[p][i] = w
          /\ \A q \in Pages, j \in Slots : q # p \/ j # i => n[q][j] = m[q][j]
      BY <2>1 DEF Mem, Content
    <2>3. QED
      BY <2>1, <2>2
  <1>2. \A q \in S, j \in Slots : isValid(m[q][j]) => q # p \/ j # i
    OBVIOUS
  <1>3. \A q \in S, j \in Slots : isValid(m[q][j]) /\ m[q][j].pa \in Pages => m[q][j].pa # w.pa
    BY DEF Kids
  <1>4. Kids(n, S) = Kids(m, S) \cup {w.pa}
    BY <1>1, <1>2 DEF Kids
  <1>5. Shape(n, S, F)
    BY <1>1 DEF Shape
  <1>6. OneParent(n, S)
    <2>1. SUFFICES ASSUME NEW a \in S, NEW b \in S, NEW j \in Slots, NEW k \in Slots,
                          isValid(n[a][j]), isValid(n[b][k]), n[a][j].pa = n[b][k].pa
                   PROVE  a = b /\ j = k
      BY DEF OneParent
    <2>2. n[a][j].pa \in Pages
      BY <1>5, <2>1 DEF Shape
    <2>3. CASE (a # p \/ j # i) /\ (b # p \/ k # i)
      BY <1>1, <2>1, <2>3 DEF OneParent
    <2>4. CASE a = p /\ j = i
      BY <1>1, <1>3, <2>1, <2>2, <2>4
    <2>5. CASE b = p /\ k = i
      BY <1>1, <1>3, <2>1, <2>2, <2>5
    <2>6. QED
      BY <2>3, <2>4, <2>5
  <1>7. QED
    BY <1>4, <1>5, <1>6

(* A valid entry cleared takes its page, and no other, off the next level. *)
LEMMA EntryCleared ==
  ASSUME NEW m \in Mem, NEW S \in SUBSET Pages, NEW F,
         Shape(m, S, F), OneParent(m, S),
         NEW p \in S, NEW i \in Slots, isValid(m[p][i]),
         NEW n, n = [m EXCEPT ![p][i] = INVALID_PTE]
  PROVE  /\ Kids(n, S) = Kids(m, S) \ {m[p][i].pa}
         /\ Shape(n, S, F)
         /\ OneParent(n, S)
  <1>1. /\ n[p][i] = INVALID_PTE
        /\ ~isValid(n[p][i])
        /\ \A q \in S, j \in Slots : q # p \/ j # i => n[q][j] = m[q][j]
    <2>1. p \in Pages /\ \A q \in S : q \in Pages
      OBVIOUS
    <2>2. /\ n[p][i] = INVALID_PTE
          /\ \A q \in Pages, j \in Slots : q # p \/ j # i => n[q][j] = m[q][j]
      BY <2>1, WordWritten
    <2>3. QED
      BY <2>1, <2>2, InvalidEntry
  <1>2. Kids(n, S) = Kids(m, S) \ {m[p][i].pa}
    <2>1. ASSUME NEW q \in Kids(n, S) PROVE q \in Kids(m, S) /\ q # m[p][i].pa
      <3>1. PICK a \in S, j \in Slots : isValid(n[a][j]) /\ n[a][j].pa = q
        BY DEF Kids
      <3>2. (a # p \/ j # i) /\ n[a][j] = m[a][j]
        BY <1>1, <3>1
      <3>3. q # m[p][i].pa
        BY <3>1, <3>2 DEF OneParent
      <3>4. QED
        BY <3>1, <3>2, <3>3 DEF Kids
    <2>2. ASSUME NEW q \in Kids(m, S), q # m[p][i].pa PROVE q \in Kids(n, S)
      BY <1>1, <2>2 DEF Kids
    <2>3. QED
      BY <2>1, <2>2
  <1>3. Shape(n, S, F)
    BY <1>1 DEF Shape
  <1>4. OneParent(n, S)
    BY <1>1 DEF OneParent
  <1>5. QED
    BY <1>2, <1>3, <1>4

-----------------------------------------------------------------------------
(* A walk from a root goes down the levels, one by one.                    *)
LEMMA WalkDescends ==
  ASSUME NEW m, NEW rt \in [Tables -> Pages \cup {NULL}], Forest(m, rt),
         NEW t \in Tables, NEW k \in Path
  PROVE  LET mid == step(m, rt[t], k[1])
             low == step(m, mid, k[2])
         IN  /\ rt[t] # NULL => rt[t] \in RootPages(rt)
             /\ mid # NULL => /\ rt[t] # NULL
                              /\ isValid(m[rt[t]][k[1]])
                              /\ mid = m[rt[t]][k[1]].pa
                              /\ mid \in MiddlePages(m, rt)
             /\ low # NULL => /\ mid # NULL
                              /\ isValid(m[mid][k[2]])
                              /\ low = m[mid][k[2]].pa
                              /\ low \in LowPages(m, rt)
             /\ low # NULL /\ isValid(m[low][k[3]]) =>
                  /\ m[low][k[3]].pa \in MappedPages(m, rt)
                  /\ m[low][k[3]].flag \in Perms
  <1> DEFINE mid == step(m, rt[t], k[1])
             low == step(m, mid, k[2])
  <1>1. k[1] \in Slots /\ k[2] \in Slots /\ k[3] \in Slots
    BY DEF Path
  <1>2. rt[t] # NULL => rt[t] \in RootPages(rt)
    BY DEF RootPages
  <1>3. mid # NULL => /\ rt[t] # NULL
                      /\ isValid(m[rt[t]][k[1]])
                      /\ mid = m[rt[t]][k[1]].pa
    BY DEF step
  <1>4. mid # NULL => mid \in MiddlePages(m, rt)
    BY <1>1, <1>2, <1>3, SMTT(30) DEF MiddlePages, Kids, Forest, Shape
  <1>5. low # NULL => /\ mid # NULL
                      /\ isValid(m[mid][k[2]])
                      /\ low = m[mid][k[2]].pa
    BY DEF step
  <1>6. low # NULL => low \in LowPages(m, rt)
    BY <1>1, <1>4, <1>5 DEF LowPages, Kids, Forest, Shape
  <1>7. low # NULL /\ isValid(m[low][k[3]]) =>
          /\ m[low][k[3]].pa \in MappedPages(m, rt)
          /\ m[low][k[3]].flag \in Perms
    BY <1>1, <1>6 DEF MappedPages, Kids, Forest, Shape
  <1>8. QED
    BY <1>2, <1>3, <1>4, <1>5, <1>6, <1>7

(* Memory that changes outside the tables changes no map.                  *)
LEMMA ForestUntouched ==
  ASSUME NEW m, NEW rt \in [Tables -> Pages \cup {NULL}], Forest(m, rt), NEW n,
         \A p \in RootPages(rt) \cup MiddlePages(m, rt) \cup LowPages(m, rt) : n[p] = m[p]
  PROVE  /\ MiddlePages(n, rt) = MiddlePages(m, rt)
         /\ LowPages(n, rt) = LowPages(m, rt)
         /\ MappedPages(n, rt) = MappedPages(m, rt)
         /\ Forest(n, rt)
         /\ SameMaps(m, n, rt)
  <1>1. /\ MiddlePages(n, rt) = MiddlePages(m, rt)
        /\ \A F : Shape(m, RootPages(rt), F) => Shape(n, RootPages(rt), F)
        /\ OneParent(m, RootPages(rt)) => OneParent(n, RootPages(rt))
    BY LevelUntouched DEF MiddlePages
  <1>2. /\ LowPages(n, rt) = LowPages(m, rt)
        /\ \A F : Shape(m, MiddlePages(m, rt), F) => Shape(n, MiddlePages(m, rt), F)
        /\ OneParent(m, MiddlePages(m, rt)) => OneParent(n, MiddlePages(m, rt))
    <2>1. \A p \in MiddlePages(m, rt) : n[p] = m[p]
      OBVIOUS
    <2>2. QED
      BY <1>1, <2>1, LevelUntouched DEF LowPages
  <1>3. /\ MappedPages(n, rt) = MappedPages(m, rt)
        /\ \A F : Shape(m, LowPages(m, rt), F) => Shape(n, LowPages(m, rt), F)
        /\ OneParent(m, LowPages(m, rt)) => OneParent(n, LowPages(m, rt))
    <2>1. \A p \in LowPages(m, rt) : n[p] = m[p]
      OBVIOUS
    <2>2. QED
      BY <1>2, <2>1, LevelUntouched DEF MappedPages
  <1>4. Forest(n, rt)
    BY <1>1, <1>2, <1>3 DEF Forest
  <1>5. SameMaps(m, n, rt)
    <2> SUFFICES ASSUME NEW t \in Tables, NEW k \in Path
                 PROVE  EntryAt(n, rt[t], k) = EntryAt(m, rt[t], k)
      BY DEF SameMaps
    <2> DEFINE mid == step(m, rt[t], k[1])
               low == step(m, mid, k[2])
    <2>1. /\ rt[t] # NULL => rt[t] \in RootPages(rt)
          /\ mid # NULL => mid \in MiddlePages(m, rt)
          /\ low # NULL => low \in LowPages(m, rt)
      BY WalkDescends
    <2>2. step(n, rt[t], k[1]) = mid
      BY <2>1, SMTT(30) DEF step
    <2>3. step(n, mid, k[2]) = low
      BY <2>1 DEF step
    <2>4. low # NULL => n[low] = m[low]
      BY <2>1
    <2>5. QED
      BY <2>2, <2>3, <2>4 DEF EntryAt
  <1>6. QED
    BY <1>1, <1>2, <1>3, <1>4, <1>5

-----------------------------------------------------------------------------
(* alloc_page moves a page from the free list to the holder.               *)
LEMMA PageTaken ==
  ASSUME NEW r, NEW rt, NEW h, Well(r, rt, h)
  PROVE  LET a == alloc_page(r)
         IN  /\ a.ram.mem = r.mem
             /\ a.page = NULL => a.ram = r
             /\ a.page # NULL => /\ a.page \in Pages /\ a.page \in FreeSet(r)
                                 /\ Well(a.ram, rt, h \cup {a.page})
                                 /\ InUse(a.ram, rt, h \cup {a.page}) = InUse(r, rt, h)
  <1> DEFINE a == alloc_page(r)
  <1>1. /\ a.ram \in Ram
        /\ a.ram.mem = r.mem
        /\ FreeListWF(a.ram)
        /\ a.page = NULL => FreeSet(r) = {} /\ a.ram = r
        /\ a.page # NULL => /\ a.page \in Pages
                            /\ a.page \in FreeSet(r)
                            /\ FreeSet(a.ram) = FreeSet(r) \ {a.page}
    BY AllocPageCorrect DEF Well, Typed
  <1> HIDE DEF a
  <1>2. ASSUME a.page # NULL
        PROVE  /\ Well(a.ram, rt, h \cup {a.page})
               /\ InUse(a.ram, rt, h \cup {a.page}) = InUse(r, rt, h)
    <2>1. Typed(a.ram, rt, h \cup {a.page})
      BY <1>1, <1>2 DEF Well, Typed
    <2>2. Apart(FreeSet(a.ram), h \cup {a.page}, RootPages(rt), MiddlePages(r.mem, rt),
                LowPages(r.mem, rt), MappedPages(r.mem, rt))
      BY <1>1, <1>2 DEF Well, Apart
    <2>3. InUse(a.ram, rt, h \cup {a.page}) = InUse(r, rt, h)
      BY <1>1, <1>2 DEF InUse
    <2>4. QED
      BY <1>1, <2>1, <2>2, <2>3 DEF Well
  <1>3. QED
    BY <1>1, <1>2 DEF a

(* free_page moves a page from the holder to the free list.                *)
LEMMA PageGiven ==
  ASSUME NEW r, NEW rt, NEW h, Well(r, rt, h), NEW p \in h
  PROVE  LET s == free_page(r, p)
         IN  /\ Well(s, rt, h \ {p})
             /\ InUse(s, rt, h \ {p}) = InUse(r, rt, h)
             /\ SameMaps(r.mem, s.mem, rt)
  <1> DEFINE s == free_page(r, p)
  <1>1. p \in Pages /\ p \notin FreeSet(r) /\ r \in Ram /\ FreeListWF(r)
    BY DEF Well, Typed, Apart
  <1>2. /\ s \in Ram
        /\ s.mem = [r.mem EXCEPT ![p][0] = Link(r.free_pages_list)]
        /\ FreeListWF(s)
        /\ FreeSet(s) = FreeSet(r) \cup {p}
    BY <1>1, FreePageCorrect
  <1> HIDE DEF s
  <1>3. \A q \in RootPages(rt) \cup MiddlePages(r.mem, rt) \cup LowPages(r.mem, rt) : s.mem[q] = r.mem[q]
    <2>1. \A q : q # p => s.mem[q] = r.mem[q]
      BY <1>1, <1>2 DEF Ram
    <2>2. QED
      BY <2>1 DEF Well, Apart
  <1>4. /\ MiddlePages(s.mem, rt) = MiddlePages(r.mem, rt)
        /\ LowPages(s.mem, rt) = LowPages(r.mem, rt)
        /\ MappedPages(s.mem, rt) = MappedPages(r.mem, rt)
        /\ Forest(s.mem, rt)
        /\ SameMaps(r.mem, s.mem, rt)
    BY <1>3, ForestUntouched DEF Well, Typed
  <1>5. Typed(s, rt, h \ {p})
    BY <1>2 DEF Well, Typed
  <1>6. Apart(FreeSet(s), h \ {p}, RootPages(rt), MiddlePages(s.mem, rt),
              LowPages(s.mem, rt), MappedPages(s.mem, rt))
    BY <1>1, <1>2, <1>4 DEF Well, Apart
  <1>7. InUse(s, rt, h \ {p}) = InUse(r, rt, h)
    BY <1>2, <1>4 DEF InUse
  <1>8. QED
    BY <1>2, <1>4, <1>5, <1>6, <1>7 DEF Well, s

(* Whoever holds a page or has it mapped may overwrite it.                 *)
LEMMA PageFilled ==
  ASSUME NEW r, NEW rt, NEW h, Well(r, rt, h),
         NEW p \in h \cup MappedPages(r.mem, rt), NEW c \in Content
  PROVE  LET s == [r EXCEPT !.mem[p] = c]
         IN  /\ s.mem = [r.mem EXCEPT ![p] = c]
             /\ Well(s, rt, h)
             /\ MiddlePages(s.mem, rt) = MiddlePages(r.mem, rt)
             /\ InUse(s, rt, h) = InUse(r, rt, h)
             /\ SameMaps(r.mem, s.mem, rt)
  <1> DEFINE s == [r EXCEPT !.mem[p] = c]
  <1>1. p \in Pages /\ p \notin FreeSet(r) /\ r \in Ram /\ FreeListWF(r)
    BY DEF Well, Typed, Apart, MappedPages, Kids
  <1>2. /\ s \in Ram
        /\ s.mem = [r.mem EXCEPT ![p] = c]
        /\ FreeListWF(s)
        /\ FreeSet(s) = FreeSet(r)
    BY <1>1, FillCorrect
  <1> HIDE DEF s
  <1>3. \A q \in RootPages(rt) \cup MiddlePages(r.mem, rt) \cup LowPages(r.mem, rt) : s.mem[q] = r.mem[q]
    <2>1. \A q : q # p => s.mem[q] = r.mem[q]
      BY <1>1, <1>2 DEF Ram
    <2>2. QED
      BY <2>1 DEF Well, Apart
  <1>4. /\ MiddlePages(s.mem, rt) = MiddlePages(r.mem, rt)
        /\ LowPages(s.mem, rt) = LowPages(r.mem, rt)
        /\ MappedPages(s.mem, rt) = MappedPages(r.mem, rt)
        /\ Forest(s.mem, rt)
        /\ SameMaps(r.mem, s.mem, rt)
    BY <1>3, ForestUntouched DEF Well, Typed
  <1>5. Typed(s, rt, h)
    BY <1>2 DEF Well, Typed
  <1>6. InUse(s, rt, h) = InUse(r, rt, h)
    BY <1>2, <1>4 DEF InUse
  <1>7. QED
    BY <1>2, <1>4, <1>5, <1>6 DEF Well, s

(* One word of it, in particular.                                          *)
LEMMA WordStored ==
  ASSUME NEW r, NEW rt, NEW h, Well(r, rt, h),
         NEW p \in h \cup MappedPages(r.mem, rt), NEW i \in Slots, NEW w \in Word
  PROVE  LET s == [r EXCEPT !.mem[p][i] = w]
         IN  /\ Well(s, rt, h)
             /\ InUse(s, rt, h) = InUse(r, rt, h)
             /\ SameMaps(r.mem, s.mem, rt)
  <1> DEFINE c == [r.mem[p] EXCEPT ![i] = w]
  <1>1. r \in Ram /\ r.mem \in [Pages -> Content] /\ p \in Pages
    BY DEF Well, Typed, Ram, MappedPages, Kids
  <1>2. c \in Content
    BY <1>1 DEF Content
  <1>3. [r EXCEPT !.mem[p][i] = w] = [r EXCEPT !.mem[p] = c]
    BY <1>1 DEF Ram
  <1> HIDE DEF c
  <1> DEFINE s == [r EXCEPT !.mem[p] = c]
  <1>4. /\ Well(s, rt, h)
        /\ InUse(s, rt, h) = InUse(r, rt, h)
        /\ SameMaps(r.mem, s.mem, rt)
    BY <1>2, PageFilled
  <1> HIDE DEF s
  <1>5. [r EXCEPT !.mem[p][i] = w] = s
    BY <1>3 DEF s
  <1>6. QED
    BY <1>4, <1>5

-----------------------------------------------------------------------------
(* Table q hung at entry i of table p. *)
Hung(r, p, i, q) == [r EXCEPT !.mem[p][i] = PageTableEntry(q, {"V"})]

(* A held, cleared page hung below a root or a middle table becomes a      *)
(* table of the next level, and no map changes.                            *)
LEMMA TableHung ==
  ASSUME NEW r, NEW rt, NEW h, Well(r, rt, h),
         NEW p \in RootPages(rt) \cup MiddlePages(r.mem, rt), NEW i \in Slots,
         ~isValid(r.mem[p][i]),
         NEW q \in h, r.mem[q] = ZeroPage
  PROVE  LET s == Hung(r, p, i, q)
         IN  /\ Well(s, rt, h \ {q})
             /\ InUse(s, rt, h \ {q}) = InUse(r, rt, h)
             /\ SameMaps(r.mem, s.mem, rt)
             /\ p \in RootPages(rt) => q \in MiddlePages(s.mem, rt)
             /\ p \in MiddlePages(r.mem, rt) => q \in LowPages(s.mem, rt)
             /\ s.mem[q] = ZeroPage
  <1> DEFINE m == r.mem
             w == PageTableEntry(q, {"V"})
             s == [r EXCEPT !.mem[p][i] = w]
             n == s.mem
             l0 == RootPages(rt)
             l1 == MiddlePages(m, rt)
             l2 == LowPages(m, rt)
             l3 == MappedPages(m, rt)
  <1>1. /\ r \in Ram /\ m \in Mem /\ FreeListWF(r)
        /\ q \in Pages /\ h \in SUBSET Pages
        /\ rt \in [Tables -> Pages \cup {NULL}]
    BY MemType DEF Well, Typed
  <1>2. /\ l0 \in SUBSET Pages /\ l1 \in SUBSET Pages
        /\ l2 \in SUBSET Pages /\ l3 \in SUBSET Pages
    BY <1>1 DEF RootPages, MiddlePages, LowPages, MappedPages, Kids
  <1>3. Apart(FreeSet(r), h, l0, l1, l2, l3)
    BY DEF Well
  <1>4. p \in Pages /\ p \notin FreeSet(r) /\ p \notin h /\ p # q /\ p \notin l2
    BY <1>2, <1>3 DEF Apart
  <1>5. w \in Word /\ w.pa = q /\ w.flag = {"V"} /\ isValid(w)
    BY <1>1, EntryIsWord, FlagSets DEF isValid
  <1> HIDE DEF w
  <1>6. /\ s \in Ram
        /\ n = [m EXCEPT ![p][i] = w]
        /\ FreeListWF(s)
        /\ FreeSet(s) = FreeSet(r)
    BY <1>1, <1>4, <1>5, StoreCorrect
  <1> HIDE DEF s
  <1>7. /\ n[p][i] = w
        /\ \A a \in Pages : a # p => n[a] = m[a]
        /\ \A j \in Slots : j # i => n[p][j] = m[p][j]
    BY <1>1, <1>4, <1>6 DEF Mem, Content
  <1>8. n[q] = ZeroPage
    BY <1>1, <1>4, <1>7
  <1>9. \A j \in Slots : ~isValid(n[q][j])
    BY <1>8, InvalidEntry DEF ZeroPage
  <1>10. /\ DistinctRoots(rt)
         /\ Shape(m, l0, {{"V"}}) /\ OneParent(m, l0)
         /\ Shape(m, l1, {{"V"}}) /\ OneParent(m, l1)
         /\ Shape(m, l2, Perms) /\ OneParent(m, l2)
    BY DEF Well, Forest
  <1>11. /\ Kids(n, l2) = l3 /\ Shape(n, l2, Perms) /\ OneParent(n, l2)
    <2>1. \A a \in l2 : n[a] = m[a]
      BY <1>2, <1>4, <1>7
    <2>2. QED
      BY <1>10, <2>1, LevelUntouched DEF MappedPages
  <1>12. SameMaps(m, n, rt)
    <2> SUFFICES ASSUME NEW t \in Tables, NEW k \in Path
                 PROVE  EntryAt(n, rt[t], k) = EntryAt(m, rt[t], k)
      BY DEF SameMaps
    <2> DEFINE mid == step(m, rt[t], k[1])
               low == step(m, mid, k[2])
    <2>1. /\ rt[t] # NULL => rt[t] \in l0
          /\ mid # NULL => mid \in l1
          /\ low # NULL => low \in l2
      BY <1>1, WalkDescends DEF Well
    <2>2. k[1] \in Slots /\ k[2] \in Slots /\ k[3] \in Slots
      BY DEF Path
    <2>3. EntryAt(m, rt[t], k) = IF low # NULL /\ isValid(m[low][k[3]]) THEN m[low][k[3]] ELSE INVALID_PTE
      BY DEF EntryAt
    <2>4. \A x : step(m, NULL, x) = NULL /\ step(n, NULL, x) = NULL
      BY DEF step
    <2>5. \A x \in Slots : step(n, q, x) = NULL
      BY <1>9 DEF step
    <2>6. CASE rt[t] = p /\ k[1] = i
      <3>1. mid = NULL /\ low = NULL
        BY <2>6, <2>4 DEF step
      <3>2. step(n, rt[t], k[1]) = q \/ step(n, rt[t], k[1]) = NULL
        BY <1>5, <1>7, <2>6 DEF step
      <3>3. step(n, step(n, rt[t], k[1]), k[2]) = NULL
        BY <2>2, <2>4, <2>5, <3>2
      <3>4. QED
        BY <2>3, <3>1, <3>3 DEF EntryAt
    <2>7. CASE ~(rt[t] = p /\ k[1] = i)
      <3>1. step(n, rt[t], k[1]) = mid
        BY <1>2, <1>7, <2>1, <2>2, <2>7, ZenonT(30) DEF step
      <3>2. CASE mid = p /\ k[2] = i
        <4>1. low = NULL
          BY <3>2 DEF step
        <4>2. step(n, mid, k[2]) = q \/ step(n, mid, k[2]) = NULL
          BY <1>5, <1>7, <3>2, Zenon DEF step
        <4>3. QED
          BY <1>9, <2>2, <2>3, <3>1, <4>1, <4>2 DEF EntryAt
      <3>3. CASE ~(mid = p /\ k[2] = i)
        <4>1. step(n, mid, k[2]) = low
          BY <1>2, <1>7, <2>1, <2>2, <3>3, ZenonT(30) DEF step
        <4>2. low # NULL => n[low] = m[low]
          BY <1>2, <1>4, <1>7, <2>1
        <4>3. QED
          BY <2>3, <3>1, <4>1, <4>2 DEF EntryAt
      <3>4. QED
        BY <3>2, <3>3
    <2>8. QED
      BY <2>6, <2>7
  <1>13. CASE p \in l0
    <2>1. q \notin l1
      BY <1>3 DEF Apart
    <2>2. /\ MiddlePages(n, rt) = l1 \cup {q}
          /\ Shape(n, l0, {{"V"}}) /\ OneParent(n, l0)
      <3>1. q \notin Kids(m, l0) /\ w.pa \in Pages \ Kids(m, l0) /\ w.flag \in {{"V"}}
        BY <1>1, <1>5, <2>1 DEF MiddlePages
      <3>2. /\ Kids(n, l0) = Kids(m, l0) \cup {w.pa}
            /\ Shape(n, l0, {{"V"}})
            /\ OneParent(n, l0)
        BY <1>1, <1>2, <1>5, <1>6, <1>10, <1>13, <3>1, EntryAdded
      <3>3. QED
        BY <1>5, <3>2 DEF MiddlePages
    <2>3. /\ LowPages(n, rt) = l2
          /\ Shape(n, l1 \cup {q}, {{"V"}}) /\ OneParent(n, l1 \cup {q})
      <3>1. \A a \in l1 \cup {q} : n[a] = m[a]
        BY <1>1, <1>2, <1>3, <1>4, <1>7, <1>13 DEF Apart
      <3>2. /\ Kids(m, l1 \cup {q}) = Kids(m, l1)
            /\ Shape(m, l1 \cup {q}, {{"V"}})
            /\ OneParent(m, l1 \cup {q})
        BY <1>10, LevelGrows
      <3>3. /\ Kids(n, l1 \cup {q}) = Kids(m, l1 \cup {q})
            /\ Shape(n, l1 \cup {q}, {{"V"}}) /\ OneParent(n, l1 \cup {q})
        BY <3>1, <3>2, LevelUntouched
      <3>4. QED
        BY <2>2, <3>2, <3>3 DEF LowPages
    <2>4. MappedPages(n, rt) = l3
      BY <1>11, <2>3 DEF MappedPages
    <2>5. Forest(n, rt)
      BY <1>10, <1>11, <2>2, <2>3 DEF Forest
    <2>6. Apart(FreeSet(s), h \ {q}, l0, l1 \cup {q}, l2, l3)
      BY <1>3, <1>6 DEF Apart
    <2>7. Typed(s, rt, h \ {q})
      BY <1>1, <1>6 DEF Typed
    <2>8. InUse(s, rt, h \ {q}) = InUse(r, rt, h)
      BY <1>6, <2>2, <2>3, <2>4 DEF InUse
    <2>9. p \notin l1
      BY <1>3, <1>13 DEF Apart
    <2>10. QED
      BY <1>6, <1>8, <1>12, <2>2, <2>3, <2>4, <2>5, <2>6, <2>7, <2>8, <2>9
         DEF Well, s, w, Hung
  <1>14. CASE p \in l1
    <2>1. q \notin l2 /\ p \notin l0
      BY <1>3, <1>14 DEF Apart
    <2>2. /\ MiddlePages(n, rt) = l1
          /\ Shape(n, l0, {{"V"}}) /\ OneParent(n, l0)
      <3>1. \A a \in l0 : n[a] = m[a]
        BY <1>2, <1>7, <2>1
      <3>2. QED
        BY <1>10, <3>1, LevelUntouched DEF MiddlePages
    <2>3. /\ LowPages(n, rt) = l2 \cup {q}
          /\ Shape(n, l1, {{"V"}}) /\ OneParent(n, l1)
      <3>1. w.pa \in Pages \ Kids(m, l1) /\ w.flag \in {{"V"}}
        BY <1>1, <1>5, <2>1 DEF LowPages
      <3>2. /\ Kids(n, l1) = Kids(m, l1) \cup {w.pa}
            /\ Shape(n, l1, {{"V"}})
            /\ OneParent(n, l1)
        BY <1>1, <1>2, <1>5, <1>6, <1>10, <1>14, <3>1, EntryAdded
      <3>3. QED
        BY <1>5, <2>2, <3>2 DEF LowPages
    <2>4. /\ MappedPages(n, rt) = l3
          /\ Shape(n, l2 \cup {q}, Perms) /\ OneParent(n, l2 \cup {q})
      <3>1. /\ Kids(n, l2 \cup {q}) = Kids(n, l2)
            /\ Shape(n, l2 \cup {q}, Perms)
            /\ OneParent(n, l2 \cup {q})
        BY <1>8, <1>11, LevelGrows
      <3>2. QED
        BY <1>11, <2>3, <3>1 DEF MappedPages
    <2>5. Forest(n, rt)
      BY <1>10, <2>2, <2>3, <2>4 DEF Forest
    <2>6. Apart(FreeSet(s), h \ {q}, l0, l1, l2 \cup {q}, l3)
      BY <1>3, <1>6 DEF Apart
    <2>7. Typed(s, rt, h \ {q})
      BY <1>1, <1>6 DEF Typed
    <2>8. InUse(s, rt, h \ {q}) = InUse(r, rt, h)
      BY <1>6, <2>2, <2>3, <2>4 DEF InUse
    <2>10. QED
      BY <1>6, <1>8, <1>12, <2>1, <2>2, <2>3, <2>4, <2>5, <2>6, <2>7, <2>8
         DEF Well, s, w, Hung
  <1>15. QED
    BY <1>13, <1>14

-----------------------------------------------------------------------------
(* The low table a walk from a root comes to. *)
LowAt(m, table, k) == step(m, step(m, table, k[1]), k[2])

(* Between two memories the entry of one path of one table becomes w, and  *)
(* no other entry changes.                                                 *)
OnlyEntry(m, n, rt, t, k, w) ==
  /\ EntryAt(n, rt[t], k) = w
  /\ \A u \in Tables, j \in Path : u # t \/ j # k => EntryAt(n, rt[u], j) = EntryAt(m, rt[u], j)

(* The entry that leads to a page of the next level is the only one.       *)
LEMMA EntryFound ==
  ASSUME NEW m, NEW S, OneParent(m, S),
         NEW p \in S, NEW q \in S, NEW i \in Slots, NEW j \in Slots,
         isValid(m[p][i]), isValid(m[q][j]), m[p][i].pa = m[q][j].pa
  PROVE  p = q /\ i = j
  BY DEF OneParent

(* Different paths never come to the same entry of the same low table.     *)
LEMMA PathsPart ==
  ASSUME NEW m, NEW rt \in [Tables -> Pages \cup {NULL}], Forest(m, rt),
         NEW t \in Tables, NEW k \in Path, NEW u \in Tables, NEW j \in Path,
         LowAt(m, rt[t], k) # NULL,
         LowAt(m, rt[t], k) = LowAt(m, rt[u], j), k[3] = j[3]
  PROVE  t = u /\ k = j
  <1> DEFINE midt == step(m, rt[t], k[1])
             midu == step(m, rt[u], j[1])
  <1>1. /\ midt # NULL /\ isValid(m[midt][k[2]])
        /\ LowAt(m, rt[t], k) = m[midt][k[2]].pa
        /\ midt \in MiddlePages(m, rt)
        /\ rt[t] # NULL /\ isValid(m[rt[t]][k[1]])
        /\ midt = m[rt[t]][k[1]].pa
        /\ rt[t] \in RootPages(rt)
    BY WalkDescends DEF LowAt
  <1>2. /\ midu # NULL /\ isValid(m[midu][j[2]])
        /\ LowAt(m, rt[u], j) = m[midu][j[2]].pa
        /\ midu \in MiddlePages(m, rt)
        /\ rt[u] # NULL /\ isValid(m[rt[u]][j[1]])
        /\ midu = m[rt[u]][j[1]].pa
        /\ rt[u] \in RootPages(rt)
    BY WalkDescends DEF LowAt
  <1>3. k[1] \in Slots /\ k[2] \in Slots /\ j[1] \in Slots /\ j[2] \in Slots
    BY DEF Path
  <1> HIDE DEF midt, midu
  <1>4. midt = midu /\ k[2] = j[2]
    <2> DEFINE S == MiddlePages(m, rt)
    <2>1. OneParent(m, S)
      BY DEF Forest
    <2>2. midt \in S /\ midu \in S
      BY <1>1, <1>2, ZenonT(30)
    <2>3. isValid(m[midt][k[2]]) /\ isValid(m[midu][j[2]]) /\ m[midt][k[2]].pa = m[midu][j[2]].pa
      BY <1>1, <1>2, Zenon
    <2> HIDE DEF S
    <2>4. QED
      BY <1>3, <2>1, <2>2, <2>3, EntryFound
  <1>5. rt[t] = rt[u] /\ k[1] = j[1]
    <2> DEFINE S == RootPages(rt)
    <2>1. OneParent(m, S)
      BY DEF Forest
    <2>2. rt[t] \in S /\ rt[u] \in S
      BY <1>1, <1>2, ZenonT(30)
    <2>3. isValid(m[rt[t]][k[1]]) /\ isValid(m[rt[u]][j[1]]) /\ m[rt[t]][k[1]].pa = m[rt[u]][j[1]].pa
      BY <1>1, <1>2, <1>4, ZenonT(30)
    <2> HIDE DEF S
    <2>4. QED
      BY <1>3, <2>1, <2>2, <2>3, EntryFound
  <1>6. t = u
    BY <1>1, <1>5, Zenon DEF Forest, DistinctRoots
  <1>7. k = <<k[1], k[2], k[3]>> /\ j = <<j[1], j[2], j[3]>>
    BY DEF Path
  <1>8. QED
    BY <1>4, <1>5, <1>6, <1>7

(* Writing the word of a path in its low table changes that entry only.    *)
LEMMA LeafWritten ==
  ASSUME NEW r, NEW rt, NEW h, Well(r, rt, h),
         NEW t \in Tables, NEW k \in Path, LowAt(r.mem, rt[t], k) # NULL,
         NEW w \in Word
  PROVE  LET low == LowAt(r.mem, rt[t], k)
             n   == [r.mem EXCEPT ![low][k[3]] = w]
         IN  /\ MiddlePages(n, rt) = MiddlePages(r.mem, rt)
             /\ LowPages(n, rt) = LowPages(r.mem, rt)
             /\ Shape(n, RootPages(rt), {{"V"}}) /\ OneParent(n, RootPages(rt))
             /\ Shape(n, MiddlePages(r.mem, rt), {{"V"}}) /\ OneParent(n, MiddlePages(r.mem, rt))
             /\ OnlyEntry(r.mem, n, rt, t, k, IF isValid(w) THEN w ELSE INVALID_PTE)
  <1> DEFINE m == r.mem
             low == LowAt(m, rt[t], k)
             n == [m EXCEPT ![low][k[3]] = w]
             l0 == RootPages(rt)
             l1 == MiddlePages(m, rt)
             l2 == LowPages(m, rt)
  <1>1. /\ m \in Mem /\ Forest(m, rt)
        /\ rt \in [Tables -> Pages \cup {NULL}]
    BY MemType DEF Well, Typed
  <1>2. l0 \in SUBSET Pages /\ l1 \in SUBSET Pages /\ l2 \in SUBSET Pages
    BY <1>1 DEF RootPages, MiddlePages, LowPages, Kids
  <1>3. low \in l2
    BY <1>1, WalkDescends DEF LowAt
  <1>4. low \in Pages /\ low \notin l0 /\ low \notin l1
    BY <1>2, <1>3 DEF Well, Apart
  <1>5. k[1] \in Slots /\ k[2] \in Slots /\ k[3] \in Slots
    BY DEF Path
  <1> HIDE DEF low
  <1>6. /\ n[low][k[3]] = w
        /\ \A a \in Pages : a # low => n[a] = m[a]
        /\ \A j \in Slots : j # k[3] => n[low][j] = m[low][j]
    BY <1>1, <1>4, <1>5 DEF Mem, Content
  <1> HIDE DEF n
  <1>7. (\A a \in l0 : n[a] = m[a]) /\ (\A a \in l1 : n[a] = m[a])
    BY <1>2, <1>4, <1>6
  <1>8. /\ MiddlePages(n, rt) = l1
        /\ Shape(n, l0, {{"V"}}) /\ OneParent(n, l0)
    BY <1>1, <1>7, LevelUntouched DEF MiddlePages, Forest
  <1>9. /\ LowPages(n, rt) = l2
        /\ Shape(n, l1, {{"V"}}) /\ OneParent(n, l1)
    <2>1. /\ Kids(n, l1) = Kids(m, l1)
          /\ \A F : Shape(m, l1, F) => Shape(n, l1, F)
          /\ OneParent(m, l1) => OneParent(n, l1)
      BY <1>7, LevelUntouched
    <2>2. QED
      BY <1>1, <1>8, <2>1 DEF LowPages, Forest
  <1>10. ASSUME NEW u \in Tables, NEW j \in Path
         PROVE  LowAt(n, rt[u], j) = LowAt(m, rt[u], j)
    <2> DEFINE mid == step(m, rt[u], j[1])
    <2>1. /\ rt[u] # NULL => rt[u] \in l0
          /\ mid # NULL => mid \in l1
      BY <1>1, WalkDescends
    <2>2. step(n, rt[u], j[1]) = mid
      BY <1>7, <2>1, SMTT(30) DEF step
    <2>3. step(n, mid, j[2]) = step(m, mid, j[2])
      BY <1>7, <2>1 DEF step
    <2>4. QED
      BY <2>2, <2>3 DEF LowAt
  <1>11. \A x, a, j : EntryAt(x, a, j) =
           IF LowAt(x, a, j) # NULL /\ isValid(x[LowAt(x, a, j)][j[3]])
           THEN x[LowAt(x, a, j)][j[3]] ELSE INVALID_PTE
    BY DEF EntryAt, LowAt
  <1>12. EntryAt(n, rt[t], k) = IF isValid(w) THEN w ELSE INVALID_PTE
    <2>1. LowAt(n, rt[t], k) = low
      BY <1>10 DEF low
    <2>2. low # NULL
      BY DEF low
    <2>3. QED
      BY <1>6, <1>11, <2>1, <2>2
  <1>13. ASSUME NEW u \in Tables, NEW j \in Path, u # t \/ j # k
         PROVE  EntryAt(n, rt[u], j) = EntryAt(m, rt[u], j)
    <2> DEFINE lw == LowAt(m, rt[u], j)
    <2>1. LowAt(n, rt[u], j) = lw
      BY <1>10
    <2>2. lw # NULL => lw \in Pages /\ j[3] \in Slots
      <3>1. lw # NULL => lw \in l2
        BY <1>1, WalkDescends DEF LowAt
      <3>2. QED
        BY <1>2, <3>1 DEF Path
    <2>3. lw # NULL => lw # low \/ j[3] # k[3]
      BY <1>1, <1>13, PathsPart DEF low
    <2> HIDE DEF lw
    <2>4. lw # NULL => n[lw][j[3]] = m[lw][j[3]]
      BY <1>6, <2>2, <2>3
    <2>5. EntryAt(m, rt[u], j) = IF lw # NULL /\ isValid(m[lw][j[3]]) THEN m[lw][j[3]] ELSE INVALID_PTE
      BY DEF EntryAt, LowAt, lw
    <2>6. EntryAt(n, rt[u], j) = IF lw # NULL /\ isValid(n[lw][j[3]]) THEN n[lw][j[3]] ELSE INVALID_PTE
      BY <1>11, <2>1
    <2>7. QED
      BY <2>4, <2>5, <2>6
  <1>14. QED
    BY <1>8, <1>9, <1>12, <1>13 DEF OnlyEntry, n, low

(* A held page hung at an invalid entry of a low table is mapped there.    *)
LEMMA PageHung ==
  ASSUME NEW r, NEW rt, NEW h, Well(r, rt, h),
         NEW t \in Tables, NEW k \in Path, LowAt(r.mem, rt[t], k) # NULL,
         ~isValid(r.mem[LowAt(r.mem, rt[t], k)][k[3]]),
         NEW q \in h, NEW perm \in Perms
  PROVE  LET low == LowAt(r.mem, rt[t], k)
             w   == PageTableEntry(q, perm)
             s   == [r EXCEPT !.mem[low][k[3]] = w]
         IN  /\ Well(s, rt, h \ {q})
             /\ InUse(s, rt, h \ {q}) = InUse(r, rt, h)
             /\ OnlyEntry(r.mem, s.mem, rt, t, k, w)
  <1> DEFINE m == r.mem
             low == LowAt(m, rt[t], k)
             w == PageTableEntry(q, perm)
             s == [r EXCEPT !.mem[low][k[3]] = w]
             n == s.mem
             l0 == RootPages(rt)
             l1 == MiddlePages(m, rt)
             l2 == LowPages(m, rt)
             l3 == MappedPages(m, rt)
  <1>1. /\ r \in Ram /\ m \in Mem /\ FreeListWF(r)
        /\ q \in Pages /\ h \in SUBSET Pages
        /\ Forest(m, rt)
        /\ rt \in [Tables -> Pages \cup {NULL}]
        /\ k[3] \in Slots
    BY MemType DEF Well, Typed, Path
  <1>2. low \in l2 /\ l2 \in SUBSET Pages
    <2>1. low \in l2
      BY <1>1, WalkDescends DEF LowAt
    <2>2. QED
      BY <2>1 DEF LowPages, Kids
  <1>3. Apart(FreeSet(r), h, l0, l1, l2, l3)
    BY DEF Well
  <1>4. low \in Pages /\ low \notin FreeSet(r) /\ q \notin l3
    BY <1>2, <1>3 DEF Apart
  <1>5. /\ w \in Word /\ w.pa = q /\ w.flag = perm /\ isValid(w)
    BY <1>1, EntryIsWord, FlagSets DEF isValid
  <1>6. /\ MiddlePages([m EXCEPT ![low][k[3]] = w], rt) = l1
        /\ LowPages([m EXCEPT ![low][k[3]] = w], rt) = l2
        /\ Shape([m EXCEPT ![low][k[3]] = w], l0, {{"V"}}) /\ OneParent([m EXCEPT ![low][k[3]] = w], l0)
        /\ Shape([m EXCEPT ![low][k[3]] = w], l1, {{"V"}}) /\ OneParent([m EXCEPT ![low][k[3]] = w], l1)
        /\ OnlyEntry(m, [m EXCEPT ![low][k[3]] = w], rt, t, k, IF isValid(w) THEN w ELSE INVALID_PTE)
    BY <1>5, LeafWritten
  <1> HIDE DEF w
  <1>7. ~isValid(m[low][k[3]])
    OBVIOUS
  <1> HIDE DEF low
  <1>8. /\ s \in Ram
        /\ n = [m EXCEPT ![low][k[3]] = w]
        /\ FreeListWF(s)
        /\ FreeSet(s) = FreeSet(r)
    BY <1>1, <1>4, <1>5, StoreCorrect
  <1> HIDE DEF s
  <1>9. /\ MappedPages(n, rt) = l3 \cup {q}
        /\ Shape(n, l2, Perms) /\ OneParent(n, l2)
    <2>1. w.pa \in Pages \ Kids(m, l2) /\ w.flag \in Perms
      BY <1>1, <1>4, <1>5 DEF MappedPages
    <2>2. Shape(m, l2, Perms) /\ OneParent(m, l2)
      BY <1>1 DEF Forest
    <2>3. /\ Kids(n, l2) = Kids(m, l2) \cup {w.pa}
          /\ Shape(n, l2, Perms)
          /\ OneParent(n, l2)
      BY <1>1, <1>2, <1>5, <1>7, <1>8, <2>1, <2>2, EntryAdded
    <2>4. QED
      BY <1>5, <1>6, <1>8, <2>3 DEF MappedPages
  <1>10. Forest(n, rt)
    BY <1>1, <1>6, <1>8, <1>9 DEF Forest
  <1>11. Apart(FreeSet(s), h \ {q}, l0, l1, l2, l3 \cup {q})
    BY <1>3, <1>8 DEF Apart
  <1>12. Typed(s, rt, h \ {q})
    BY <1>1, <1>8 DEF Typed
  <1>13. Well(s, rt, h \ {q})
    BY <1>6, <1>8, <1>9, <1>10, <1>11, <1>12 DEF Well
  <1>14. InUse(s, rt, h \ {q}) = InUse(r, rt, h)
    BY <1>6, <1>8, <1>9 DEF InUse
  <1>15. OnlyEntry(m, n, rt, t, k, w)
    BY <1>5, <1>6, <1>8
  <1>16. QED
    BY <1>13, <1>14, <1>15 DEF s, low, w

(* A mapped page whose entry is cleared is in the hands of the one who     *)
(* cleared it.                                                             *)
LEMMA PageUnhung ==
  ASSUME NEW r, NEW rt, NEW h, Well(r, rt, h),
         NEW t \in Tables, NEW k \in Path, LowAt(r.mem, rt[t], k) # NULL,
         isValid(r.mem[LowAt(r.mem, rt[t], k)][k[3]])
  PROVE  LET low == LowAt(r.mem, rt[t], k)
             pa  == r.mem[low][k[3]].pa
             s   == [r EXCEPT !.mem[low][k[3]] = INVALID_PTE]
         IN  /\ low \in Pages
             /\ pa \in Pages
             /\ pa # low
             /\ pa \notin FreeSet(r)
             /\ s \in Ram
             /\ s.mem = [r.mem EXCEPT ![low][k[3]] = INVALID_PTE]
             /\ Well(s, rt, h \cup {pa})
             /\ InUse(s, rt, h \cup {pa}) = InUse(r, rt, h)
             /\ OnlyEntry(r.mem, s.mem, rt, t, k, INVALID_PTE)
  <1> DEFINE m == r.mem
             low == LowAt(m, rt[t], k)
             pa == m[low][k[3]].pa
             s == [r EXCEPT !.mem[low][k[3]] = INVALID_PTE]
             n == s.mem
             l0 == RootPages(rt)
             l1 == MiddlePages(m, rt)
             l2 == LowPages(m, rt)
             l3 == MappedPages(m, rt)
  <1>1. /\ r \in Ram /\ m \in Mem /\ FreeListWF(r)
        /\ h \in SUBSET Pages
        /\ Forest(m, rt)
        /\ rt \in [Tables -> Pages \cup {NULL}]
        /\ k[3] \in Slots
    BY MemType, SMTT(30) DEF Well, Typed, Path
  <1>2. low \in l2 /\ l2 \in SUBSET Pages /\ pa \in l3 /\ l3 \in SUBSET Pages
    <2>1. low \in l2 /\ pa \in l3
      BY <1>1, WalkDescends DEF LowAt
    <2>2. QED
      BY <2>1 DEF LowPages, MappedPages, Kids
  <1>3. Apart(FreeSet(r), h, l0, l1, l2, l3)
    BY DEF Well
  <1>4. /\ low \in Pages /\ low \notin FreeSet(r)
        /\ pa \in Pages /\ pa \notin FreeSet(r) /\ pa # low
    BY <1>2, <1>3 DEF Apart
  <1>5. /\ INVALID_PTE \in Word /\ ~isValid(INVALID_PTE)
    BY InvalidEntry
  <1>6. /\ MiddlePages([m EXCEPT ![low][k[3]] = INVALID_PTE], rt) = l1
        /\ LowPages([m EXCEPT ![low][k[3]] = INVALID_PTE], rt) = l2
        /\ Shape([m EXCEPT ![low][k[3]] = INVALID_PTE], l0, {{"V"}})
        /\ OneParent([m EXCEPT ![low][k[3]] = INVALID_PTE], l0)
        /\ Shape([m EXCEPT ![low][k[3]] = INVALID_PTE], l1, {{"V"}})
        /\ OneParent([m EXCEPT ![low][k[3]] = INVALID_PTE], l1)
        /\ OnlyEntry(m, [m EXCEPT ![low][k[3]] = INVALID_PTE], rt, t, k, INVALID_PTE)
    BY <1>5, LeafWritten
  <1>7. isValid(m[low][k[3]])
    OBVIOUS
  <1> HIDE DEF low
  <1>8. /\ s \in Ram
        /\ n = [m EXCEPT ![low][k[3]] = INVALID_PTE]
        /\ FreeListWF(s)
        /\ FreeSet(s) = FreeSet(r)
    BY <1>1, <1>4, <1>5, StoreCorrect
  <1> HIDE DEF s
  <1>9. /\ MappedPages(n, rt) = l3 \ {pa}
        /\ Shape(n, l2, Perms) /\ OneParent(n, l2)
    <2>1. Shape(m, l2, Perms) /\ OneParent(m, l2)
      BY <1>1 DEF Forest
    <2>2. /\ Kids(n, l2) = Kids(m, l2) \ {pa}
          /\ Shape(n, l2, Perms)
          /\ OneParent(n, l2)
      BY <1>1, <1>2, <1>7, <1>8, <2>1, EntryCleared
    <2>3. QED
      BY <1>6, <1>8, <2>2 DEF MappedPages
  <1>10. Forest(n, rt)
    BY <1>1, <1>6, <1>8, <1>9 DEF Forest
  <1>11. Apart(FreeSet(s), h \cup {pa}, l0, l1, l2, l3 \ {pa})
    BY <1>2, <1>3, <1>8 DEF Apart
  <1>12. Typed(s, rt, h \cup {pa})
    BY <1>1, <1>4, <1>8 DEF Typed
  <1>13. Well(s, rt, h \cup {pa})
    BY <1>6, <1>8, <1>9, <1>10, <1>11, <1>12 DEF Well
  <1>14. InUse(s, rt, h \cup {pa}) = InUse(r, rt, h)
    BY <1>2, <1>6, <1>8, <1>9 DEF InUse
  <1>15. OnlyEntry(m, n, rt, t, k, INVALID_PTE)
    BY <1>6, <1>8
  <1>16. QED
    BY <1>4, <1>8, <1>13, <1>14, <1>15 DEF s, low

-----------------------------------------------------------------------------
(* A held, cleared page made the root of a table that has none: the map is *)
(* empty before and after.                                                 *)
LEMMA RootSet ==
  ASSUME NEW r, NEW rt, NEW h, Well(r, rt, h),
         NEW t \in Tables, rt[t] = NULL,
         NEW q \in h, r.mem[q] = ZeroPage
  PROVE  LET s == [rt EXCEPT ![t] = q]
         IN  /\ Well(r, s, h \ {q})
             /\ InUse(r, s, h \ {q}) = InUse(r, rt, h)
             /\ \A u \in Tables, k \in Path : EntryAt(r.mem, s[u], k) = EntryAt(r.mem, rt[u], k)
  <1> DEFINE m == r.mem
             s == [rt EXCEPT ![t] = q]
             l0 == RootPages(rt)
             l1 == MiddlePages(m, rt)
  <1>1. /\ rt \in [Tables -> Pages \cup {NULL}] /\ q \in Pages /\ q # NULL
        /\ r \in Ram /\ h \in SUBSET Pages
    BY NullIsNoPage DEF Well, Typed
  <1>2. /\ s \in [Tables -> Pages \cup {NULL}]
        /\ s[t] = q
        /\ \A u \in Tables : u # t => s[u] = rt[u]
    BY <1>1
  <1> HIDE DEF s
  <1>3. RootPages(s) = l0 \cup {q}
    BY <1>1, <1>2 DEF RootPages
  <1>4. q \notin l0
    BY DEF Well, Apart
  <1>5. DistinctRoots(s)
    <2>1. \A u \in Tables : rt[u] # q
      BY <1>1, <1>4 DEF RootPages
    <2>2. QED
      BY <1>2, <2>1 DEF DistinctRoots, Well, Forest
  <1>6. /\ MiddlePages(m, s) = l1
        /\ Shape(m, l0 \cup {q}, {{"V"}}) /\ OneParent(m, l0 \cup {q})
    <2>1. Shape(m, l0, {{"V"}}) /\ OneParent(m, l0)
      BY DEF Well, Forest
    <2>2. /\ Kids(m, l0 \cup {q}) = Kids(m, l0)
          /\ Shape(m, l0 \cup {q}, {{"V"}})
          /\ OneParent(m, l0 \cup {q})
      BY <2>1, LevelGrows
    <2>3. QED
      BY <1>3, <2>2 DEF MiddlePages
  <1>7. LowPages(m, s) = LowPages(m, rt) /\ MappedPages(m, s) = MappedPages(m, rt)
    BY <1>6 DEF LowPages, MappedPages
  <1>8. Forest(m, s)
    BY <1>3, <1>5, <1>6, <1>7 DEF Well, Forest
  <1>9. Apart(FreeSet(r), h \ {q}, l0 \cup {q}, l1, LowPages(m, rt), MappedPages(m, rt))
    BY DEF Well, Apart
  <1>10. Well(r, s, h \ {q})
    BY <1>1, <1>2, <1>3, <1>6, <1>7, <1>8, <1>9 DEF Well, Typed
  <1>11. InUse(r, s, h \ {q}) = InUse(r, rt, h)
    BY <1>3, <1>6, <1>7 DEF InUse
  <1>12. ASSUME NEW u \in Tables, NEW k \in Path
         PROVE  EntryAt(m, s[u], k) = EntryAt(m, rt[u], k)
    <2>1. CASE u # t
      BY <1>2, <2>1
    <2>2. CASE u = t
      <3>1. \A x : step(m, NULL, x) = NULL
        BY DEF step
      <3>2. EntryAt(m, NULL, k) = INVALID_PTE
        BY <3>1 DEF EntryAt
      <3>3. k[1] \in Slots
        BY DEF Path
      <3>4. ~isValid(m[q][k[1]])
        BY <3>3, InvalidEntry DEF ZeroPage
      <3>5. step(m, q, k[1]) = NULL
        BY <3>4 DEF step
      <3>6. EntryAt(m, q, k) = INVALID_PTE
        BY <3>1, <3>5 DEF EntryAt
      <3>7. QED
        BY <1>2, <2>2, <3>2, <3>6
    <2>3. QED
      BY <2>1, <2>2
  <1>13. QED
    BY <1>10, <1>11, <1>12 DEF s

(* A root dropped takes its whole tree out of use, and no other.           *)
LEMMA RootDropped ==
  ASSUME NEW r, NEW rt, NEW h, Well(r, rt, h), NEW t \in Tables
  PROVE  LET s == [rt EXCEPT ![t] = NULL]
         IN  /\ Well(r, s, h)
             /\ \A u \in Tables, k \in Path :
                  EntryAt(r.mem, s[u], k) = IF u = t THEN INVALID_PTE ELSE EntryAt(r.mem, rt[u], k)
  <1> DEFINE m == r.mem
             s == [rt EXCEPT ![t] = NULL]
  <1>1. rt \in [Tables -> Pages \cup {NULL}]
    BY DEF Well, Typed
  <1>2. /\ s \in [Tables -> Pages \cup {NULL}]
        /\ s[t] = NULL
        /\ \A u \in Tables : u # t => s[u] = rt[u]
    BY <1>1
  <1> HIDE DEF s
  <1>3. RootPages(s) \subseteq RootPages(rt)
    BY <1>2 DEF RootPages
  <1>4. DistinctRoots(s)
    BY <1>2 DEF DistinctRoots, Well, Forest
  <1>5. /\ MiddlePages(m, s) \subseteq MiddlePages(m, rt)
        /\ Shape(m, RootPages(s), {{"V"}}) /\ OneParent(m, RootPages(s))
    BY <1>3, LevelPart DEF Well, Forest, MiddlePages
  <1>6. /\ LowPages(m, s) \subseteq LowPages(m, rt)
        /\ Shape(m, MiddlePages(m, s), {{"V"}}) /\ OneParent(m, MiddlePages(m, s))
    BY <1>5, LevelPart DEF Well, Forest, LowPages
  <1>7. /\ MappedPages(m, s) \subseteq MappedPages(m, rt)
        /\ Shape(m, LowPages(m, s), Perms) /\ OneParent(m, LowPages(m, s))
    BY <1>6, LevelPart DEF Well, Forest, MappedPages
  <1>8. Apart(FreeSet(r), h, RootPages(s), MiddlePages(m, s), LowPages(m, s), MappedPages(m, s))
    <2>1. Apart(FreeSet(r), h, RootPages(rt), MiddlePages(m, rt), LowPages(m, rt), MappedPages(m, rt))
      BY DEF Well
    <2>2. QED
      BY <1>3, <1>5, <1>6, <1>7, <2>1 DEF Apart
  <1>9. Well(r, s, h)
    BY <1>2, <1>4, <1>5, <1>6, <1>7, <1>8 DEF Well, Typed, Forest
  <1>10. ASSUME NEW u \in Tables, NEW k \in Path
         PROVE  EntryAt(m, s[u], k) = IF u = t THEN INVALID_PTE ELSE EntryAt(m, rt[u], k)
    <2>1. \A x : step(m, NULL, x) = NULL
      BY DEF step
    <2>2. EntryAt(m, NULL, k) = INVALID_PTE
      BY <2>1 DEF EntryAt
    <2>3. QED
      BY <1>2, <2>2
  <1>11. QED
    BY <1>9, <1>10 DEF s

-----------------------------------------------------------------------------
(* alloc_empty_page hands out a cleared page, or NULL and an unchanged RAM. *)
LEMMA EmptyPageTaken ==
  ASSUME NEW r, NEW rt, NEW h, Well(r, rt, h)
  PROVE  LET a == alloc_empty_page(r)
         IN  /\ a.page = NULL => a.ram = r
             /\ a.page # NULL => /\ a.page \in Pages /\ a.page \in FreeSet(r)
                                 /\ Well(a.ram, rt, h \cup {a.page})
                                 /\ MiddlePages(a.ram.mem, rt) = MiddlePages(r.mem, rt)
                                 /\ InUse(a.ram, rt, h \cup {a.page}) = InUse(r, rt, h)
                                 /\ SameMaps(r.mem, a.ram.mem, rt)
                                 /\ a.ram.mem = [r.mem EXCEPT ![a.page] = ZeroPage]
                                 /\ a.ram.mem[a.page] = ZeroPage
  <1> DEFINE b == alloc_page(r)
             a == alloc_empty_page(r)
             c == [b.ram EXCEPT !.mem[b.page] = ZeroPage]
  <1>1. /\ b.ram.mem = r.mem
        /\ b.page = NULL => b.ram = r
        /\ b.page # NULL => /\ b.page \in Pages /\ b.page \in FreeSet(r)
                            /\ Well(b.ram, rt, h \cup {b.page})
                            /\ InUse(b.ram, rt, h \cup {b.page}) = InUse(r, rt, h)
    BY PageTaken
  <1>2. b = [page |-> b.page, ram |-> b.ram]
    BY DEF alloc_page
  <1>3. a = IF b.page = NULL THEN b ELSE [b EXCEPT !.ram.mem[b.page] = ZeroPage]
    BY DEF alloc_empty_page
  <1> HIDE DEF a, b
  <1>4. CASE b.page = NULL
    BY <1>1, <1>3, <1>4 DEF a
  <1>5. CASE b.page # NULL
    <2>1. a.page = b.page /\ a.ram = c
      BY <1>2, <1>3, <1>5
    <2>2. /\ c.mem = [b.ram.mem EXCEPT ![b.page] = ZeroPage]
          /\ Well(c, rt, h \cup {b.page})
          /\ MiddlePages(c.mem, rt) = MiddlePages(b.ram.mem, rt)
          /\ InUse(c, rt, h \cup {b.page}) = InUse(b.ram, rt, h \cup {b.page})
          /\ SameMaps(b.ram.mem, c.mem, rt)
      <3>1. b.page \in (h \cup {b.page}) \cup MappedPages(b.ram.mem, rt)
        OBVIOUS
      <3>2. QED
        BY <1>1, <1>5, <3>1, ZeroPageIsContent, PageFilled
    <2> HIDE DEF c
    <2>3. r.mem \in Mem
      BY MemType DEF Well, Typed
    <2>4. a.ram.mem[a.page] = ZeroPage
      BY <1>1, <1>5, <2>1, <2>2, <2>3 DEF Mem
    <2>5. QED
      BY <1>1, <1>5, <2>1, <2>2, <2>4 DEF a
  <1>6. QED
    BY <1>4, <1>5

(* A table allocated and hung at an invalid entry of a root or a middle    *)
(* table; or NULL and an unchanged RAM.                                    *)
LEMMA NewTableHung ==
  ASSUME NEW r, NEW rt, NEW h, Well(r, rt, h),
         NEW p \in RootPages(rt) \cup MiddlePages(r.mem, rt), NEW i \in Slots,
         ~isValid(r.mem[p][i])
  PROVE  LET a == NewTable(r, p, i)
         IN  /\ a.page = NULL => a.ram = r
             /\ a.page # NULL => /\ a.page \in Pages /\ a.page \in FreeSet(r)
                                 /\ Well(a.ram, rt, h)
                                 /\ InUse(a.ram, rt, h) = InUse(r, rt, h)
                                 /\ SameMaps(r.mem, a.ram.mem, rt)
                                 /\ a.ram.mem[p][i] = PageTableEntry(a.page, {"V"})
                                 /\ a.ram.mem[a.page] = ZeroPage
                                 /\ \A x \in Pages : x # p /\ x # a.page => a.ram.mem[x] = r.mem[x]
                                 /\ p \in RootPages(rt) => a.page \in MiddlePages(a.ram.mem, rt)
  <1> DEFINE b == alloc_empty_page(r)
             a == NewTable(r, p, i)
             w == PageTableEntry(b.page, {"V"})
             c == [b.ram EXCEPT !.mem[p][i] = w]
  <1>1. /\ b.page = NULL => b.ram = r
        /\ b.page # NULL => /\ b.page \in Pages /\ b.page \in FreeSet(r)
                            /\ Well(b.ram, rt, h \cup {b.page})
                            /\ MiddlePages(b.ram.mem, rt) = MiddlePages(r.mem, rt)
                            /\ InUse(b.ram, rt, h \cup {b.page}) = InUse(r, rt, h)
                            /\ SameMaps(r.mem, b.ram.mem, rt)
                            /\ b.ram.mem = [r.mem EXCEPT ![b.page] = ZeroPage]
                            /\ b.ram.mem[b.page] = ZeroPage
    BY EmptyPageTaken
  <1>2. b = [page |-> b.page, ram |-> b.ram]
    BY DEF alloc_empty_page, alloc_page
  <1>3. a = IF b.page = NULL THEN b ELSE [b EXCEPT !.ram.mem[p][i] = w]
    BY DEF NewTable
  <1> HIDE DEF a, b, w
  <1>4. CASE b.page = NULL
    BY <1>1, <1>3, <1>4 DEF a
  <1>5. CASE b.page # NULL
    <2>1. a.page = b.page /\ a.ram = c
      BY <1>2, <1>3, <1>5
    <2>2. /\ p \in Pages /\ p # b.page /\ b.page \notin h
          /\ r.mem \in Mem
      <3>1. RootPages(rt) \in SUBSET Pages /\ MiddlePages(r.mem, rt) \in SUBSET Pages
        BY DEF Well, Typed, RootPages, MiddlePages, Kids
      <3>2. QED
        BY <1>1, <1>5, <3>1, MemType DEF Well, Typed, Apart
    <2>3. b.ram.mem[p] = r.mem[p]
      BY <1>1, <1>5, <2>2 DEF Mem
    <2>4. /\ p \in RootPages(rt) \cup MiddlePages(b.ram.mem, rt)
          /\ ~isValid(b.ram.mem[p][i])
          /\ b.page \in h \cup {b.page}
      BY <1>1, <1>5, <2>3
    <2>5. /\ Well(c, rt, (h \cup {b.page}) \ {b.page})
          /\ InUse(c, rt, (h \cup {b.page}) \ {b.page}) = InUse(b.ram, rt, h \cup {b.page})
          /\ SameMaps(b.ram.mem, c.mem, rt)
          /\ p \in RootPages(rt) => b.page \in MiddlePages(c.mem, rt)
          /\ c.mem[b.page] = ZeroPage
      <3> DEFINE x == b.ram
                 g == h \cup {b.page}
                 q == b.page
      <3>1. /\ Well(x, rt, g)
            /\ p \in RootPages(rt) \cup MiddlePages(x.mem, rt)
            /\ ~isValid(x.mem[p][i])
            /\ q \in g
            /\ x.mem[q] = ZeroPage
            /\ i \in Slots
        BY <1>1, <1>5, <2>4
      <3> DEFINE y == Hung(x, p, i, q)
      <3>2. c = y
        BY DEF w, Hung
      <3> HIDE DEF x, g, q
      <3>3. /\ Well(y, rt, g \ {q})
            /\ InUse(y, rt, g \ {q}) = InUse(x, rt, g)
            /\ SameMaps(x.mem, y.mem, rt)
            /\ p \in RootPages(rt) => q \in MiddlePages(y.mem, rt)
            /\ y.mem[q] = ZeroPage
        BY <3>1, TableHung
      <3> HIDE DEF y, c
      <3>4. QED
        BY <3>2, <3>3 DEF x, g, q
    <2>6. /\ c.mem[p][i] = w
          /\ \A x \in Pages : x # p => c.mem[x] = b.ram.mem[x]
      <3>1. b.ram \in Ram
        BY <1>1, <1>5 DEF Well, Typed
      <3>2. c.mem = [b.ram.mem EXCEPT ![p][i] = w]
        BY <3>1 DEF Ram
      <3>3. QED
        BY <2>2, <3>1, <3>2 DEF Ram, Content
    <2>7. \A x \in Pages : x # b.page => b.ram.mem[x] = r.mem[x]
      BY <1>1, <1>5, <2>2 DEF Mem
    <2>8. (h \cup {b.page}) \ {b.page} = h
      BY <2>2
    <2>9. SameMaps(r.mem, c.mem, rt)
      BY <1>1, <1>5, <2>5 DEF SameMaps
    <2> HIDE DEF c
    <2>10. Well(c, rt, h) /\ InUse(c, rt, h) = InUse(r, rt, h)
      BY <1>1, <1>5, <2>5, <2>8
    <2>11. QED
      BY <1>1, <1>5, <2>1, <2>5, <2>6, <2>7, <2>9, <2>10 DEF a, w
  <1>6. QED
    BY <1>4, <1>5

-----------------------------------------------------------------------------
(* page_walk finds the low table of a valid entry, and EntryAt its entry.  *)
LEMMA WalkFinds ==
  ASSUME NEW m, NEW table, NEW va \in Nat
  PROVE  /\ LowAt(m, table, Key(va)) = step(m, step(m, table, vpn2(va)), vpn1(va))
         /\ page_walk(m, table, va) =
              IF LowAt(m, table, Key(va)) # NULL /\ isValid(m[LowAt(m, table, Key(va))][vpn0(va)])
              THEN LowAt(m, table, Key(va)) ELSE NULL
         /\ EntryAt(m, table, Key(va)) =
              IF page_walk(m, table, va) # NULL
              THEN m[page_walk(m, table, va)][vpn0(va)] ELSE INVALID_PTE
         /\ page_walk(m, table, va) # NULL => isValid(m[page_walk(m, table, va)][vpn0(va)])
  <1> DEFINE low == step(m, step(m, table, vpn2(va)), vpn1(va))
  <1>1. /\ Key(va)[1] = vpn2(va)
        /\ Key(va)[2] = vpn1(va)
        /\ Key(va)[3] = vpn0(va)
    BY IndicesAreSlots
  <1>2. LowAt(m, table, Key(va)) = low
    BY <1>1 DEF LowAt
  <1>3. page_walk(m, table, va) = IF low # NULL /\ isValid(m[low][vpn0(va)]) THEN low ELSE NULL
    BY DEF page_walk
  <1>4. EntryAt(m, table, Key(va)) =
          IF low # NULL /\ isValid(m[low][vpn0(va)]) THEN m[low][vpn0(va)] ELSE INVALID_PTE
    BY <1>1 DEF EntryAt
  <1> HIDE DEF low
  <1>5. QED
    BY <1>2, <1>3, <1>4 DEF low

(* page_walk_alloc changes no map, whether it finds, makes or fails to     *)
(* make the low table, and returns the one a walk then comes to.           *)
LEMMA WalkAllocated ==
  ASSUME NEW r, NEW rt, NEW h, Well(r, rt, h),
         NEW t \in Tables, rt[t] # NULL, NEW va \in Nat
  PROVE  LET w == page_walk_alloc(r, rt[t], va)
         IN  /\ Well(w.ram, rt, h)
             /\ InUse(w.ram, rt, h) = InUse(r, rt, h)
             /\ SameMaps(r.mem, w.ram.mem, rt)
             /\ w.page # NULL => LowAt(w.ram.mem, rt[t], Key(va)) = w.page
  <1> DEFINE m == r.mem
             p == rt[t]
             i == vpn2(va)
             j == vpn1(va)
             mid == step(m, p, i)
             low == step(m, mid, j)
             a == NewTable(r, p, i)
             b == NewTable(a.ram, a.page, j)
             c == NewTable(r, mid, j)
             w == page_walk_alloc(r, p, va)
  <1>1. w = IF mid = NULL THEN IF a.page = NULL THEN a ELSE b
            ELSE IF low = NULL THEN c ELSE [page |-> low, ram |-> r]
    BY DEF page_walk_alloc
  <1>2. /\ i \in Slots /\ j \in Slots
        /\ Key(va) \in Path /\ Key(va)[1] = i /\ Key(va)[2] = j
    BY IndicesAreSlots
  <1>3. /\ rt \in [Tables -> Pages \cup {NULL}]
        /\ p \in Pages /\ p \in RootPages(rt)
        /\ MiddlePages(m, rt) \in SUBSET Pages
        /\ r \in Ram /\ m \in Mem
    BY MemType DEF Well, Typed, RootPages, MiddlePages, Kids
  <1>4. /\ mid # NULL => mid \in MiddlePages(m, rt) /\ isValid(m[p][i]) /\ mid = m[p][i].pa
        /\ low # NULL => low \in LowPages(m, rt) /\ isValid(m[mid][j]) /\ low = m[mid][j].pa
    BY <1>2, <1>3, WalkDescends DEF Well
  <1>5. SameMaps(m, m, rt)
    BY DEF SameMaps
  <1>6. \A n, x : LowAt(n, x, Key(va)) = step(n, step(n, x, i), j)
    BY <1>2 DEF LowAt
  <1>7. \A q \in Pages : \A n, x, y : 
          x # NULL /\ n[x][y] = PageTableEntry(q, {"V"}) => step(n, x, y) = q
    BY DEF step, PageTableEntry, isValid
  <1>8. CASE mid # NULL /\ low # NULL
    <2>1. w = [page |-> low, ram |-> r]
      BY <1>1, <1>8
    <2>2. LowAt(m, p, Key(va)) = low
      BY <1>6
    <2> HIDE DEF w
    <2>3. QED
      BY <1>5, <2>1, <2>2 DEF w
  <1>9. CASE mid # NULL /\ low = NULL
    <2>1. w = c
      BY <1>1, <1>9
    <2>2. mid \in RootPages(rt) \cup MiddlePages(m, rt) /\ ~isValid(m[mid][j])
      <3>1. isValid(m[mid][j]) => m[mid][j].pa \in Pages
        BY <1>2, <1>4, <1>9 DEF Well, Forest, Shape
      <3>2. isValid(m[mid][j]) => low = m[mid][j].pa
        BY <1>9, Zenon DEF step
      <3>3. QED
        BY <1>4, <1>9, <3>1, <3>2, NullIsNoPage
    <2>3. /\ c.page = NULL => c.ram = r
          /\ c.page # NULL => /\ c.page \in Pages /\ c.page \in FreeSet(r)
                              /\ Well(c.ram, rt, h)
                              /\ InUse(c.ram, rt, h) = InUse(r, rt, h)
                              /\ SameMaps(m, c.ram.mem, rt)
                              /\ c.ram.mem[mid][j] = PageTableEntry(c.page, {"V"})
                              /\ \A x \in Pages : x # mid /\ x # c.page => c.ram.mem[x] = m[x]
      <3> HIDE DEF mid
      <3>1. QED
        BY <1>2, <2>2, NewTableHung
    <2> HIDE DEF c, w
    <2>4. CASE c.page = NULL
      BY <1>5, <2>1, <2>3, <2>4 DEF w
    <2>5. CASE c.page # NULL
      <3>1. p # mid /\ p # c.page
        BY <1>3, <1>4, <1>9, <2>3, <2>5 DEF Well, Apart
      <3>2. c.ram.mem[p] = m[p]
        BY <1>3, <2>3, <2>5, <3>1
      <3>3. step(c.ram.mem, p, i) = mid
        BY <3>2 DEF step
      <3>4. step(c.ram.mem, mid, j) = c.page
        BY <1>7, <1>9, <2>3, <2>5
      <3>5. LowAt(c.ram.mem, p, Key(va)) = c.page
        BY <1>6, <3>3, <3>4
      <3>6. QED
        BY <2>1, <2>3, <2>5, <3>5 DEF w
    <2>6. QED
      BY <2>4, <2>5
  <1>10. CASE mid = NULL
    <2>1. w = IF a.page = NULL THEN a ELSE b
      BY <1>1, <1>10
    <2>2. p \in RootPages(rt) \cup MiddlePages(m, rt) /\ ~isValid(m[p][i])
      <3>1. isValid(m[p][i]) => m[p][i].pa \in Pages
        BY <1>2, <1>3 DEF Well, Forest, Shape
      <3>2. isValid(m[p][i]) => mid = m[p][i].pa
        BY DEF step
      <3>3. QED
        BY <1>3, <1>10, <3>1, <3>2, NullIsNoPage
    <2>3. /\ a.page = NULL => a.ram = r
          /\ a.page # NULL => /\ a.page \in Pages /\ a.page \in FreeSet(r)
                              /\ Well(a.ram, rt, h)
                              /\ InUse(a.ram, rt, h) = InUse(r, rt, h)
                              /\ SameMaps(m, a.ram.mem, rt)
                              /\ a.ram.mem[p][i] = PageTableEntry(a.page, {"V"})
                              /\ a.ram.mem[a.page] = ZeroPage
                              /\ a.page \in MiddlePages(a.ram.mem, rt)
      <3> HIDE DEF p
      <3>1. QED
        BY <1>2, <1>3, <2>2, NewTableHung
    <2> HIDE DEF a
    <2>4. CASE a.page = NULL
      <3>1. w = a
        BY <2>1, <2>4
      <3> HIDE DEF w
      <3>2. QED
        BY <1>5, <2>3, <2>4, <3>1 DEF w
    <2>5. CASE a.page # NULL
      <3>1. w = b
        BY <2>1, <2>5
      <3>2. ~isValid(a.ram.mem[a.page][j])
        BY <1>2, <2>3, <2>5, InvalidEntry DEF ZeroPage
      <3>3. a.page \in RootPages(rt) \cup MiddlePages(a.ram.mem, rt) /\ Well(a.ram, rt, h)
        BY <2>3, <2>5
      <3>4. /\ b.page = NULL => b.ram = a.ram
            /\ b.page # NULL => /\ b.page \in Pages /\ b.page \in FreeSet(a.ram)
                                /\ Well(b.ram, rt, h)
                                /\ InUse(b.ram, rt, h) = InUse(a.ram, rt, h)
                                /\ SameMaps(a.ram.mem, b.ram.mem, rt)
                                /\ b.ram.mem[a.page][j] = PageTableEntry(b.page, {"V"})
                                /\ \A x \in Pages : x # a.page /\ x # b.page => b.ram.mem[x] = a.ram.mem[x]
        <4> DEFINE ar == a.ram
                   ap == a.page
        <4>1. ap \in RootPages(rt) \cup MiddlePages(ar.mem, rt)
          BY <3>3
        <4>2. Well(ar, rt, h) /\ ~isValid(ar.mem[ap][j])
          BY <3>2, <3>3
        <4> HIDE DEF ar, ap
        <4>3. LET d == NewTable(ar, ap, j)
              IN  /\ d.page = NULL => d.ram = ar
                  /\ d.page # NULL => /\ d.page \in Pages /\ d.page \in FreeSet(ar)
                                      /\ Well(d.ram, rt, h)
                                      /\ InUse(d.ram, rt, h) = InUse(ar, rt, h)
                                      /\ SameMaps(ar.mem, d.ram.mem, rt)
                                      /\ d.ram.mem[ap][j] = PageTableEntry(d.page, {"V"})
                                      /\ \A x \in Pages : x # ap /\ x # d.page => d.ram.mem[x] = ar.mem[x]
          BY <1>2, <4>1, <4>2, NewTableHung
        <4>4. QED
          BY <4>3 DEF ar, ap
      <3> HIDE DEF b, w
      <3>5. CASE b.page = NULL
        BY <2>3, <2>5, <3>1, <3>4, <3>5 DEF w
      <3>6. CASE b.page # NULL
        <4>1. p # a.page /\ p # b.page
          BY <1>3, <2>3, <2>5, <3>3, <3>4, <3>6 DEF Well, Apart
        <4>2. b.ram.mem[p] = a.ram.mem[p]
          BY <1>3, <3>4, <3>6, <4>1
        <4>3. step(b.ram.mem, p, i) = a.page
          BY <1>7, <2>3, <2>5, <4>2
        <4>4. step(b.ram.mem, a.page, j) = b.page
          BY <1>7, <2>5, <3>4, <3>6
        <4>5. LowAt(b.ram.mem, p, Key(va)) = b.page
          BY <1>6, <4>3, <4>4
        <4>6. SameMaps(m, b.ram.mem, rt)
          BY <2>3, <2>5, <3>4, <3>6 DEF SameMaps
        <4>7. InUse(b.ram, rt, h) = InUse(r, rt, h)
          BY <2>3, <2>5, <3>4, <3>6
        <4>8. QED
          BY <3>1, <3>4, <3>6, <4>5, <4>6, <4>7 DEF w
      <3>7. QED
        BY <3>5, <3>6
    <2>6. QED
      BY <2>4, <2>5
  <1>11. QED
    BY <1>8, <1>9, <1>10

(* The three outcomes of add: the fault and the refusal change no map and  *)
(* keep every page in use; success maps the page that was held at an entry *)
(* that was invalid and touches no other.                                  *)
MapOutcome(r, rt, h, t, k, pa, perm, x) ==
  \/ /\ x.fault = TRUE
     /\ Well(x.ram, rt, h)
     /\ InUse(x.ram, rt, h) = InUse(r, rt, h)
     /\ SameMaps(r.mem, x.ram.mem, rt)
  \/ /\ x.fault = FALSE /\ x.ret = -1
     /\ Well(x.ram, rt, h)
     /\ InUse(x.ram, rt, h) = InUse(r, rt, h)
     /\ SameMaps(r.mem, x.ram.mem, rt)
     /\ EntryAt(r.mem, rt[t], k) # INVALID_PTE
  \/ /\ x.fault = FALSE /\ x.ret = 0
     /\ Well(x.ram, rt, h \ {pa})
     /\ InUse(x.ram, rt, h \ {pa}) = InUse(r, rt, h)
     /\ EntryAt(r.mem, rt[t], k) = INVALID_PTE
     /\ OnlyEntry(r.mem, x.ram.mem, rt, t, k, PageTableEntry(pa, perm))

LEMMA MapCorrect ==
  ASSUME NEW r, NEW rt, NEW h, Well(r, rt, h),
         NEW t \in Tables, rt[t] # NULL, NEW va \in Nat,
         NEW pa \in h, NEW perm \in Perms
  PROVE  MapOutcome(r, rt, h, t, Key(va), pa, perm, Map(r, rt[t], va, pa, perm))
  <1> DEFINE w == page_walk_alloc(r, rt[t], va)
             i == vpn0(va)
             k == Key(va)
             e == PageTableEntry(pa, perm)
             s == [w.ram EXCEPT !.mem[w.page][i] = e]
             x == Map(r, rt[t], va, pa, perm)
  <1>1. /\ Well(w.ram, rt, h)
        /\ InUse(w.ram, rt, h) = InUse(r, rt, h)
        /\ SameMaps(r.mem, w.ram.mem, rt)
        /\ w.page # NULL => LowAt(w.ram.mem, rt[t], k) = w.page
    BY WalkAllocated
  <1>2. x = IF w.page = NULL THEN [fault |-> TRUE, ret |-> 0, ram |-> w.ram]
            ELSE IF isValid(w.ram.mem[w.page][i])
                 THEN [fault |-> FALSE, ret |-> -1, ram |-> w.ram]
                 ELSE [fault |-> FALSE, ret |-> 0, ram |-> s]
    BY DEF Map
  <1>3. k \in Path /\ k[3] = i /\ i \in Slots
    BY IndicesAreSlots
  <1>4. \A n, a : EntryAt(n, a, k) =
          IF LowAt(n, a, k) # NULL /\ isValid(n[LowAt(n, a, k)][i])
          THEN n[LowAt(n, a, k)][i] ELSE INVALID_PTE
    BY <1>3 DEF EntryAt, LowAt
  <1>5. EntryAt(w.ram.mem, rt[t], k) = EntryAt(r.mem, rt[t], k)
    BY <1>1, <1>3 DEF SameMaps
  <1> HIDE DEF x, w
  <1>6. CASE w.page = NULL
    <2>1. x = [fault |-> TRUE, ret |-> 0, ram |-> w.ram]
      BY <1>2, <1>6
    <2>2. QED
      BY <1>1, <2>1 DEF MapOutcome, x
  <1>7. CASE w.page # NULL /\ isValid(w.ram.mem[w.page][i])
    <2>1. x = [fault |-> FALSE, ret |-> -1, ram |-> w.ram]
      BY <1>2, <1>7
    <2>2. EntryAt(w.ram.mem, rt[t], k) = w.ram.mem[w.page][i]
      BY <1>1, <1>4, <1>7
    <2>3. EntryAt(r.mem, rt[t], k) # INVALID_PTE
      BY <1>5, <1>7, <2>2, InvalidEntry
    <2>4. QED
      BY <1>1, <2>1, <2>3 DEF MapOutcome, x
  <1>8. CASE w.page # NULL /\ ~isValid(w.ram.mem[w.page][i])
    <2>1. x = [fault |-> FALSE, ret |-> 0, ram |-> s]
      BY <1>2, <1>8
    <2>2. EntryAt(r.mem, rt[t], k) = INVALID_PTE
      BY <1>1, <1>4, <1>5, <1>8
    <2>3. /\ Well(s, rt, h \ {pa})
          /\ InUse(s, rt, h \ {pa}) = InUse(w.ram, rt, h)
          /\ OnlyEntry(w.ram.mem, s.mem, rt, t, k, e)
      <3> DEFINE v == w.ram
                 low == LowAt(v.mem, rt[t], k)
                 y == [v EXCEPT !.mem[low][k[3]] = e]
      <3>1. /\ Well(v, rt, h) /\ k \in Path
            /\ low # NULL /\ ~isValid(v.mem[low][k[3]])
        BY <1>1, <1>3, <1>8
      <3>2. s = y
        BY <1>1, <1>3, <1>8
      <3> HIDE DEF v, k
      <3>3. /\ Well(y, rt, h \ {pa})
            /\ InUse(y, rt, h \ {pa}) = InUse(v, rt, h)
            /\ OnlyEntry(v.mem, y.mem, rt, t, k, e)
        BY <3>1, PageHung, Zenon
      <3> HIDE DEF y, s, e
      <3>4. QED
        BY <3>2, <3>3 DEF v
    <2> HIDE DEF s, e
    <2>4. OnlyEntry(r.mem, s.mem, rt, t, k, e)
      BY <1>1, <2>3 DEF SameMaps, OnlyEntry
    <2>5. x.fault = FALSE /\ x.ret = 0 /\ x.ram = s
      BY <2>1
    <2>6. InUse(s, rt, h \ {pa}) = InUse(r, rt, h)
      BY <1>1, <2>3
    <2>7. QED
      BY <2>2, <2>3, <2>4, <2>5, <2>6 DEF MapOutcome, x, e
  <1>9. QED
    BY <1>6, <1>7, <1>8

(* erase gives the mapped page back and clears its entry; nothing else     *)
(* changes, although the link is written before the entry is cleared.      *)
LEMMA EraseCorrect ==
  ASSUME NEW r, NEW rt, NEW h, Well(r, rt, h),
         NEW t \in Tables, NEW va \in Nat,
         page_walk(r.mem, rt[t], va) # NULL
  PROVE  LET low == page_walk(r.mem, rt[t], va)
             pa  == r.mem[low][vpn0(va)].pa
             s   == [free_page(r, pa) EXCEPT !.mem[low][vpn0(va)] = INVALID_PTE]
         IN  /\ Well(s, rt, h)
             /\ InUse(s, rt, h) = InUse(r, rt, h)
             /\ EntryAt(r.mem, rt[t], Key(va)) # INVALID_PTE
             /\ OnlyEntry(r.mem, s.mem, rt, t, Key(va), INVALID_PTE)
  <1> DEFINE low == page_walk(r.mem, rt[t], va)
             i == vpn0(va)
             pa == r.mem[low][i].pa
             s == [free_page(r, pa) EXCEPT !.mem[low][i] = INVALID_PTE]
             k == Key(va)
             u == [r EXCEPT !.mem[low][i] = INVALID_PTE]
             v == free_page(u, pa)
  <1>1. k \in Path /\ k[3] = i /\ i \in Slots
    BY IndicesAreSlots
  <1>2. /\ low = LowAt(r.mem, rt[t], k)
        /\ isValid(r.mem[low][i])
        /\ EntryAt(r.mem, rt[t], k) = r.mem[low][i]
    BY WalkFinds
  <1>3. EntryAt(r.mem, rt[t], k) # INVALID_PTE
    BY <1>2, InvalidEntry
  <1>4. /\ low \in Pages /\ pa \in Pages /\ pa # low /\ pa \notin FreeSet(r)
        /\ Well(u, rt, h \cup {pa})
        /\ InUse(u, rt, h \cup {pa}) = InUse(r, rt, h)
        /\ OnlyEntry(r.mem, u.mem, rt, t, k, INVALID_PTE)
    <2> DEFINE l == LowAt(r.mem, rt[t], k)
               q == r.mem[l][k[3]].pa
               y == [r EXCEPT !.mem[l][k[3]] = INVALID_PTE]
    <2>1. l = low /\ q = pa /\ y = u
      BY <1>1, <1>2
    <2>2. l # NULL /\ isValid(r.mem[l][k[3]])
      BY <1>1, <1>2
    <2> HIDE DEF k
    <2>3. /\ l \in Pages /\ q \in Pages /\ q # l /\ q \notin FreeSet(r)
          /\ Well(y, rt, h \cup {q})
          /\ InUse(y, rt, h \cup {q}) = InUse(r, rt, h)
          /\ OnlyEntry(r.mem, y.mem, rt, t, k, INVALID_PTE)
      BY <1>1, <2>2, PageUnhung, SMTT(30)
    <2> HIDE DEF l, q, y, low, pa, u
    <2>4. QED
      BY <2>1, <2>3, SMTT(30)
  <1>5. pa \notin h
    <2>1. pa \in MappedPages(r.mem, rt)
      BY <1>1, <1>2, WalkDescends DEF LowAt, Well, Typed
    <2>2. QED
      BY <2>1 DEF Well, Apart
  <1>6. (h \cup {pa}) \ {pa} = h
    BY <1>5
  <1>7. s = v
    <2>1. r \in Ram
      BY DEF Well, Typed
    <2>2. r = [free_pages_list |-> r.free_pages_list, mem |-> r.mem, free |-> r.free]
      BY <2>1 DEF Ram
    <2> HIDE DEF low, pa
    <2> DEFINE m1 == [r.mem EXCEPT ![pa][0] = Link(r.free_pages_list)]
               m2 == [m1 EXCEPT ![low][i] = INVALID_PTE]
               n1 == [r.mem EXCEPT ![low][i] = INVALID_PTE]
               n2 == [n1 EXCEPT ![pa][0] = Link(r.free_pages_list)]
               f  == <<pa>> \o r.free
    <2>3. m2 = n2
      <3>1. /\ n1 = [r.mem EXCEPT ![low] = [r.mem[low] EXCEPT ![i] = INVALID_PTE]]
            /\ m1 = [r.mem EXCEPT ![pa] = [r.mem[pa] EXCEPT ![0] = Link(r.free_pages_list)]]
        OBVIOUS
      <3>2. m1[low] = r.mem[low] /\ n1[pa] = r.mem[pa]
        BY <1>4, <2>1 DEF Ram
      <3>3. /\ m2 = [m1 EXCEPT ![low] = [r.mem[low] EXCEPT ![i] = INVALID_PTE]]
            /\ n2 = [n1 EXCEPT ![pa] = [r.mem[pa] EXCEPT ![0] = Link(r.free_pages_list)]]
        BY <3>2
      <3> DEFINE cl == [r.mem[low] EXCEPT ![i] = INVALID_PTE]
                 cp == [r.mem[pa] EXCEPT ![0] = Link(r.free_pages_list)]
      <3> HIDE DEF m1, m2, n1, n2, cl, cp
      <3>4. m2 = [[r.mem EXCEPT ![pa] = cp] EXCEPT ![low] = cl]
        BY <3>1, <3>3 DEF cl, cp
      <3>5. n2 = [[r.mem EXCEPT ![low] = cl] EXCEPT ![pa] = cp]
        BY <3>1, <3>3 DEF cl, cp
      <3>6. QED
        BY <1>4, <2>1, <3>4, <3>5 DEF Ram
    <2> HIDE DEF m2, n2, f
    <2>4. s = [free_pages_list |-> pa, mem |-> m2, free |-> f]
      <3>1. free_page(r, pa) = [free_pages_list |-> pa, mem |-> m1, free |-> f]
        <4> HIDE DEF m1
        <4>1. free_page(r, pa) = [r EXCEPT !.mem = m1, !.free_pages_list = pa, !.free = f]
          BY DEF free_page, m1, f
        <4>2. QED
          BY <2>2, <4>1
      <3> HIDE DEF m1
      <3>2. [free_page(r, pa) EXCEPT !.mem[low][i] = INVALID_PTE]
              = [free_pages_list |-> pa, mem |-> m2, free |-> f]
        BY <3>1 DEF m2
      <3>3. QED
        BY <3>2
    <2>5. v = [free_pages_list |-> pa, mem |-> n2, free |-> f]
      <3>1. u = [free_pages_list |-> r.free_pages_list, mem |-> n1, free |-> r.free]
        BY <2>2
      <3> HIDE DEF u, n1
      <3>2. free_page(u, pa) = [u EXCEPT !.mem = n2, !.free_pages_list = pa, !.free = f]
        <4>1. n2 = [u.mem EXCEPT ![pa][0] = Link(u.free_pages_list)] /\ f = <<pa>> \o u.free
          BY <3>1 DEF n2, f
        <4>2. QED
          BY <4>1 DEF free_page
      <3>3. QED
        BY <3>1, <3>2
    <2>6. QED
      BY <2>3, <2>4, <2>5
  <1>8. /\ Well(v, rt, (h \cup {pa}) \ {pa})
        /\ InUse(v, rt, (h \cup {pa}) \ {pa}) = InUse(u, rt, h \cup {pa})
        /\ SameMaps(u.mem, v.mem, rt)
    <2> DEFINE g == h \cup {pa}
    <2>1. Well(u, rt, g) /\ pa \in g
      BY <1>4
    <2> HIDE DEF g, u, pa
    <2>2. /\ Well(v, rt, g \ {pa})
          /\ InUse(v, rt, g \ {pa}) = InUse(u, rt, g)
          /\ SameMaps(u.mem, v.mem, rt)
      BY <2>1, PageGiven
    <2>3. QED
      BY <2>2 DEF g
  <1> HIDE DEF s, v, u, k
  <1>9. OnlyEntry(r.mem, v.mem, rt, t, k, INVALID_PTE)
    BY <1>1, <1>4, <1>8 DEF OnlyEntry, SameMaps
  <1>10. Well(s, rt, h) /\ InUse(s, rt, h) = InUse(r, rt, h)
    BY <1>4, <1>6, <1>7, <1>8
  <1>11. QED
    BY <1>3, <1>7, <1>9, <1>10, Zenon DEF s, k

-----------------------------------------------------------------------------
(* The constructor: an empty tree, or NULL and an unchanged RAM.           *)
LEMMA RootConstructed ==
  ASSUME NEW r, NEW rt, NEW h, Well(r, rt, h), NEW t \in Tables, rt[t] = NULL
  PROVE  LET a == alloc_empty_page(r)
             s == [rt EXCEPT ![t] = a.page]
         IN  /\ Well(a.ram, s, h)
             /\ InUse(a.ram, s, h) = InUse(r, rt, h)
             /\ \A u \in Tables, k \in Path : EntryAt(a.ram.mem, s[u], k) = EntryAt(r.mem, rt[u], k)
  <1> DEFINE a == alloc_empty_page(r)
             s == [rt EXCEPT ![t] = a.page]
  <1>1. /\ a.page = NULL => a.ram = r
        /\ a.page # NULL => /\ a.page \in Pages /\ a.page \in FreeSet(r)
                            /\ Well(a.ram, rt, h \cup {a.page})
                            /\ MiddlePages(a.ram.mem, rt) = MiddlePages(r.mem, rt)
                            /\ InUse(a.ram, rt, h \cup {a.page}) = InUse(r, rt, h)
                            /\ SameMaps(r.mem, a.ram.mem, rt)
                            /\ a.ram.mem = [r.mem EXCEPT ![a.page] = ZeroPage]
                            /\ a.ram.mem[a.page] = ZeroPage
    BY EmptyPageTaken
  <1>2. rt \in [Tables -> Pages \cup {NULL}]
    BY DEF Well, Typed
  <1> HIDE DEF a
  <1>3. CASE a.page = NULL
    <2>1. s = rt /\ a.ram = r
      BY <1>1, <1>2, <1>3
    <2>2. QED
      BY <2>1 DEF a
  <1>4. CASE a.page # NULL
    <2> DEFINE g == h \cup {a.page}
               q == a.page
               n == a.ram
               x == [rt EXCEPT ![t] = q]
    <2>1. Well(n, rt, g) /\ q \in g /\ n.mem[q] = ZeroPage
      BY <1>1, <1>4
    <2>2. g \ {q} = h
      BY <1>1, <1>4 DEF Well, Apart
    <2>a. s = x
      OBVIOUS
    <2>c. rt[t] = NULL /\ t \in Tables
      OBVIOUS
    <2> HIDE DEF g, q, n, s
    <2>b. /\ Well(n, x, g \ {q})
          /\ InUse(n, x, g \ {q}) = InUse(n, rt, g)
          /\ \A u \in Tables, k \in Path : EntryAt(n.mem, x[u], k) = EntryAt(n.mem, rt[u], k)
      BY ONLY <2>1, <2>c, RootSet, SMTT(30)
    <2> HIDE DEF x
    <2>4. /\ Well(n, s, g \ {q})
          /\ InUse(n, s, g \ {q}) = InUse(n, rt, g)
          /\ \A u \in Tables, k \in Path : EntryAt(n.mem, s[u], k) = EntryAt(n.mem, rt[u], k)
      BY <2>a, <2>b
    <2>5. \A u \in Tables, k \in Path : EntryAt(n.mem, s[u], k) = EntryAt(r.mem, rt[u], k)
      BY <1>1, <1>4, <2>4 DEF SameMaps, n
    <2>6. InUse(n, s, h) = InUse(r, rt, h)
      BY <1>1, <1>4, <2>2, <2>4 DEF g, q, n
    <2>7. QED
      BY <2>2, <2>4, <2>5, <2>6 DEF n, s, a
  <1>5. QED
    BY <1>3, <1>4

(* A held page that is given up without being freed disturbs nothing.      *)
LEMMA HeldLess ==
  ASSUME NEW r, NEW rt, NEW h, Well(r, rt, h), NEW g \in SUBSET h
  PROVE  Well(r, rt, g)
  BY DEF Well, Typed, Apart

-----------------------------------------------------------------------------
IInv == TypeOK /\ Well(ram, root, held)

(* The set of pages in use. *)
InUseNow == InUse(ram, root, held)

LEMMA MapsAreEntries == Maps = [t \in Tables |-> [k \in Keys |-> EntryAt(ram.mem, root[t], k)]]
  BY DEF Maps, EntryOf, EntryAt

(* What a step leaves of the maps when it calls none of add and erase.     *)
LEMMA WellPrimed == Well(ram, root, held)' <=> Well(ram', root', held')
  BY DEF Well, Typed, Forest, Apart, FreeListWF, FreeSet, RootPages, MiddlePages,
     LowPages, MappedPages, Kids, Shape, OneParent, DistinctRoots,
     LinksSpellHistory, NoRepeat, FreeHead, FreeAfter

LEMMA InUsePrimed == InUseNow' = InUse(ram', root', held')
  BY DEF InUseNow, InUse, FreeSet, RootPages, MiddlePages, LowPages, MappedPages, Kids

LEMMA MapsPrimed == Maps' = [t \in Tables |-> [k \in Keys |-> EntryAt(ram'.mem, root'[t], k)]]
  BY DEF Maps, EntryOf, EntryAt, step

(* The list pmm_init leaves is well formed, whatever was in RAM.           *)
LEMMA BootRamCorrect ==
  ASSUME NEW m \in Mem
  PROVE  BootRam(m) \in Ram /\ FreeListWF(BootRam(m))
  <1> DEFINE r == BootRam(m)
             n == RAM_END - KERNEL_END
  <1>1. /\ n \in Nat
        /\ KERNEL_END \in Nat /\ KERNEL_END > 0 /\ RAM_END \in Nat /\ RAM_END = KERNEL_END + n
    BY FrameAssumption
  <1>2. /\ r.free_pages_list = IF KERNEL_END = RAM_END THEN NULL ELSE RAM_END - 1
        /\ r.mem = [p \in Pages |-> [m[p] EXCEPT ![0] = Link(IF p = KERNEL_END THEN NULL ELSE p - 1)]]
        /\ r.free = [i \in 1 .. n |-> RAM_END - i]
        /\ r = [free_pages_list |-> r.free_pages_list, mem |-> r.mem, free |-> r.free]
    BY DEF BootRam
  <1> HIDE DEF r, n
  <1>3. \A i \in 1 .. n : RAM_END - i \in Pages
    BY <1>1 DEF Pages
  <1>4. /\ r.free \in Seq(Pages)
        /\ Len(r.free) = n
        /\ \A i \in 1 .. n : r.free[i] = RAM_END - i
    BY <1>1, <1>2, <1>3
  <1>5. r.free = <<>> <=> n = 0
    BY <1>1, <1>4, EmptySeq
  <1>6. r.mem \in [Pages -> Content]
    <2>1. ASSUME NEW p \in Pages
          PROVE  [m[p] EXCEPT ![0] = Link(IF p = KERNEL_END THEN NULL ELSE p - 1)] \in Content
      <3>1. (IF p = KERNEL_END THEN NULL ELSE p - 1) \in Pages \cup {NULL}
        BY <1>1 DEF Pages
      <3>2. Link(IF p = KERNEL_END THEN NULL ELSE p - 1) \in Word
        BY <3>1 DEF Link, Word
      <3>3. m[p] \in Content
        BY DEF Mem
      <3> DEFINE l == Link(IF p = KERNEL_END THEN NULL ELSE p - 1)
      <3> HIDE DEF l
      <3>4. [m[p] EXCEPT ![0] = l] \in Content
        BY <3>2, <3>3 DEF Content, l
      <3>5. QED
        BY <3>4 DEF l
    <2>2. QED
      BY <1>2, <2>1
  <1>7. r.free_pages_list \in Pages \cup {NULL}
    BY <1>1, <1>2 DEF Pages
  <1>8. r \in Ram
    BY <1>2, <1>4, <1>6, <1>7 DEF Ram
  <1>9. r.free_pages_list = FreeHead(r)
    BY <1>1, <1>2, <1>4, <1>5 DEF FreeHead
  <1>10. ASSUME NEW i \in 1 .. Len(r.free)
         PROVE  r.mem[r.free[i]][0] = Link(FreeAfter(r, i))
    <2> DEFINE p == RAM_END - i
               l == IF p = KERNEL_END THEN NULL ELSE p - 1
    <2>1. r.free[i] = p /\ p \in Pages /\ i \in Int
      BY <1>1, <1>3, <1>4
    <2>2. FreeAfter(r, i) = l
      <3>1. CASE i < n
        <4>1. i + 1 \in 1 .. n /\ RAM_END - (i + 1) = p - 1 /\ p # KERNEL_END
          BY <1>1, <1>4, <2>1, <3>1
        <4>2. QED
          BY <1>4, <3>1, <4>1 DEF FreeAfter
      <3>2. CASE ~(i < n)
        <4>1. p = KERNEL_END
          BY <1>1, <1>4, <2>1, <3>2
        <4>2. QED
          BY <1>4, <3>2, <4>1 DEF FreeAfter
      <3>3. QED
        BY <3>1, <3>2
    <2> HIDE DEF l
    <2>3. 0 \in Slots
      BY SlotAssumption DEF Slots
    <2>4. r.mem[p] = [m[p] EXCEPT ![0] = Link(l)]
      BY <1>2, <2>1 DEF l
    <2> HIDE DEF p
    <2>5. r.mem[p][0] = Link(l)
      BY <2>1, <2>3, <2>4 DEF Mem, Content
    <2>6. QED
      BY <2>1, <2>2, <2>5
  <1>11. NoRepeat(r)
    BY <1>1, <1>4 DEF NoRepeat
  <1>12. QED
    BY <1>8, <1>9, <1>10, <1>11 DEF FreeListWF, LinksSpellHistory, r

(* Without roots there is no forest. *)
LEMMA NoRoots ==
  ASSUME NEW r \in Ram, FreeListWF(r),
         NEW rt, rt = [t \in Tables |-> NULL]
  PROVE  Well(r, rt, {})
  <1>1. RootPages(rt) = {}
    BY DEF RootPages
  <1>2. \A m : Kids(m, {}) = {}
    BY DEF Kids
  <1>3. MiddlePages(r.mem, rt) = {} /\ LowPages(r.mem, rt) = {} /\ MappedPages(r.mem, rt) = {}
    BY <1>1, <1>2 DEF MiddlePages, LowPages, MappedPages
  <1>4. \A m, F : Shape(m, {}, F) /\ OneParent(m, {})
    BY DEF Shape, OneParent
  <1>5. Forest(r.mem, rt)
    BY <1>1, <1>3, <1>4 DEF Forest, DistinctRoots
  <1>6. Apart(FreeSet(r), {}, {}, {}, {}, {})
    BY DEF Apart
  <1>7. QED
    BY <1>1, <1>3, <1>5, <1>6 DEF Well, Typed

LEMMA InitInv == Init => IInv
  <1> SUFFICES ASSUME Init PROVE IInv
    OBVIOUS
  <1>1. PICK w \in Stores : ram = BootRam([p \in Pages |-> [i \in Slots |-> w]])
    BY DEF Init
  <1> DEFINE m == [p \in Pages |-> [i \in Slots |-> w]]
  <1>2. m \in Mem
    BY StoresAssumption DEF Mem, Content
  <1> HIDE DEF m
  <1>3. ram \in Ram /\ FreeListWF(ram)
    BY <1>1, <1>2, BootRamCorrect DEF m
  <1>4. Well(ram, root, held)
    BY <1>3, NoRoots DEF Init
  <1>5. TypeOK
    BY <1>3 DEF Init, TypeOK
  <1>6. QED
    BY <1>4, <1>5 DEF IInv

-----------------------------------------------------------------------------
(* The facts every step starts from.                                       *)
LEMMA InvFacts ==
  ASSUME IInv
  PROVE  /\ Well(ram, root, held)
         /\ ram \in Ram
         /\ root \in [Tables -> Pages \cup {NULL}]
         /\ held \in SUBSET Pages
         /\ cpu \in {"running", "halted"}
  BY DEF IInv, TypeOK

(* A step that keeps the forest well formed keeps the invariant.           *)
LEMMA KeepsInv ==
  ASSUME Well(ram', root', held'),
         call' \in {NoCall} \cup ({"add", "erase", "lookup"} \X Tables \X Keys
                                  \X (Pages \cup {-1, 0})),
         cpu' \in {"running", "halted"}
  PROVE  IInv'
  BY WellPrimed DEF IInv, TypeOK, Well, Typed, Keys

LEMMA AddressesAreNumbers == \A va \in VAs : va \in Nat
  BY AddressAssumption

LEMMA KeysArePaths == Keys \subseteq Path
  <1>1. \A va \in VAs : Key(va) \in Path
    BY AddressesAreNumbers, IndicesAreSlots
  <1>2. QED
    BY <1>1 DEF Keys

LEMMA MapsKept ==
  ASSUME \A u \in Tables, k \in Path : EntryAt(ram'.mem, root'[u], k) = EntryAt(ram.mem, root[u], k)
  PROVE  Maps' = Maps
  BY MapsPrimed, MapsAreEntries, KeysArePaths

LEMMA OneEntryChanged ==
  ASSUME NEW t \in Tables, NEW va \in VAs, NEW w,
         OnlyEntry(ram.mem, ram'.mem, root, t, Key(va), w), root' = root
  PROVE  Maps' = [Maps EXCEPT ![t][Key(va)] = w]
  <1> DEFINE k == Key(va)
             M == [u \in Tables |-> [j \in Keys |-> EntryAt(ram'.mem, root[u], j)]]
             N == [Maps EXCEPT ![t][k] = w]
  <1>1. k \in Keys
    BY DEF Keys
  <1>2. Maps' = M
    BY MapsPrimed
  <1>3. \A j \in Keys : j \in Path
    BY KeysArePaths
  <1> HIDE DEF k
  <1>4. N = [u \in Tables |-> IF u = t THEN [Maps[t] EXCEPT ![k] = w] ELSE Maps[u]]
    BY MapsAreEntries
  <1>5. [Maps[t] EXCEPT ![k] = w] = [j \in Keys |-> IF j = k THEN w ELSE Maps[t][j]]
    BY <1>1, MapsAreEntries
  <1>6. ASSUME NEW u \in Tables
        PROVE  M[u] = IF u = t THEN [j \in Keys |-> IF j = k THEN w ELSE Maps[t][j]] ELSE Maps[u]
    <2>1. \A j \in Keys : EntryAt(ram'.mem, root[u], j)
                              = IF u = t /\ j = k THEN w ELSE EntryAt(ram.mem, root[u], j)
      BY <1>3 DEF OnlyEntry, k
    <2>2. \A j \in Keys : Maps[u][j] = EntryAt(ram.mem, root[u], j)
      BY MapsAreEntries
    <2>3. M[u] = [j \in Keys |-> IF u = t /\ j = k THEN w ELSE EntryAt(ram.mem, root[u], j)]
      BY <2>1
    <2>4. QED
      BY <2>2, <2>3, MapsAreEntries
  <1>7. QED
    BY <1>2, <1>4, <1>5, <1>6 DEF k

-----------------------------------------------------------------------------
(* What each action does to the invariant, the pages in use and the maps.  *)
LEMMA ConstructStep ==
  ASSUME IInv, NEW t \in Tables, Construct(t)
  PROVE  IInv' /\ InUseNow' = InUseNow /\ Maps' = Maps
  <1> DEFINE a == alloc_empty_page(ram)
             s == [root EXCEPT ![t] = a.page]
  <1>1. /\ root[t] = NULL
        /\ ram' = a.ram /\ root' = s
        /\ cpu' = IF a.page = NULL THEN "halted" ELSE cpu
        /\ call' = NoCall /\ held' = held
    BY DEF Construct
  <1>2. Well(ram, root, held)
    BY InvFacts
  <1>3. /\ Well(a.ram, s, held)
        /\ InUse(a.ram, s, held) = InUse(ram, root, held)
        /\ \A u \in Tables, k \in Path : EntryAt(a.ram.mem, s[u], k) = EntryAt(ram.mem, root[u], k)
    <2>1. t \in Tables /\ root[t] = NULL
      BY <1>1
    <2> HIDE DEF a, s
    <2>2. LET b == alloc_empty_page(ram)
              q == [root EXCEPT ![t] = b.page]
          IN  /\ Well(b.ram, q, held)
              /\ InUse(b.ram, q, held) = InUse(ram, root, held)
              /\ \A u \in Tables, k \in Path : EntryAt(b.ram.mem, q[u], k) = EntryAt(ram.mem, root[u], k)
      BY <1>2, <2>1, RootConstructed
    <2>3. QED
      BY <2>2 DEF a, s
  <1>4. cpu' \in {"running", "halted"}
    BY <1>1, InvFacts
  <1> HIDE DEF a, s
  <1>5. IInv'
    BY <1>1, <1>3, <1>4, KeepsInv
  <1>6. InUseNow' = InUseNow
    BY <1>1, <1>3, InUsePrimed DEF InUseNow
  <1>7. Maps' = Maps
    BY <1>1, <1>3, MapsKept
  <1>8. QED
    BY <1>5, <1>6, <1>7

LEMMA DestroyStep ==
  ASSUME IInv, NEW t \in Tables, Destroy(t)
  PROVE  IInv' /\ Maps' = [Maps EXCEPT ![t] = [k \in Keys |-> INVALID_PTE]]
  <1>1. /\ root' = [root EXCEPT ![t] = NULL]
        /\ call' = NoCall
        /\ UNCHANGED <<ram, held, cpu>>
    BY DEF Destroy
  <1> DEFINE s == [root EXCEPT ![t] = NULL]
  <1>2. /\ Well(ram, s, held)
        /\ \A u \in Tables, k \in Path :
             EntryAt(ram.mem, s[u], k) = IF u = t THEN INVALID_PTE ELSE EntryAt(ram.mem, root[u], k)
    BY InvFacts, RootDropped
  <1> HIDE DEF s
  <1>3. root' = s
    BY <1>1 DEF s
  <1>4. IInv'
    BY <1>1, <1>2, <1>3, InvFacts, KeepsInv
  <1>5. Maps' = [u \in Tables |-> [k \in Keys |-> EntryAt(ram.mem, s[u], k)]]
    BY <1>1, <1>3, MapsPrimed
  <1>6. \A u \in Tables, k \in Keys :
          EntryAt(ram.mem, s[u], k) = IF u = t THEN INVALID_PTE ELSE EntryAt(ram.mem, root[u], k)
    BY <1>2, KeysArePaths
  <1>7. QED
    BY <1>4, <1>5, <1>6, MapsAreEntries

LEMMA AddStep ==
  ASSUME IInv, NEW t \in Tables, NEW va \in VAs, NEW pa \in Pages, NEW perm \in Perms,
         add(t, va, pa, perm)
  PROVE  /\ IInv'
         /\ InUseNow' = InUseNow
         /\ \/ cpu' = "halted" /\ call' = NoCall /\ Maps' = Maps
            \/ /\ cpu' = "running"
               /\ Maps[t][Key(va)] # INVALID_PTE
               /\ call' = <<"add", t, Key(va), -1>>
               /\ Maps' = Maps
            \/ /\ cpu' = "running"
               /\ Maps[t][Key(va)] = INVALID_PTE
               /\ call' = <<"add", t, Key(va), 0>>
               /\ Maps' = [Maps EXCEPT ![t][Key(va)] = PageTableEntry(pa, perm)]
  <1> DEFINE x == Map(ram, root[t], va, pa, perm)
             k == Key(va)
  <1>1. /\ cpu = "running" /\ root[t] # NULL /\ pa \in held
        /\ ram' = x.ram
        /\ root' = root
        /\ \/ x.fault /\ cpu' = "halted" /\ call' = NoCall /\ held' = held
           \/ /\ ~x.fault
              /\ call' = <<"add", t, k, x.ret>>
              /\ held' = IF x.ret = 0 THEN held \ {pa} ELSE held
              /\ cpu' = cpu
    BY DEF add, Running
  <1>2. MapOutcome(ram, root, held, t, k, pa, perm, x)
    <2>1. Well(ram, root, held) /\ root[t] # NULL /\ pa \in held
      BY <1>1, InvFacts
    <2>2. va \in Nat
      BY AddressesAreNumbers
    <2>3. QED
      BY <2>1, <2>2, MapCorrect
  <1>3. k \in Keys /\ Maps[t][k] = EntryAt(ram.mem, root[t], k)
    BY MapsAreEntries DEF Keys
  <1>4. NoCall \in {NoCall} /\ 0 # -1
    OBVIOUS
  <1> HIDE DEF x, k
  <1>5. CASE /\ x.fault = TRUE
             /\ Well(x.ram, root, held)
             /\ InUse(x.ram, root, held) = InUse(ram, root, held)
             /\ SameMaps(ram.mem, x.ram.mem, root)
    <2>1. cpu' = "halted" /\ call' = NoCall /\ held' = held
      BY <1>1, <1>5
    <2>2. IInv'
      BY <1>1, <1>5, <2>1, KeepsInv
    <2>3. InUseNow' = InUseNow /\ Maps' = Maps
      BY <1>1, <1>5, <2>1, InUsePrimed, MapsKept DEF InUseNow, SameMaps
    <2>4. QED
      BY <2>1, <2>2, <2>3
  <1>6. CASE /\ x.fault = FALSE /\ x.ret = -1
             /\ Well(x.ram, root, held)
             /\ InUse(x.ram, root, held) = InUse(ram, root, held)
             /\ SameMaps(ram.mem, x.ram.mem, root)
             /\ EntryAt(ram.mem, root[t], k) # INVALID_PTE
    <2>1. cpu' = cpu /\ call' = <<"add", t, k, -1>> /\ held' = held
      BY <1>1, <1>4, <1>6
    <2>2. IInv'
      BY <1>1, <1>3, <1>6, <2>1, KeepsInv
    <2>3. InUseNow' = InUseNow /\ Maps' = Maps
      BY <1>1, <1>6, <2>1, InUsePrimed, MapsKept DEF InUseNow, SameMaps
    <2>4. QED
      BY <1>1, <1>3, <1>6, <2>1, <2>2, <2>3 DEF k
  <1>7. CASE /\ x.fault = FALSE /\ x.ret = 0
             /\ Well(x.ram, root, held \ {pa})
             /\ InUse(x.ram, root, held \ {pa}) = InUse(ram, root, held)
             /\ EntryAt(ram.mem, root[t], k) = INVALID_PTE
             /\ OnlyEntry(ram.mem, x.ram.mem, root, t, k, PageTableEntry(pa, perm))
    <2>1. cpu' = cpu /\ call' = <<"add", t, k, 0>> /\ held' = held \ {pa}
      BY <1>1, <1>7
    <2>2. IInv'
      BY <1>1, <1>3, <1>7, <2>1, KeepsInv
    <2>3. InUseNow' = InUseNow
      BY <1>1, <1>7, <2>1, InUsePrimed DEF InUseNow
    <2>4. Maps' = [Maps EXCEPT ![t][k] = PageTableEntry(pa, perm)]
      BY <1>1, <1>7, OneEntryChanged DEF k
    <2>5. QED
      BY <1>1, <1>3, <1>7, <2>1, <2>2, <2>3, <2>4 DEF k
  <1>8. QED
    BY <1>2, <1>5, <1>6, <1>7 DEF MapOutcome

LEMMA LookupStep ==
  ASSUME IInv, NEW t \in Tables, NEW va \in VAs, lookup(t, va)
  PROVE  /\ IInv'
         /\ InUseNow' = InUseNow
         /\ Maps' = Maps
         /\ cpu = "running" /\ cpu' = "running"
         /\ call' = <<"lookup", t, Key(va), Maps[t][Key(va)].pa>>
  <1> DEFINE low == page_walk(ram.mem, root[t], va)
             pa == IF low = NULL THEN NULL ELSE ram.mem[low][vpn0(va)].pa
             k == Key(va)
  <1>1. /\ cpu = "running"
        /\ call' = <<"lookup", t, k, pa>>
        /\ ram' = ram /\ root' = root /\ held' = held /\ cpu' = cpu
    BY DEF lookup, Running
  <1>2. /\ k \in Keys /\ k \in Path
        /\ Maps[t][k] = EntryAt(ram.mem, root[t], k)
    BY KeysArePaths, MapsAreEntries DEF Keys
  <1>3. EntryAt(ram.mem, root[t], k) = IF low # NULL THEN ram.mem[low][vpn0(va)] ELSE INVALID_PTE
    BY AddressesAreNumbers, WalkFinds
  <1>4. Maps[t][k].pa = pa
    BY <1>2, <1>3, InvalidEntry
  <1>5. EntryAt(ram.mem, root[t], k).pa \in Pages \cup {NULL}
    <2> DEFINE l == step(ram.mem, step(ram.mem, root[t], k[1]), k[2])
    <2>1. Forest(ram.mem, root) /\ root \in [Tables -> Pages \cup {NULL}]
      BY InvFacts DEF Well
    <2>2. l # NULL /\ isValid(ram.mem[l][k[3]]) => ram.mem[l][k[3]].pa \in MappedPages(ram.mem, root)
      BY <1>2, <2>1, WalkDescends
    <2>3. EntryAt(ram.mem, root[t], k) =
            IF l # NULL /\ isValid(ram.mem[l][k[3]]) THEN ram.mem[l][k[3]] ELSE INVALID_PTE
      BY DEF EntryAt
    <2> HIDE DEF l, k
    <2>4. QED
      BY <2>2, <2>3, InvalidEntry DEF MappedPages, Kids
  <1> HIDE DEF low, pa, k
  <1>6. pa \in Pages \cup {-1, 0}
    BY <1>2, <1>4, <1>5 DEF NULL
  <1>7. IInv'
    <2>1. call' \in {NoCall} \cup ({"add", "erase", "lookup"} \X Tables \X Keys \X (Pages \cup {-1, 0}))
      BY <1>1, <1>2, <1>6
    <2>2. QED
      BY <1>1, <2>1, InvFacts, KeepsInv
  <1>8. InUseNow' = InUseNow /\ Maps' = Maps
    BY <1>1, InUsePrimed, MapsKept DEF InUseNow
  <1>9. QED
    BY <1>1, <1>4, <1>7, <1>8 DEF k

LEMMA EraseStep ==
  ASSUME IInv, NEW t \in Tables, NEW va \in VAs, erase(t, va)
  PROVE  /\ IInv'
         /\ InUseNow' = InUseNow
         /\ cpu = "running" /\ cpu' = "running"
         /\ \/ /\ Maps[t][Key(va)] = INVALID_PTE
               /\ call' = <<"erase", t, Key(va), -1>>
               /\ Maps' = Maps
            \/ /\ Maps[t][Key(va)] # INVALID_PTE
               /\ call' = <<"erase", t, Key(va), 0>>
               /\ Maps' = [Maps EXCEPT ![t][Key(va)] = INVALID_PTE]
  <1> DEFINE low == page_walk(ram.mem, root[t], va)
             pa == ram.mem[low][vpn0(va)].pa
             s == [free_page(ram, pa) EXCEPT !.mem[low][vpn0(va)] = INVALID_PTE]
             k == Key(va)
  <1>1. /\ cpu = "running"
        /\ root' = root /\ held' = held /\ cpu' = cpu
        /\ \/ low = NULL /\ call' = <<"erase", t, k, -1>> /\ ram' = ram
           \/ low # NULL /\ ram' = s /\ call' = <<"erase", t, k, 0>>
    BY Zenon DEF erase, Running
  <1>2. /\ k \in Keys
        /\ Maps[t][k] = EntryAt(ram.mem, root[t], k)
    BY MapsAreEntries DEF Keys
  <1>3. call' \in {NoCall} \cup ({"add", "erase", "lookup"} \X Tables \X Keys \X (Pages \cup {-1, 0}))
    <2>1. PICK x \in {-1, 0} : call' = <<"erase", t, k, x>>
      BY <1>1, Zenon
    <2> HIDE DEF k, low, s
    <2>2. x \in Pages \cup {-1, 0}
      OBVIOUS
    <2>3. QED
      BY <1>2, <2>1, <2>2
  <1>4. CASE low = NULL
    <2>1. EntryAt(ram.mem, root[t], k) = INVALID_PTE
      BY <1>4, AddressesAreNumbers, WalkFinds
    <2>2. ram' = ram /\ call' = <<"erase", t, k, -1>>
      BY <1>1, <1>4
    <2> HIDE DEF k
    <2>3. IInv'
      BY <1>1, <1>3, <2>2, InvFacts, KeepsInv
    <2>4. InUseNow' = InUseNow /\ Maps' = Maps
      BY <1>1, <2>2, InUsePrimed, MapsKept DEF InUseNow
    <2>5. QED
      BY <1>1, <1>2, <2>1, <2>2, <2>3, <2>4 DEF k
  <1>5. CASE low # NULL
    <2>1. Well(ram, root, held)
      BY InvFacts
    <2>2. /\ Well(s, root, held)
          /\ InUse(s, root, held) = InUse(ram, root, held)
          /\ EntryAt(ram.mem, root[t], k) # INVALID_PTE
          /\ OnlyEntry(ram.mem, s.mem, root, t, k, INVALID_PTE)
      <3>1. va \in Nat
        BY AddressesAreNumbers
      <3>2. QED
        BY <1>5, <2>1, <3>1, EraseCorrect, ZenonT(30)
    <2>3. ram' = s /\ call' = <<"erase", t, k, 0>>
      BY <1>1, <1>5, Zenon
    <2> HIDE DEF s, k, low
    <2>4. IInv'
      BY <1>1, <1>3, <2>2, <2>3, InvFacts, KeepsInv
    <2>5. InUseNow' = InUseNow
      BY <1>1, <2>2, <2>3, InUsePrimed DEF InUseNow
    <2>6. Maps' = [Maps EXCEPT ![t][k] = INVALID_PTE]
      BY <1>1, <2>2, <2>3, OneEntryChanged DEF k
    <2>7. QED
      BY <1>1, <1>2, <2>2, <2>3, <2>4, <2>5, <2>6 DEF k
  <1>6. QED
    BY <1>4, <1>5

LEMMA AllocPageStep ==
  ASSUME IInv, AllocPage
  PROVE  IInv' /\ InUseNow' = InUseNow /\ Maps' = Maps
  <1> DEFINE a == alloc_page(ram)
  <1>1. /\ ram' = a.ram
        /\ held' = held \cup ({a.page} \ {NULL})
        /\ call' = NoCall /\ root' = root /\ cpu' = cpu
    BY DEF AllocPage
  <1>2. /\ a.ram.mem = ram.mem
        /\ a.page = NULL => a.ram = ram
        /\ a.page # NULL => /\ a.page \in Pages
                            /\ Well(a.ram, root, held \cup {a.page})
                            /\ InUse(a.ram, root, held \cup {a.page}) = InUse(ram, root, held)
    <2>1. Well(ram, root, held)
      BY InvFacts
    <2>2. QED
      BY <2>1, PageTaken
  <1> HIDE DEF a
  <1>3. Well(ram', root', held') /\ InUse(ram', root', held') = InUse(ram, root, held)
    <2>1. CASE a.page = NULL
      <3>1. ram' = ram /\ held' = held /\ root' = root
        BY <1>1, <1>2, <2>1
      <3>2. QED
        BY <3>1, InvFacts
    <2>2. CASE a.page # NULL
      <3>1. held' = held \cup {a.page}
        BY <1>1, <2>2
      <3>2. QED
        BY <1>1, <1>2, <2>2, <3>1
    <2>3. QED
      BY <2>1, <2>2
  <1>4. IInv'
    BY <1>1, <1>3, InvFacts, KeepsInv
  <1>5. InUseNow' = InUseNow
    BY <1>3, InUsePrimed DEF InUseNow
  <1>6. Maps' = Maps
    BY <1>1, <1>2, MapsKept
  <1>7. QED
    BY <1>4, <1>5, <1>6

LEMMA FreePageStep ==
  ASSUME IInv, NEW page \in Pages, FreePage(page)
  PROVE  IInv' /\ InUseNow' = InUseNow /\ Maps' = Maps
  <1> DEFINE s == free_page(ram, page)
             h == held \ {page}
  <1>1. /\ page \in held /\ ram' = s /\ held' = h
        /\ call' = NoCall /\ root' = root /\ cpu' = cpu
    BY DEF FreePage
  <1>2. Well(ram, root, held) /\ page \in held
    BY <1>1, InvFacts
  <1>3. Well(s, root, h) /\ InUse(s, root, h) = InUse(ram, root, held) /\ SameMaps(ram.mem, s.mem, root)
    BY <1>2, PageGiven
  <1> HIDE DEF s, h
  <1>4. IInv'
    BY <1>1, <1>3, InvFacts, KeepsInv
  <1>5. InUseNow' = InUseNow
    BY <1>1, <1>3, InUsePrimed DEF InUseNow
  <1>6. Maps' = Maps
    BY <1>1, <1>3, MapsKept DEF SameMaps
  <1>7. QED
    BY <1>4, <1>5, <1>6

-----------------------------------------------------------------------------
(* The places of Vmm and the levels of the forest are the same pages.      *)
TableForest(m, rt) ==
  /\ DistinctRoots(rt)
  /\ Shape(m, RootPages(rt), {{"V"}}) /\ OneParent(m, RootPages(rt))
  /\ Shape(m, MiddlePages(m, rt), {{"V"}}) /\ OneParent(m, MiddlePages(m, rt))

PagesAt(ns) == { n[2] : n \in ns }
Unique(ns)  == \A x, y \in ns : x[2] = y[2] => x = y

LEMMA BelowIsKids ==
  ASSUME NEW ns, NEW F, Shape(ram.mem, PagesAt(ns), F)
  PROVE  PagesAt(Below(ns)) = Kids(ram.mem, PagesAt(ns))
  <1>1. ASSUME NEW q \in PagesAt(Below(ns)) PROVE q \in Kids(ram.mem, PagesAt(ns))
    <2>1. PICK n \in ns, i \in Slots : isValid(ram.mem[n[2]][i]) /\ q = ram.mem[n[2]][i].pa
      BY DEF PagesAt, Below
    <2>2. n[2] \in PagesAt(ns)
      BY DEF PagesAt
    <2>3. q \in Pages
      BY <2>1, <2>2 DEF Shape
    <2>4. QED
      BY <2>1, <2>2, <2>3 DEF Kids
  <1>2. ASSUME NEW q \in Kids(ram.mem, PagesAt(ns)) PROVE q \in PagesAt(Below(ns))
    <2>1. PICK p \in PagesAt(ns), i \in Slots : isValid(ram.mem[p][i]) /\ ram.mem[p][i].pa = q
      BY DEF Kids
    <2>2. PICK n \in ns : p = n[2]
      BY DEF PagesAt
    <2> DEFINE x == <<Append(n[1], i), ram.mem[n[2]][i].pa>>
    <2>3. x \in Below(ns)
      BY <2>1, <2>2 DEF Below
    <2>4. x[2] = q
      BY <2>1, <2>2
    <2> HIDE DEF x
    <2>5. QED
      BY <2>3, <2>4 DEF PagesAt
  <1>3. QED
    BY <1>1, <1>2

LEMMA BelowIsUnique ==
  ASSUME NEW ns, Unique(ns), OneParent(ram.mem, PagesAt(ns))
  PROVE  Unique(Below(ns))
  <1> SUFFICES ASSUME NEW x \in Below(ns), NEW y \in Below(ns), x[2] = y[2]
               PROVE  x = y
    BY DEF Unique
  <1>1. PICK n \in ns, i \in Slots :
          isValid(ram.mem[n[2]][i]) /\ x = <<Append(n[1], i), ram.mem[n[2]][i].pa>>
    BY DEF Below
  <1>2. PICK o \in ns, j \in Slots :
          isValid(ram.mem[o[2]][j]) /\ y = <<Append(o[1], j), ram.mem[o[2]][j].pa>>
    BY DEF Below
  <1>3. n[2] \in PagesAt(ns) /\ o[2] \in PagesAt(ns)
    BY DEF PagesAt
  <1>4. ram.mem[n[2]][i].pa = ram.mem[o[2]][j].pa
    BY <1>1, <1>2
  <1>5. n[2] = o[2] /\ i = j
    BY <1>1, <1>2, <1>3, <1>4, ZenonT(30) DEF OneParent
  <1>6. n = o
    BY <1>5 DEF Unique
  <1>7. QED
    BY <1>1, <1>2, <1>5, <1>6

LEMMA TablesAreLevels ==
  ASSUME TableForest(ram.mem, root)
  PROVE  /\ PagesAt(Roots) = RootPages(root) /\ Unique(Roots)
         /\ PagesAt(Middles) = MiddlePages(ram.mem, root) /\ Unique(Middles)
         /\ PagesAt(Lows) = LowPages(ram.mem, root) /\ Unique(Lows)
  <1>1. TableForest(ram.mem, root)
    OBVIOUS
  <1>2. PagesAt(Roots) = RootPages(root)
    <2>1. ASSUME NEW q \in PagesAt(Roots) PROVE q \in RootPages(root)
      BY DEF PagesAt, Roots, RootPages
    <2>2. ASSUME NEW q \in RootPages(root) PROVE q \in PagesAt(Roots)
      <3>1. PICK t \in Tables : root[t] = q /\ q # NULL
        BY DEF RootPages
      <3>2. <<<<t>>, root[t]>> \in Roots
        BY <3>1 DEF Roots
      <3>3. QED
        BY <3>1, <3>2 DEF PagesAt
    <2>3. QED
      BY <2>1, <2>2
  <1>3. Unique(Roots)
    <2> SUFFICES ASSUME NEW x \in Roots, NEW y \in Roots, x[2] = y[2]
                 PROVE  x = y
      BY DEF Unique
    <2>1. PICK t \in Tables : root[t] # NULL /\ x = <<<<t>>, root[t]>>
      BY DEF Roots
    <2>2. PICK u \in Tables : root[u] # NULL /\ y = <<<<u>>, root[u]>>
      BY DEF Roots
    <2>3. t = u
      BY <1>1, <2>1, <2>2 DEF TableForest, DistinctRoots
    <2>4. QED
      BY <2>1, <2>2, <2>3
  <1>4. PagesAt(Middles) = MiddlePages(ram.mem, root) /\ Unique(Middles)
    <2>1. Shape(ram.mem, PagesAt(Roots), {{"V"}}) /\ OneParent(ram.mem, PagesAt(Roots))
      BY <1>1, <1>2 DEF TableForest
    <2>2. PagesAt(Below(Roots)) = Kids(ram.mem, PagesAt(Roots)) /\ Unique(Below(Roots))
      BY <1>3, <2>1, BelowIsKids, BelowIsUnique
    <2>3. QED
      BY <1>2, <2>2 DEF Middles, MiddlePages
  <1>5. PagesAt(Lows) = LowPages(ram.mem, root) /\ Unique(Lows)
    <2>1. Shape(ram.mem, PagesAt(Middles), {{"V"}}) /\ OneParent(ram.mem, PagesAt(Middles))
      BY <1>1, <1>4 DEF TableForest
    <2>2. PagesAt(Below(Middles)) = Kids(ram.mem, PagesAt(Middles)) /\ Unique(Below(Middles))
      BY <1>4, <2>1, BelowIsKids, BelowIsUnique
    <2>3. QED
      BY <1>4, <2>2 DEF Lows, LowPages
  <1>6. QED
    BY <1>2, <1>3, <1>4, <1>5

LEMMA PlacesAreLevels ==
  ASSUME Well(ram, root, held)
  PROVE  /\ PagesAt(Roots) = RootPages(root) /\ Unique(Roots)
         /\ PagesAt(Middles) = MiddlePages(ram.mem, root) /\ Unique(Middles)
         /\ PagesAt(Lows) = LowPages(ram.mem, root) /\ Unique(Lows)
         /\ PagesAt(Leaves) = MappedPages(ram.mem, root) /\ Unique(Leaves)
         /\ Mapped = MappedPages(ram.mem, root)
  <1>1. Forest(ram.mem, root)
    BY DEF Well
  <1>2. /\ PagesAt(Roots) = RootPages(root) /\ Unique(Roots)
        /\ PagesAt(Middles) = MiddlePages(ram.mem, root) /\ Unique(Middles)
        /\ PagesAt(Lows) = LowPages(ram.mem, root) /\ Unique(Lows)
    BY <1>1, TablesAreLevels DEF Forest, TableForest
  <1>3. PagesAt(Leaves) = MappedPages(ram.mem, root) /\ Unique(Leaves)
    <2>1. Shape(ram.mem, PagesAt(Lows), Perms) /\ OneParent(ram.mem, PagesAt(Lows))
      BY <1>1, <1>2 DEF Forest
    <2>2. PagesAt(Below(Lows)) = Kids(ram.mem, PagesAt(Lows)) /\ Unique(Below(Lows))
      BY <1>2, <2>1, BelowIsKids, BelowIsUnique
    <2>3. QED
      BY <1>2, <2>2 DEF Leaves, MappedPages
  <1>4. Mapped = PagesAt(Leaves)
    BY DEF Mapped, PagesAt
  <1>5. QED
    BY <1>2, <1>3, <1>4

LEMMA OwnerStoreStep ==
  ASSUME IInv, NEW page \in Pages, NEW i \in Slots, NEW w \in Stores, OwnerStore(page, i, w)
  PROVE  IInv' /\ InUseNow' = InUseNow /\ Maps' = Maps
  <1> DEFINE s == [ram EXCEPT !.mem[page][i] = w]
  <1>1. /\ page \in held \cup Mapped /\ ram' = s
        /\ call' = NoCall /\ root' = root /\ held' = held /\ cpu' = cpu
    BY DEF OwnerStore
  <1>2. /\ Well(ram, root, held)
        /\ page \in held \cup MappedPages(ram.mem, root)
        /\ w \in Word
    BY <1>1, InvFacts, PlacesAreLevels, StoresAssumption
  <1>3. Well(s, root, held) /\ InUse(s, root, held) = InUse(ram, root, held) /\ SameMaps(ram.mem, s.mem, root)
    BY <1>2, WordStored
  <1> HIDE DEF s
  <1>4. IInv'
    BY <1>1, <1>3, InvFacts, KeepsInv
  <1>5. InUseNow' = InUseNow
    BY <1>1, <1>3, InUsePrimed DEF InUseNow
  <1>6. Maps' = Maps
    BY <1>1, <1>3, MapsKept DEF SameMaps
  <1>7. QED
    BY <1>4, <1>5, <1>6

LEMMA StutterStep ==
  ASSUME IInv, UNCHANGED vars
  PROVE  IInv' /\ InUseNow' = InUseNow /\ Maps' = Maps
  <1>1. /\ ram' = ram /\ root' = root /\ held' = held /\ call' = call /\ cpu' = cpu
    BY DEF vars
  <1>2. call \in {NoCall} \cup ({"add", "erase", "lookup"} \X Tables \X Keys \X (Pages \cup {-1, 0}))
    BY DEF IInv, TypeOK, Keys
  <1>3. IInv'
    BY <1>1, <1>2, InvFacts, KeepsInv
  <1>4. InUseNow' = InUseNow /\ Maps' = Maps
    BY <1>1, InUsePrimed, MapsKept DEF InUseNow
  <1>5. QED
    BY <1>3, <1>4

-----------------------------------------------------------------------------
(* Every step keeps the invariant. *)
LEMMA StepInv ==
  ASSUME IInv, [Next]_vars
  PROVE  IInv'
  <1>1. ASSUME NEW t \in Tables, Construct(t) PROVE IInv'
    BY <1>1, ConstructStep
  <1>2. ASSUME NEW t \in Tables, Destroy(t) PROVE IInv'
    BY <1>2, DestroyStep
  <1>3. ASSUME NEW t \in Tables, NEW va \in VAs, NEW pa \in Pages, NEW perm \in Perms,
               add(t, va, pa, perm)
        PROVE  IInv'
    BY <1>3, AddStep
  <1>4. ASSUME NEW t \in Tables, NEW va \in VAs, lookup(t, va) PROVE IInv'
    BY <1>4, LookupStep
  <1>5. ASSUME NEW t \in Tables, NEW va \in VAs, erase(t, va) PROVE IInv'
    BY <1>5, EraseStep
  <1>6. ASSUME AllocPage PROVE IInv'
    BY <1>6, AllocPageStep
  <1>7. ASSUME NEW page \in Pages, FreePage(page) PROVE IInv'
    BY <1>7, FreePageStep
  <1>8. ASSUME NEW page \in Pages, NEW i \in Slots, NEW w \in Stores, OwnerStore(page, i, w)
        PROVE  IInv'
    BY <1>8, OwnerStoreStep
  <1>9. ASSUME UNCHANGED vars PROVE IInv'
    BY <1>9, StutterStep
  <1>10. QED
    BY <1>1, <1>2, <1>3, <1>4, <1>5, <1>6, <1>7, <1>8, <1>9 DEF Next

(* The levels of the page tables stay a forest over pages that are neither *)
(* free nor held, whatever the calls, the clients and their stores do.     *)
THEOREM Invariance == Spec => []IInv
  BY InitInv, StepInv, PTL DEF Spec

(* Every table, entry and link holds a page address or nothing: no walk    *)
(* and no allocation ever follows a word of user data (vmm.cpp, pmm.cpp).  *)
THEOREM TypeCorrect == Spec => []TypeOK
  <1>1. IInv => TypeOK
    BY DEF IInv
  <1>2. QED
    BY <1>1, Invariance, PTL

(* The free list survives although page tables and data are written over   *)
(* the pages that were on it (pmm.cpp:36-58, vmm.cpp:89-150).              *)
THEOREM FreeListSafe == Spec => []FreeListIntact
  <1>1. IInv => FreeListIntact
    BY DEF IInv, Well, FreeListWF, FreeListIntact
  <1>2. QED
    BY <1>1, Invariance, PTL

-----------------------------------------------------------------------------
LEMMA UsedPagesAreInUse ==
  ASSUME IInv
  PROVE  UsedPages = InUseNow
  <1>1. UsedPages = FreeSet(ram) \cup held \cup PagesAt(Roots) \cup PagesAt(Middles)
                      \cup PagesAt(Lows) \cup PagesAt(Leaves)
    <2> DEFINE F == {<<<<"free">>, p>> : p \in FreeSet(ram)}
               H == {<<<<"held">>, p>> : p \in held}
    <2>1. PagesAt(F) = FreeSet(ram) /\ PagesAt(H) = held
      <3>1. \A p : p \in FreeSet(ram) => <<<<"free">>, p>>[2] = p
        OBVIOUS
      <3>2. \A p : p \in held => <<<<"held">>, p>>[2] = p
        OBVIOUS
      <3>3. QED
        BY <3>1, <3>2 DEF PagesAt
    <2>2. Uses = F \cup H \cup Roots \cup Middles \cup Lows \cup Leaves
      BY DEF Uses
    <2> HIDE DEF F, H
    <2>3. UsedPages = PagesAt(F) \cup PagesAt(H) \cup PagesAt(Roots) \cup PagesAt(Middles)
                        \cup PagesAt(Lows) \cup PagesAt(Leaves)
      BY <2>2 DEF UsedPages, PagesAt
    <2>4. QED
      BY <2>1, <2>3
  <1>2. QED
    BY <1>1, InvFacts, PlacesAreLevels DEF InUseNow, InUse

LEMMA UniqueUnion ==
  ASSUME NEW A, NEW B, Unique(A), Unique(B), PagesAt(A) \cap PagesAt(B) = {}
  PROVE  Unique(A \cup B) /\ PagesAt(A \cup B) = PagesAt(A) \cup PagesAt(B)
  BY DEF Unique, PagesAt

LEMMA TaggedIsUnique ==
  ASSUME NEW tag, NEW S
  PROVE  LET ns == {<<tag, p>> : p \in S} IN PagesAt(ns) = S /\ Unique(ns)
  <1> DEFINE ns == {<<tag, p>> : p \in S}
  <1>1. \A p \in S : <<tag, p>> \in ns /\ <<tag, p>>[2] = p
    OBVIOUS
  <1>2. \A n \in ns : \E p \in S : n = <<tag, p>>
    OBVIOUS
  <1>3. PagesAt(ns) = S
    <2> HIDE DEF ns
    <2>1. ASSUME NEW p \in S PROVE p \in PagesAt(ns)
      BY <1>1 DEF PagesAt
    <2>2. ASSUME NEW p \in PagesAt(ns) PROVE p \in S
      BY <1>1, <1>2 DEF PagesAt
    <2>3. QED
      BY <2>1, <2>2
  <1>4. Unique(ns)
    <2> HIDE DEF ns
    <2>1. QED
      BY <1>1, <1>2 DEF Unique
  <1>5. QED
    BY <1>3, <1>4

(* Places that are apart, and each of its own page: no page has two uses.   *)
LEMMA PlacesApart ==
  ASSUME Unique(Roots), Unique(Middles), Unique(Lows), Unique(Leaves),
         Apart(FreeSet(ram), held, PagesAt(Roots), PagesAt(Middles), PagesAt(Lows), PagesAt(Leaves))
  PROVE  OneUse
  <1> DEFINE F  == {<<<<"free">>, p>> : p \in FreeSet(ram)}
             H  == {<<<<"held">>, p>> : p \in held}
             U1 == F \cup H
             U2 == U1 \cup Roots
             U3 == U2 \cup Middles
             U4 == U3 \cup Lows
  <1>1. PagesAt(F) = FreeSet(ram) /\ Unique(F)
    BY TaggedIsUnique
  <1>2. PagesAt(H) = held /\ Unique(H)
    BY TaggedIsUnique
  <1>3. Uses = U4 \cup Leaves
    BY DEF Uses
  <1> HIDE DEF F, H
  <1>4. Unique(Roots) /\ Unique(Middles) /\ Unique(Lows) /\ Unique(Leaves)
    OBVIOUS
  <1>5. Apart(PagesAt(F), PagesAt(H), PagesAt(Roots), PagesAt(Middles), PagesAt(Lows), PagesAt(Leaves))
    BY <1>1, <1>2
  <1>6. Unique(U1) /\ PagesAt(U1) = PagesAt(F) \cup PagesAt(H)
    <2>1. PagesAt(F) \cap PagesAt(H) = {}
      BY <1>5 DEF Apart
    <2>2. QED
      BY <1>1, <1>2, <2>1, UniqueUnion
  <1> HIDE DEF U1
  <1>7. Unique(U2) /\ PagesAt(U2) = PagesAt(U1) \cup PagesAt(Roots)
    <2>1. PagesAt(U1) \cap PagesAt(Roots) = {}
      BY <1>5, <1>6 DEF Apart
    <2>2. QED
      BY <1>4, <1>6, <2>1, UniqueUnion
  <1> HIDE DEF U2
  <1>8. Unique(U3) /\ PagesAt(U3) = PagesAt(U2) \cup PagesAt(Middles)
    <2>1. PagesAt(U2) \cap PagesAt(Middles) = {}
      BY <1>5, <1>6, <1>7 DEF Apart
    <2>2. QED
      BY <1>4, <1>7, <2>1, UniqueUnion
  <1> HIDE DEF U3
  <1>9. Unique(U4) /\ PagesAt(U4) = PagesAt(U3) \cup PagesAt(Lows)
    <2>1. PagesAt(U3) \cap PagesAt(Lows) = {}
      BY <1>5, <1>6, <1>7, <1>8 DEF Apart
    <2>2. QED
      BY <1>4, <1>8, <2>1, UniqueUnion
  <1> HIDE DEF U4
  <1>10. Unique(Uses)
    <2>1. PagesAt(U4) \cap PagesAt(Leaves) = {}
      BY <1>5, <1>6, <1>7, <1>8, <1>9 DEF Apart
    <2>2. QED
      BY <1>3, <1>4, <1>9, <2>1, UniqueUnion
  <1>11. QED
    BY <1>10 DEF Unique, OneUse

LEMMA InvMeansOneUse ==
  ASSUME IInv
  PROVE  OneUse
  <1>1. Well(ram, root, held)
    BY InvFacts
  <1>2. Apart(FreeSet(ram), held, RootPages(root), MiddlePages(ram.mem, root),
              LowPages(ram.mem, root), MappedPages(ram.mem, root))
    BY <1>1 DEF Well
  <1>3. QED
    BY <1>1, <1>2, PlacesAreLevels, PlacesApart

(* No page has two uses at a time: the tables form trees that share        *)
(* nothing, and no mapped page is a table, is mapped a second time, is     *)
(* held or is on the free list (vmm.cpp:89-150).                           *)
THEOREM NoPageHasTwoUses == Spec => []OneUse
  BY InvMeansOneUse, Invariance, PTL

-----------------------------------------------------------------------------
(* A step that destroys no table keeps the set of pages in use. *)
LEMMA PagesInUseKept ==
  ASSUME IInv, [Next]_vars, \A t \in Tables : root[t] # NULL => root'[t] # NULL
  PROVE  InUseNow' = InUseNow
  <1>1. ASSUME NEW t \in Tables, Construct(t) PROVE InUseNow' = InUseNow
    BY <1>1, ConstructStep
  <1>2. ASSUME NEW t \in Tables, Destroy(t) PROVE FALSE
    <2>1. root[t] # NULL /\ root' = [root EXCEPT ![t] = NULL]
      BY <1>2 DEF Destroy
    <2>2. root'[t] = NULL
      BY <2>1, InvFacts
    <2>3. QED
      BY <2>1, <2>2
  <1>3. ASSUME NEW t \in Tables, NEW va \in VAs, NEW pa \in Pages, NEW perm \in Perms,
               add(t, va, pa, perm)
        PROVE  InUseNow' = InUseNow
    BY <1>3, AddStep
  <1>4. ASSUME NEW t \in Tables, NEW va \in VAs, lookup(t, va) PROVE InUseNow' = InUseNow
    BY <1>4, LookupStep
  <1>5. ASSUME NEW t \in Tables, NEW va \in VAs, erase(t, va) PROVE InUseNow' = InUseNow
    BY <1>5, EraseStep
  <1>6. ASSUME AllocPage PROVE InUseNow' = InUseNow
    BY <1>6, AllocPageStep
  <1>7. ASSUME NEW page \in Pages, FreePage(page) PROVE InUseNow' = InUseNow
    BY <1>7, FreePageStep
  <1>8. ASSUME NEW page \in Pages, NEW i \in Slots, NEW w \in Stores, OwnerStore(page, i, w)
        PROVE  InUseNow' = InUseNow
    BY <1>8, OwnerStoreStep
  <1>9. ASSUME UNCHANGED vars PROVE InUseNow' = InUseNow
    BY <1>9, StutterStep
  <1>10. QED
    BY <1>1, <1>2, <1>3, <1>4, <1>5, <1>6, <1>7, <1>8, <1>9 DEF Next

LEMMA UsedPagesPrimed == IInv' => UsedPages' = InUseNow'
  <1>1. (IInv => UsedPages = InUseNow)'
    BY UsedPagesAreInUse, PTL
  <1>2. QED
    BY <1>1

(* No call but ~PageTable, refused, successful or faulting, loses a page   *)
(* for good (vmm.cpp:56, :61, :124, :140).                                 *)
THEOREM OnlyDestroyLoses == Spec => OnlyDestroyLosesPages
  <1> DEFINE Kept == (\A t \in Tables : root[t] # NULL => root'[t] # NULL)
                       => UsedPages \subseteq UsedPages'
  <1>1. ASSUME IInv, [Next]_vars PROVE Kept
    <2> SUFFICES ASSUME \A t \in Tables : root[t] # NULL => root'[t] # NULL
                 PROVE  UsedPages \subseteq UsedPages'
      OBVIOUS
    <2>1. IInv'
      BY <1>1, StepInv
    <2>2. InUseNow' = InUseNow
      BY <1>1, PagesInUseKept
    <2>3. UsedPages = InUseNow /\ UsedPages' = InUseNow'
      BY <1>1, <2>1, UsedPagesAreInUse, UsedPagesPrimed
    <2>4. QED
      BY <2>2, <2>3
  <1>2. IInv /\ [Next]_vars => [Kept]_vars
    BY <1>1
  <1>3. QED
    BY <1>2, Invariance, PTL DEF Spec, OnlyDestroyLosesPages

-----------------------------------------------------------------------------
(* In a well-formed forest the hardware takes each entry for what the      *)
(* kernel meant: a pointer in the upper two levels, a leaf in the third.   *)
LEMMA PointersAndLeaves ==
  ASSUME NEW m, NEW rt, Forest(m, rt)
  PROVE  /\ \A p \in RootPages(rt) \cup MiddlePages(m, rt), i \in Slots :
              MMUPointer(m[p][i]) <=> isValid(m[p][i])
         /\ \A p \in LowPages(m, rt), i \in Slots :
              MMULeaf(m[p][i]) <=> isValid(m[p][i])
  <1>1. {"V"} \cap {"R", "W", "X"} = {}
    OBVIOUS
  <1>2. \A p \in RootPages(rt) \cup MiddlePages(m, rt), i \in Slots :
          isValid(m[p][i]) => m[p][i].flag = {"V"}
    BY DEF Forest, Shape
  <1>3. \A p \in LowPages(m, rt), i \in Slots : isValid(m[p][i]) => m[p][i].flag \in Perms
    BY DEF Forest, Shape
  <1>4. \A perm \in Perms : perm \cap {"R", "X"} # {}
    BY FlagSets
  <1>5. \A p \in RootPages(rt) \cup MiddlePages(m, rt), i \in Slots :
          isValid(m[p][i]) => m[p][i].flag \cap {"R", "W", "X"} = {}
    BY <1>1, <1>2
  <1>6. \A p \in LowPages(m, rt), i \in Slots : isValid(m[p][i]) => m[p][i].flag \cap {"R", "X"} # {}
    BY <1>3, <1>4
  <1>7. QED
    BY <1>5, <1>6 DEF MMUPointer, MMULeaf

LEMMA InvMeansAgreement ==
  ASSUME IInv
  PROVE  LookupAgreesWithMMU
  <1> SUFFICES ASSUME NEW t \in Tables, NEW va \in VAs, Canonical(va)
               PROVE  LET low == page_walk(ram.mem, root[t], va)
                      IN  MMUTranslate(ram.mem, make_satp(root[t]), va)
                            = (IF low = NULL THEN NULL ELSE ram.mem[low][vpn0(va)].pa)
    BY DEF LookupAgreesWithMMU
  <1> DEFINE m   == ram.mem
             rt  == root[t]
             mid == step(m, rt, vpn2(va))
             low == step(m, mid, vpn1(va))
  <1>1. Forest(m, root)
    BY InvFacts DEF Well
  <1>2. /\ vpn0(va) \in Slots /\ vpn1(va) \in Slots /\ vpn2(va) \in Slots
        /\ Key(va) \in Path
        /\ Key(va)[1] = vpn2(va) /\ Key(va)[2] = vpn1(va) /\ Key(va)[3] = vpn0(va)
    BY AddressesAreNumbers, IndicesAreSlots
  <1>3. /\ rt # NULL => rt \in RootPages(root)
        /\ mid # NULL => mid \in MiddlePages(m, root)
        /\ low # NULL => low \in LowPages(m, root)
    <2>1. root \in [Tables -> Pages \cup {NULL}] /\ Key(va) \in Path
      BY <1>2, InvFacts
    <2>2. LET i == step(m, root[t], Key(va)[1])
              l == step(m, i, Key(va)[2])
          IN  /\ root[t] # NULL => root[t] \in RootPages(root)
              /\ i # NULL => i \in MiddlePages(m, root)
              /\ l # NULL => l \in LowPages(m, root)
      BY <1>1, <2>1, WalkDescends
    <2>3. QED
      BY <1>2, <2>2
  <1>4. MMUNext(m, rt, vpn2(va)) = mid
    BY <1>1, <1>2, <1>3, PointersAndLeaves DEF MMUNext, step
  <1>5. MMUNext(m, mid, vpn1(va)) = low
    <2> HIDE DEF mid
    <2>1. mid # NULL => (MMUPointer(m[mid][vpn1(va)]) <=> isValid(m[mid][vpn1(va)]))
      BY <1>1, <1>2, <1>3, PointersAndLeaves
    <2>2. QED
      BY <2>1 DEF MMUNext, step
  <1> HIDE DEF mid
  <1>6. low # NULL => (MMULeaf(m[low][vpn0(va)]) <=> isValid(m[low][vpn0(va)]))
    <2> HIDE DEF low
    <2>1. QED
      BY <1>1, <1>2, <1>3, PointersAndLeaves
  <1>7. MMUTranslate(m, make_satp(rt), va)
          = IF low # NULL /\ MMULeaf(m[low][vpn0(va)]) THEN m[low][vpn0(va)].pa ELSE NULL
    BY <1>4, <1>5 DEF MMUTranslate, make_satp
  <1>8. page_walk(m, rt, va) = IF low # NULL /\ isValid(m[low][vpn0(va)]) THEN low ELSE NULL
    BY DEF page_walk, mid
  <1> HIDE DEF low
  <1>9. QED
    BY <1>6, <1>7, <1>8

(* lookup answers what the hardware would do with the same root, for every *)
(* canonical address (vmm.cpp:61, riscv.hpp's Sv39): the permission bits   *)
(* of add make every mapping a leaf, and those of a table make it a        *)
(* pointer, also over pages that held something else before.               *)
THEOREM LookupIsTranslation == Spec => []LookupAgreesWithMMU
  BY InvMeansAgreement, Invariance, PTL

-----------------------------------------------------------------------------
LEMMA SpaceInit == Init => Space!Init
  <1> SUFFICES ASSUME Init PROVE Space!Init
    OBVIOUS
  <1>1. root = [t \in Tables |-> NULL] /\ call = NoCall /\ cpu = "running"
    BY DEF Init
  <1>2. \A t \in Tables, k \in Keys : EntryAt(ram.mem, root[t], k) = INVALID_PTE
    BY <1>1 DEF EntryAt, step
  <1>3. Maps = [t \in Tables |-> [k \in Keys |-> INVALID_PTE]]
    BY <1>2, MapsAreEntries
  <1>4. QED
    BY <1>1, <1>3 DEF Space!Init, Space!Empty, Space!NoCall, NoCall, Keys

(* What AddressSpace allows, read off the maps. *)
LEMMA OtherAllowed ==
  ASSUME cpu = "running", cpu' = "running", call' = NoCall, Maps' = Maps
  PROVE  Space!Next
  <1>1. Space!Other
    BY DEF Space!Other, Space!NoCall, NoCall
  <1>2. QED
    BY <1>1 DEF Space!Next

LEMMA HaltAllowed ==
  ASSUME cpu = "running", cpu' = "halted", call' = NoCall, Maps' = Maps
  PROVE  Space!Next
  <1>1. Space!Halt
    BY DEF Space!Halt, Space!NoCall, NoCall
  <1>2. QED
    BY <1>1 DEF Space!Next

LEMMA DestroyAllowed ==
  ASSUME cpu = "running", cpu' = "running", call' = NoCall, NEW t \in Tables,
         Maps' = [Maps EXCEPT ![t] = [k \in Keys |-> INVALID_PTE]]
  PROVE  Space!Next
  <1>1. Space!Destroy(t)
    BY DEF Space!Destroy, Space!Empty, Space!NoCall, NoCall, Keys
  <1>2. QED
    BY <1>1 DEF Space!Next

LEMMA CallAllowed ==
  ASSUME cpu = "running", cpu' = "running", NEW t \in Tables, NEW k \in Keys,
         \/ /\ Maps[t][k] = INVALID_PTE
            /\ call' = <<"add", t, k, 0>>
            /\ \E pa \in Pages, perm \in Perms : Maps' = [Maps EXCEPT ![t][k] = PageTableEntry(pa, perm)]
         \/ Maps[t][k] # INVALID_PTE /\ call' = <<"add", t, k, -1>> /\ Maps' = Maps
         \/ /\ Maps[t][k] # INVALID_PTE
            /\ call' = <<"erase", t, k, 0>>
            /\ Maps' = [Maps EXCEPT ![t][k] = INVALID_PTE]
         \/ Maps[t][k] = INVALID_PTE /\ call' = <<"erase", t, k, -1>> /\ Maps' = Maps
         \/ call' = <<"lookup", t, k, Maps[t][k].pa>> /\ Maps' = Maps
  PROVE  Space!Next
  <1>1. ASSUME Maps[t][k] = INVALID_PTE, call' = <<"add", t, k, 0>>,
               NEW pa \in Pages, NEW perm \in Perms,
               Maps' = [Maps EXCEPT ![t][k] = PageTableEntry(pa, perm)]
        PROVE  Space!Add(t, k)
    <2> DEFINE w == PageTableEntry(pa, perm)
    <2>1. w \in Entries
      BY DEF Entries
    <2>2. Maps' = [Maps EXCEPT ![t][k] = w]
      BY <1>1
    <2> HIDE DEF w
    <2>3. QED
      BY <1>1, <2>1, <2>2 DEF Space!Add
  <1>2. ASSUME Maps[t][k] # INVALID_PTE, call' = <<"add", t, k, -1>>, Maps' = Maps
        PROVE  Space!Add(t, k)
    BY <1>2 DEF Space!Add
  <1>3. ASSUME Maps[t][k] # INVALID_PTE, call' = <<"erase", t, k, 0>>,
               Maps' = [Maps EXCEPT ![t][k] = INVALID_PTE]
        PROVE  Space!Erase(t, k)
    BY <1>3 DEF Space!Erase
  <1>4. ASSUME Maps[t][k] = INVALID_PTE, call' = <<"erase", t, k, -1>>, Maps' = Maps
        PROVE  Space!Erase(t, k)
    BY <1>4 DEF Space!Erase
  <1>5. ASSUME call' = <<"lookup", t, k, Maps[t][k].pa>>, Maps' = Maps
        PROVE  Space!Lookup(t, k)
    BY <1>5 DEF Space!Lookup
  <1>6. Space!Add(t, k) \/ Space!Erase(t, k) \/ Space!Lookup(t, k)
    BY <1>1, <1>2, <1>3, <1>4, <1>5
  <1>7. QED
    BY <1>6 DEF Space!Next

LEMMA SpaceStep ==
  ASSUME IInv, [Next]_vars
  PROVE  [Space!Next]_(Space!vars)
  <1>1. ASSUME NEW t \in Tables, Construct(t) PROVE Space!Next
    <2>1. cpu = "running" /\ cpu' \in {"running", "halted"} /\ call' = NoCall
      BY <1>1 DEF Construct, Running
    <2>2. Maps' = Maps
      BY <1>1, ConstructStep
    <2>3. QED
      BY <2>1, <2>2, OtherAllowed, HaltAllowed
  <1>2. ASSUME NEW t \in Tables, Destroy(t) PROVE Space!Next
    <2>1. cpu = "running" /\ cpu' = "running" /\ call' = NoCall
      BY <1>2 DEF Destroy, Running
    <2>2. Maps' = [Maps EXCEPT ![t] = [k \in Keys |-> INVALID_PTE]]
      BY <1>2, DestroyStep
    <2>3. QED
      BY <2>1, <2>2, DestroyAllowed
  <1>3. ASSUME NEW t \in Tables, NEW va \in VAs, NEW pa \in Pages, NEW perm \in Perms,
               add(t, va, pa, perm)
        PROVE  Space!Next
    <2> DEFINE k == Key(va)
    <2>1. cpu = "running" /\ k \in Keys
      BY <1>3 DEF add, Running, Keys
    <2>2. \/ cpu' = "halted" /\ call' = NoCall /\ Maps' = Maps
          \/ /\ cpu' = "running" /\ Maps[t][k] # INVALID_PTE
             /\ call' = <<"add", t, k, -1>> /\ Maps' = Maps
          \/ /\ cpu' = "running" /\ Maps[t][k] = INVALID_PTE
             /\ call' = <<"add", t, k, 0>>
             /\ Maps' = [Maps EXCEPT ![t][k] = PageTableEntry(pa, perm)]
      BY <1>3, AddStep
    <2> HIDE DEF k
    <2>3. QED
      BY <2>1, <2>2, CallAllowed, HaltAllowed
  <1>4. ASSUME NEW t \in Tables, NEW va \in VAs, lookup(t, va) PROVE Space!Next
    <2> DEFINE k == Key(va)
    <2>1. k \in Keys
      BY DEF Keys
    <2>2. /\ cpu = "running" /\ cpu' = "running"
          /\ call' = <<"lookup", t, k, Maps[t][k].pa>> /\ Maps' = Maps
      BY <1>4, LookupStep
    <2> HIDE DEF k
    <2>3. QED
      BY <2>1, <2>2, CallAllowed
  <1>5. ASSUME NEW t \in Tables, NEW va \in VAs, erase(t, va) PROVE Space!Next
    <2> DEFINE k == Key(va)
    <2>1. k \in Keys
      BY DEF Keys
    <2>2. /\ cpu = "running" /\ cpu' = "running"
          /\ \/ /\ Maps[t][k] = INVALID_PTE
                /\ call' = <<"erase", t, k, -1>>
                /\ Maps' = Maps
             \/ /\ Maps[t][k] # INVALID_PTE
                /\ call' = <<"erase", t, k, 0>>
                /\ Maps' = [Maps EXCEPT ![t][k] = INVALID_PTE]
      BY <1>5, EraseStep
    <2> HIDE DEF k
    <2>3. QED
      BY <2>1, <2>2, CallAllowed
  <1>6. ASSUME AllocPage PROVE Space!Next
    <2>1. cpu = "running" /\ cpu' = "running" /\ call' = NoCall
      BY <1>6 DEF AllocPage, Running
    <2>2. Maps' = Maps
      BY <1>6, AllocPageStep
    <2>3. QED
      BY <2>1, <2>2, OtherAllowed
  <1>7. ASSUME NEW page \in Pages, FreePage(page) PROVE Space!Next
    <2>1. cpu = "running" /\ cpu' = "running" /\ call' = NoCall
      BY <1>7 DEF FreePage, Running
    <2>2. Maps' = Maps
      BY <1>7, FreePageStep
    <2>3. QED
      BY <2>1, <2>2, OtherAllowed
  <1>8. ASSUME NEW page \in Pages, NEW i \in Slots, NEW w \in Stores, OwnerStore(page, i, w)
        PROVE  Space!Next
    <2>1. cpu = "running" /\ cpu' = "running" /\ call' = NoCall
      BY <1>8 DEF OwnerStore, Running
    <2>2. Maps' = Maps
      BY <1>8, OwnerStoreStep
    <2>3. QED
      BY <2>1, <2>2, OtherAllowed
  <1>9. ASSUME UNCHANGED vars PROVE UNCHANGED Space!vars
    <2>1. call' = call /\ cpu' = cpu
      BY <1>9 DEF vars
    <2>2. Maps' = Maps
      BY <1>9, StutterStep
    <2>3. QED
      BY <2>1, <2>2 DEF Space!vars
  <1>10. QED
    BY <1>1, <1>2, <1>3, <1>4, <1>5, <1>6, <1>7, <1>8, <1>9 DEF Next

(* The page tables in memory implement one partial map per PageTable:      *)
(* add refuses a present key, erase and lookup an absent one, no call      *)
(* touches another key or table, and no store of a page's owner is seen    *)
(* through any of them (vmm.hpp, vmm.cpp:51-150).                          *)
THEOREM Refinement == Spec => ImplementsAddressSpace
  <1>1. Init => Space!Init
    BY SpaceInit
  <1>2. IInv /\ [Next]_vars => [Space!Next]_(Space!vars)
    BY SpaceStep
  <1>3. QED
    BY <1>1, <1>2, Invariance, PTL DEF Spec, ImplementsAddressSpace, Space!Spec
=============================================================================
