--------------------------- MODULE Process_proofs ---------------------------
(***************************************************************************)
(* For every RAM, page size, address width and set of images: the loader   *)
(* has counted right and has bytes left for every page it takes, a process *)
(* it has loaded has its pages mapped with the rights of its segments.     *)
(* The second is not inductive: the loader maps the NULL of an exhausted   *)
(* allocator and ignores that add refused a page, so the invariant says of *)
(* every moment of the loop which page is whose.                           *)
(***************************************************************************)
EXTENDS Process, Vmm_proofs

ReadExec  == {"R", "X"}
ReadWrite == {"R", "W"}
Rights    == {"R", "W", "X"}

Infos == [code_addr : Nat, code_page_num : Nat, data_addr : Nat]

Loaders ==
  [pc : {"segment", "page", "add", "copy", "entry", "loaded", "undefined"},
   t : Tables, image : Images, i : Nat \ {0}, j : Nat, remaining : Nat,
   dest : Pages \cup {NULL}, info : Infos]

(* What the loop over the pages of a segment keeps true of its variables.  *)
Counting(a) ==
  a.pc \in {"page", "add", "copy"} =>
    LET seg == a.image[a.i]
    IN  /\ a.i \in 1 .. Len(a.image)
        /\ seg.load = TRUE
        /\ seg.flags \in {ReadExec, ReadWrite}
        /\ a.pc # "page" => a.j < pages_need(seg)
        /\ seg.memsz > 0 /\ seg.vaddr + seg.memsz <= UINT64 /\ a.j < pages_need(seg)
             => a.remaining = seg.memsz - a.j * PGSIZE
        /\ seg.memsz = 0 => a.pc = "page" /\ a.remaining = 0

(* An entry with the rights of a segment of the image that is loaded. *)
Rightful(e, image) ==
  \E s \in 1 .. Len(image) : image[s].load = TRUE /\ e.flag \cap Rights = image[s].flags

(* The forest while the loader is at a.  A page between add and memcpy is  *)
(* mapped, or it is still the loader's, which has just forgotten it.       *)
Safe(r, rt, h, a) ==
  /\ Well(r, rt, h)
  /\ a # Idle => rt[a.t] # NULL
  /\ \A u \in Tables, k \in Path :
       \/ EntryAt(r.mem, rt[u], k) = INVALID_PTE
       \/ a # Idle /\ u = a.t /\ Rightful(EntryAt(r.mem, rt[u], k), a.image)
  /\ a.pc = "add" /\ a.dest # NULL => a.dest \in h
  /\ a.pc = "copy" => \/ Well(r, rt, h \cup {a.dest})
                      \/ a.dest \in MappedPages(r.mem, rt)

(* The loader has mapped NULL and is about to store through it. *)
Doomed(a) == a.pc = "copy" /\ a.dest = NULL

PInv ==
  /\ at \in Loaders \cup {Idle}
  /\ Counting(at)
  /\ at.pc = "loaded" => cpu = "running"
  /\ cpu = "running" /\ ~Doomed(at) => Safe(ram, root, held, at)

-----------------------------------------------------------------------------
(* Arithmetic of the loop: a segment that ends within the address space    *)
(* never has more pages in pages_need than bytes.                          *)
LEMMA DivBounds ==
  ASSUME NEW x \in Nat, NEW p \in Nat, p > 0
  PROVE  x \div p \in Nat /\ p * (x \div p) <= x /\ x < p * (x \div p) + p
  OBVIOUS

LEMMA ModOfSmall ==
  ASSUME NEW x \in Nat, NEW n \in Nat, x < n
  PROVE  x % n = x
  OBVIOUS

LEMMA ProductGrows ==
  ASSUME NEW x \in Nat, NEW p \in Nat, p > 0
  PROVE  p * x >= x
  <1>1. (p - 1) * x >= 0
    <2>1. p - 1 \in Nat
      OBVIOUS
    <2>2. \A a, b \in Nat : a * b >= 0
      OBVIOUS
    <2> QED
      BY <2>1, <2>2
  <1>2. p * x = (p - 1) * x + x
    OBVIOUS
  <1>3. (p - 1) * x \in Int /\ p * x \in Int
    OBVIOUS
  <1>4. QED
    BY <1>1, <1>2, <1>3

LEMMA ProductMonotone ==
  ASSUME NEW x \in Nat, NEW y \in Nat, NEW p \in Nat, x <= y
  PROVE  p * x <= p * y
  <1>1. \A a, b \in Nat : a * b >= 0
    OBVIOUS
  <1>2. p * (y - x) >= 0 /\ p * (y - x) = p * y - p * x
    BY <1>1
  <1>3. p * x \in Int /\ p * y \in Int
    OBVIOUS
  <1>4. QED
    BY <1>2, <1>3

LEMMA SegmentArithmetic ==
  ASSUME NEW seg \in Segments, seg.memsz > 0, seg.vaddr + seg.memsz <= UINT64,
         NEW j \in Nat, j < pages_need(seg)
  PROVE  seg.memsz > j * PGSIZE
  <1> DEFINE v == seg.vaddr
             m == seg.memsz
             p == PGSIZE
             a == (v + m - 1) \div p
             b == v \div p
             d == a - b
  <1>1. v \in Nat /\ m \in Nat /\ m > 0 /\ p \in Nat /\ p > 0 /\ UINT64 \in Nat /\ v + m <= UINT64
    BY ImageAssumption, AddressAssumption, PageSizeAssumption DEF Segments
  <1>2. Span(seg) = (((v + m - 1) % UINT64) \div p - b) % UINT64
    BY DEF Span, PAGE_NUMBER
  <1>3. pages_need(seg) = Span(seg) \div p + 1
    BY DEF pages_need
  <1> HIDE DEF v, m, p
  <1>4. v + m - 1 \in Nat /\ v + m - 1 < UINT64 /\ v <= v + m - 1
    BY <1>1
  <1>5. (v + m - 1) % UINT64 = v + m - 1
    BY <1>1, <1>4, ModOfSmall
  <1>6. /\ a \in Nat /\ p * a <= v + m - 1 /\ v + m - 1 < p * a + p
        /\ b \in Nat /\ p * b <= v /\ v < p * b + p
    BY <1>1, <1>4, DivBounds
  <1> HIDE DEF a, b
  <1>7. b <= a
    <2> SUFFICES ASSUME a + 1 <= b PROVE FALSE
      BY <1>6
    <2>1. p * (a + 1) <= p * b
      BY <1>1, <1>6, ProductMonotone
    <2>2. p * (a + 1) = p * a + p
      BY <1>1, <1>6
    <2>3. p * a \in Int /\ p * b \in Int
      BY <1>1, <1>6
    <2>4. QED
      BY <1>1, <1>4, <1>6, <2>1, <2>2, <2>3
  <1>8. d \in Nat /\ p * d = p * a - p * b
    BY <1>1, <1>6, <1>7
  <1>9. p * d <= m + p - 2
    <2>1. p * a \in Int /\ p * b \in Int /\ p * d \in Int
      BY <1>1, <1>6, <1>8
    <2>2. QED
      BY <1>1, <1>6, <1>8, <2>1
  <1>10. d < m
    <2>1. CASE d = 0
      BY <1>1, <2>1
    <2>2. CASE d > 0
      <3>1. d - 1 \in Nat /\ p * (d - 1) = p * d - p /\ p * d \in Int
        BY <1>1, <1>8, <2>2
      <3>2. p * (d - 1) >= d - 1
        BY <1>1, <3>1, ProductGrows
      <3> HIDE DEF d
      <3>3. QED
        BY <1>1, <1>8, <1>9, <3>1, <3>2
    <2>3. QED
      BY <1>8, <2>1, <2>2
  <1>11. Span(seg) = d
    <2>1. d < UINT64 /\ d \in Nat
      BY <1>1, <1>8, <1>10
    <2>2. Span(seg) = d % UINT64
      BY <1>2, <1>5 DEF a
    <2> HIDE DEF d
    <2>3. QED
      BY <1>1, <2>1, <2>2, ModOfSmall
  <1>12. d \div p \in Nat /\ p * (d \div p) <= d /\ j <= d \div p
    <2> HIDE DEF d
    <2>1. QED
      BY <1>1, <1>3, <1>8, <1>11, DivBounds
  <1>13. p * j <= p * (d \div p)
    <2> DEFINE c == d \div p
    <2>1. c \in Nat /\ j <= c
      BY <1>12
    <2> HIDE DEF c
    <2>2. p * j <= p * c
      BY <1>1, <2>1, ProductMonotone
    <2>3. QED
      BY <2>2 DEF c
  <1>14. p * j <= d
    <2>1. p * j \in Int /\ p * (d \div p) \in Int
      BY <1>1, <1>12
    <2> HIDE DEF d
    <2>2. QED
      BY <1>8, <1>12, <1>13, <2>1
  <1>15. m > j * p
    <2>1. p * j = j * p /\ p * j \in Int
      BY <1>1
    <2> HIDE DEF d
    <2>2. QED
      BY <1>1, <1>8, <1>10, <1>14, <2>1
  <1>16. QED
    BY <1>15 DEF m, p
-----------------------------------------------------------------------------
(* Typing of a segment and of what the loader computes from it. *)
LEMMA IdleFacts == Idle.pc = "idle" /\ Idle \notin Loaders
  BY DEF Idle, Loaders

LEMMA SegmentTyped ==
  ASSUME NEW a \in Loaders, a.i \in 1 .. Len(a.image)
  PROVE  a.image[a.i] \in Segments
  <1>1. a.image \in Seq(Segments)
    BY ImageAssumption, AddressAssumption DEF Loaders
  <1>2. QED
    BY <1>1

LEMMA SegmentNumbers ==
  ASSUME NEW seg \in Segments, NEW j \in Nat
  PROVE  /\ seg.memsz \in Nat
         /\ PAGE_NUMBER(seg.vaddr) \in Nat
         /\ pages_need(seg) \in Nat
         /\ page_va(seg, j) \in Nat
  <1>1. /\ seg.vaddr \in Nat /\ seg.memsz \in Nat /\ UINT64 \in Nat /\ UINT64 > 0
        /\ PGSIZE \in Nat /\ PGSIZE > 0
    BY ImageAssumption, AddressAssumption, PageSizeAssumption DEF Segments
  <1>2. PAGE_NUMBER(seg.vaddr) \in Nat
    BY <1>1, DivBounds DEF PAGE_NUMBER
  <1>3. \A x \in Int : x % UINT64 \in Nat
    BY <1>1
  <1>4. (seg.vaddr + seg.memsz - 1) % UINT64 \in Nat
    BY <1>1, <1>3
  <1>5. PAGE_NUMBER((seg.vaddr + seg.memsz - 1) % UINT64) \in Nat
    BY <1>1, <1>4, DivBounds DEF PAGE_NUMBER
  <1>6. Span(seg) \in Nat
    BY <1>2, <1>3, <1>5 DEF Span
  <1>7. pages_need(seg) \in Nat
    <2>1. Span(seg) \div PGSIZE \in Nat
      BY <1>1, <1>6, DivBounds
    <2>2. QED
      BY <2>1 DEF pages_need
  <1>8. page_va(seg, j) \in Nat
    <2>1. j * PGSIZE \in Nat
      BY <1>1
    <2>2. QED
      BY <1>2, <2>1 DEF page_va
  <1>9. QED
    BY <1>1, <1>2, <1>7, <1>8

LEMMA RecordTyped ==
  ASSUME NEW info \in Infos, NEW seg \in Segments
  PROVE  Record(info, seg) \in Infos
  <1>1. PAGE_NUMBER(seg.vaddr) \in Nat /\ pages_need(seg) \in Nat
    BY SegmentNumbers
  <1>2. QED
    BY <1>1 DEF Record, Infos

(* The rights of a page are those of its segment, for the two kinds of     *)
(* segment the loader takes.                                               *)
LEMMA PermOfSegment ==
  ASSUME NEW seg, seg.flags \in {ReadExec, ReadWrite}
  PROVE  perm(seg) \in Perms /\ perm(seg) \cap Rights = seg.flags
  <1>1. CASE seg.flags = ReadExec
    <2>1. perm(seg) = permission_code(FALSE, TRUE, TRUE, TRUE, FALSE)
      BY <1>1 DEF perm, ReadExec
    <2>2. permission_code(FALSE, TRUE, TRUE, TRUE, FALSE) \cap Rights = ReadExec
      BY DEF permission_code, Rights, ReadExec
    <2>3. QED
      BY <1>1, <2>1, <2>2, LoaderAssumption
  <1>2. CASE seg.flags = ReadWrite
    <2>1. seg.flags # {"R", "X"}
      BY <1>2 DEF ReadWrite
    <2>2. perm(seg) = permission_code(TRUE, TRUE, FALSE, TRUE, FALSE)
      BY <2>1 DEF perm
    <2>3. permission_code(TRUE, TRUE, FALSE, TRUE, FALSE) \cap Rights = ReadWrite
      BY DEF permission_code, Rights, ReadWrite
    <2>4. QED
      BY <1>2, <2>2, <2>3, LoaderAssumption
  <1>3. QED
    BY <1>1, <1>2

-----------------------------------------------------------------------------
(* How the invariant is established and kept.                              *)
LEMMA SafePrimed == Safe(ram, root, held, at)' <=> Safe(ram', root', held', at')
  BY DEF Safe, Rightful, EntryAt, step,
     Well, Typed, Forest, Apart, FreeListWF, FreeSet, RootPages, MiddlePages,
     LowPages, MappedPages, Kids, Shape, OneParent, DistinctRoots,
     LinksSpellHistory, NoRepeat, FreeHead, FreeAfter

LEMMA KeepsPInv ==
  ASSUME at' \in Loaders \cup {Idle}, Counting(at'),
         at'.pc = "loaded" => cpu' = "running",
         cpu' = "running" /\ ~Doomed(at') => Safe(ram', root', held', at')
  PROVE  PInv'
  <1>1. Counting(at)' <=> Counting(at')
    BY DEF Counting
  <1>2. Doomed(at)' <=> Doomed(at')
    BY DEF Doomed
  <1>3. QED
    BY <1>1, <1>2, SafePrimed DEF PInv

LEMMA PFacts ==
  ASSUME PInv, Running, ~Doomed(at)
  PROVE  /\ at \in Loaders \cup {Idle}
         /\ Counting(at)
         /\ Safe(ram, root, held, at)
         /\ Well(ram, root, held)
         /\ cpu = "running"
  BY DEF PInv, Running, Safe

LEMMA InitPInv == PInit => PInv
  <1> SUFFICES ASSUME PInit PROVE PInv
    OBVIOUS
  <1>1. Init /\ at = Idle
    BY DEF PInit
  <1>2. Well(ram, root, held)
    BY <1>1, InitInv, InvFacts
  <1>3. \A u \in Tables : root[u] = NULL
    BY <1>1, SMTT(30) DEF Init
  <1>4. \A u \in Tables, k \in Path : EntryAt(ram.mem, root[u], k) = INVALID_PTE
    BY <1>3, ZenonT(30) DEF EntryAt, step
  <1>5. Safe(ram, root, held, at)
    BY <1>1, <1>2, <1>4, IdleFacts DEF Safe
  <1>6. QED
    BY <1>1, <1>5, IdleFacts DEF PInv, Counting

(* A step of the loop that touches no page. *)
LEMMA ControlSafe ==
  ASSUME NEW r, NEW rt, NEW h, NEW a, NEW b, Safe(r, rt, h, a),
         a # Idle, b # Idle, b.t = a.t, b.image = a.image,
         b.pc # "add", b.pc # "copy"
  PROVE  Safe(r, rt, h, b)
  BY DEF Safe

LEMMA StopStep ==
  ASSUME PInv, Stop, at.pc # "loaded"
  PROVE  PInv'
  <1>1. cpu' = "halted" /\ at' = at
    BY DEF Stop
  <1>2. cpu' # "running"
    BY <1>1
  <1>3. QED
    BY <1>1, <1>2, KeepsPInv DEF PInv

(* A step of the loader that leaves the machine alone. *)
LEMMA ControlStep ==
  ASSUME PInv, Running, ~Doomed(at), at # Idle,
         UNCHANGED <<ram, root, held, cpu>>,
         at' \in Loaders, at'.t = at.t, at'.image = at.image,
         at'.pc # "add", at'.pc # "copy", Counting(at')
  PROVE  PInv'
  <1>1. Safe(ram, root, held, at) /\ cpu = "running"
    BY PFacts
  <1> DEFINE b == at'
  <1>2. at' # Idle
    BY IdleFacts
  <1>3. b # Idle /\ b.t = at.t /\ b.image = at.image /\ b.pc # "add" /\ b.pc # "copy"
    BY <1>2
  <1> HIDE DEF b
  <1>4. Safe(ram, root, held, b)
    BY <1>1, <1>3, ControlSafe
  <1>5. Safe(ram', root', held', at')
    BY <1>4 DEF b
  <1>6. cpu' = "running"
    BY <1>1
  <1>7. QED
    BY <1>5, <1>6, KeepsPInv
-----------------------------------------------------------------------------
(* What each action does to the invariant.                                 *)
LEMMA NewProcessStep ==
  ASSUME PInv, NEW t \in Tables, NewProcess(t)
  PROVE  PInv'
  <1> DEFINE a == alloc_empty_page(ram)
             s == [root EXCEPT ![t] = a.page]
  <1>1. /\ at = Idle /\ at' = at /\ cpu = "running"
        /\ root[t] = NULL
        /\ ram' = a.ram /\ root' = s /\ held' = held
    BY DEF NewProcess, Construct, Running
  <1>2. ~Doomed(at)
    BY <1>1, IdleFacts DEF Doomed
  <1>3. Well(ram, root, held) /\ Safe(ram, root, held, at)
    BY <1>1, <1>2, PFacts DEF Running
  <1>4. /\ Well(a.ram, s, held)
        /\ \A u \in Tables, k \in Path : EntryAt(a.ram.mem, s[u], k) = EntryAt(ram.mem, root[u], k)
    <2>1. t \in Tables /\ root[t] = NULL
      BY <1>1
    <2> HIDE DEF a, s
    <2>2. LET b == alloc_empty_page(ram)
              q == [root EXCEPT ![t] = b.page]
          IN  /\ Well(b.ram, q, held)
              /\ InUse(b.ram, q, held) = InUse(ram, root, held)
              /\ \A u \in Tables, k \in Path : EntryAt(b.ram.mem, q[u], k) = EntryAt(ram.mem, root[u], k)
      BY <1>3, <2>1, RootConstructed
    <2>3. QED
      BY <2>2 DEF a, s
  <1> HIDE DEF a, s
  <1>5. \A u \in Tables, k \in Path : EntryAt(ram.mem, root[u], k) = INVALID_PTE
    BY <1>1, <1>3 DEF Safe
  <1>6. Safe(a.ram, s, held, Idle)
    BY <1>4, <1>5, IdleFacts DEF Safe
  <1>7. Counting(Idle)
    BY IdleFacts DEF Counting
  <1>8. QED
    BY <1>1, <1>6, <1>7, IdleFacts, KeepsPInv

LEMMA EndProcessStep ==
  ASSUME PInv, NEW t \in Tables, EndProcess(t)
  PROVE  PInv'
  <1> DEFINE s == [root EXCEPT ![t] = NULL]
  <1>1. /\ at = Idle \/ (at.pc = "loaded" /\ at.t = t)
        /\ at' = Idle /\ root' = s /\ cpu = "running"
        /\ UNCHANGED <<ram, held, cpu>>
    BY DEF EndProcess, Destroy, Running
  <1>2. ~Doomed(at)
    BY <1>1, IdleFacts DEF Doomed
  <1>3. Well(ram, root, held) /\ Safe(ram, root, held, at)
    BY <1>1, <1>2, PFacts DEF Running
  <1>4. /\ Well(ram, s, held)
        /\ \A u \in Tables, k \in Path :
             EntryAt(ram.mem, s[u], k) = IF u = t THEN INVALID_PTE ELSE EntryAt(ram.mem, root[u], k)
    BY <1>3, RootDropped
  <1> HIDE DEF s
  <1>5. \A u \in Tables, k \in Path : u # t => EntryAt(ram.mem, root[u], k) = INVALID_PTE
    BY <1>1, <1>3 DEF Safe
  <1>6. \A u \in Tables, k \in Path : EntryAt(ram.mem, s[u], k) = INVALID_PTE
    BY <1>4, <1>5
  <1>7. Safe(ram, s, held, Idle)
    BY <1>4, <1>6, IdleFacts DEF Safe
  <1>8. Counting(Idle)
    BY IdleFacts DEF Counting
  <1>9. QED
    BY <1>1, <1>7, <1>8, IdleFacts, KeepsPInv

LEMMA LoadStep ==
  ASSUME PInv, NEW t \in Tables, NEW elf \in BOOLEAN, NEW image \in Images,
         load_from_elf(t, elf, image)
  PROVE  PInv'
  <1>1. cpu = "running" /\ at = Idle /\ root[t] # NULL
    BY DEF load_from_elf, Running
  <1>2. ~Doomed(at)
    BY <1>1, IdleFacts DEF Doomed
  <1>3. Safe(ram, root, held, at)
    BY <1>1, <1>2, PFacts DEF Running
  <1>4. CASE Stop
    BY <1>1, <1>4, IdleFacts, StopStep
  <1>5. CASE /\ at' = [pc |-> "segment", t |-> t, image |-> image, i |-> 1, j |-> 0,
                       remaining |-> 0, dest |-> NULL, info |-> NoInfo]
             /\ UNCHANGED <<ram, root, held, cpu>>
    <2>1. NoInfo \in Infos
      BY DEF NoInfo, Infos
    <2> DEFINE b == [pc |-> "segment", t |-> t, image |-> image, i |-> 1, j |-> 0,
                     remaining |-> 0, dest |-> NULL, info |-> NoInfo]
    <2>2. b \in Loaders /\ b.pc = "segment" /\ b.t = t
      BY <2>1 DEF Loaders
    <2>3. at' = b
      BY <1>5
    <2> HIDE DEF b
    <2>4. b # Idle
      BY <2>2, IdleFacts
    <2>5. Safe(ram, root, held, b)
      BY <1>1, <1>3, <2>2, <2>4 DEF Safe
    <2>6. Counting(b)
      BY <2>2 DEF Counting
    <2>7. QED
      BY <1>5, <2>2, <2>3, <2>5, <2>6, KeepsPInv
  <1>6. QED
    BY <1>4, <1>5 DEF load_from_elf

LEMMA NextSegmentStep ==
  ASSUME PInv, NextSegment
  PROVE  PInv'
  <1>1. cpu = "running" /\ at.pc = "segment" /\ Running
    BY DEF NextSegment, Running
  <1>2. ~Doomed(at) /\ at \in Loaders /\ at # Idle
    BY <1>1, IdleFacts DEF Doomed, PInv
  <1>3. CASE Stop
    BY <1>1, <1>3, StopStep
  <1>4. CASE /\ at' = [at EXCEPT !.pc = "entry"]
             /\ UNCHANGED <<ram, root, held, cpu>>
    <2>1. at' \in Loaders /\ at'.t = at.t /\ at'.image = at.image /\ at'.pc = "entry"
      BY <1>2, <1>4 DEF Loaders
    <2>2. Counting(at')
      BY <2>1 DEF Counting
    <2>3. QED
      BY <1>1, <1>2, <1>4, <2>1, <2>2, ControlStep
  <1>5. CASE /\ at' = [at EXCEPT !.i = @ + 1]
             /\ UNCHANGED <<ram, root, held, cpu>>
    <2>1. at' \in Loaders /\ at'.t = at.t /\ at'.image = at.image /\ at'.pc = "segment"
      BY <1>1, <1>2, <1>5 DEF Loaders
    <2>2. Counting(at')
      BY <2>1 DEF Counting
    <2>3. QED
      BY <1>1, <1>2, <1>5, <2>1, <2>2, ControlStep
  <1>6. CASE /\ at.i <= Len(at.image) /\ Seg.load
             /\ Seg.flags \in {{"R", "X"}, {"R", "W"}}
             /\ at' = [at EXCEPT !.pc = "page", !.j = 0, !.remaining = Seg.memsz,
                                 !.info = Record(@, Seg)]
             /\ UNCHANGED <<ram, root, held, cpu>>
    <2> DEFINE seg == Seg
    <2>1. at.i \in Nat \ {0} /\ Len(at.image) \in Nat /\ at.info \in Infos
      BY <1>2, ImageAssumption, AddressAssumption DEF Loaders
    <2>2. at.i \in 1 .. Len(at.image)
      BY <1>6, <2>1
    <2>3. seg \in Segments /\ seg = at.image[at.i]
      BY <1>2, <2>2, SegmentTyped DEF Seg
    <2>4. seg.load = TRUE
      <3>1. seg.load \in BOOLEAN
        BY <2>3 DEF Segments
      <3>2. seg.load
        BY <1>6
      <3>3. QED
        BY <3>1, <3>2, Zenon
    <2>5. seg.flags \in {ReadExec, ReadWrite}
      BY <1>6 DEF ReadExec, ReadWrite
    <2>6. at' = [at EXCEPT !.pc = "page", !.j = 0, !.remaining = seg.memsz,
                           !.info = Record(at.info, seg)]
      BY <1>6
    <2> HIDE DEF seg
    <2>7. seg.memsz \in Nat /\ Record(at.info, seg) \in Infos
      BY <2>1, <2>3, SegmentNumbers, RecordTyped DEF Segments
    <2>8. /\ at' \in Loaders /\ at'.t = at.t /\ at'.image = at.image /\ at'.i = at.i
          /\ at'.pc = "page" /\ at'.j = 0 /\ at'.remaining = seg.memsz
      BY <1>2, <2>6, <2>7 DEF Loaders
    <2>9. seg.memsz - 0 * PGSIZE = seg.memsz
      BY <2>7, PageSizeAssumption
    <2>10. Counting(at')
      BY <2>2, <2>3, <2>4, <2>5, <2>8, <2>9 DEF Counting
    <2>11. QED
      BY <1>1, <1>2, <1>6, <2>8, <2>10, ControlStep
  <1>7. QED
    BY <1>3, <1>4, <1>5, <1>6 DEF NextSegment
LEMMA AllocDestStep ==
  ASSUME PInv, AllocDest
  PROVE  PInv'
  <1> DEFINE a == alloc_page(ram)
             g == held \cup {a.page}
             j == held \cup ({a.page} \ {NULL})
  <1>1. /\ cpu = "running" /\ Running /\ at.pc = "page" /\ at.j < pages_need(Seg)
        /\ ram' = a.ram /\ held' = j /\ root' = root /\ cpu' = cpu
        /\ at' = [at EXCEPT !.pc = "add", !.dest = a.page]
    BY DEF AllocDest, Running
  <1>2. ~Doomed(at) /\ at \in Loaders /\ at # Idle
    BY <1>1, IdleFacts DEF Doomed, PInv
  <1>3. Safe(ram, root, held, at) /\ Well(ram, root, held) /\ Counting(at)
    BY <1>1, <1>2, PFacts
  <1>4. /\ a.ram.mem = ram.mem
        /\ a.page = NULL => a.ram = ram
        /\ a.page # NULL => a.page \in Pages /\ Well(a.ram, root, g)
    BY <1>3, PageTaken
  <1> HIDE DEF a
  <1>5. Well(a.ram, root, j)
    <2>1. CASE a.page = NULL
      <3>1. j = held
        BY <2>1
      <3>2. QED
        BY <1>3, <1>4, <2>1, <3>1
    <2>2. CASE a.page # NULL
      <3>1. j = g
        BY <2>2
      <3>2. QED
        BY <1>4, <2>2, <3>1
    <2>3. QED
      BY <2>1, <2>2
  <1>6. a.page # NULL => a.page \in j
    OBVIOUS
  <1> HIDE DEF g, j
  <1>7. a.page \in Pages \cup {NULL}
    BY <1>4
  <1>8. /\ at' \in Loaders /\ at'.t = at.t /\ at'.image = at.image /\ at'.i = at.i /\ at'.j = at.j
        /\ at'.pc = "add" /\ at'.dest = a.page /\ at'.remaining = at.remaining
    BY <1>1, <1>2, <1>7 DEF Loaders
  <1>9. at' # Idle
    BY <1>8, IdleFacts
  <1>10. Counting(at')
    <2>1. at.remaining > 0 /\ at.j < pages_need(at.image[at.i]) /\ at.pc = "page"
      BY DEF AllocDest, AssertHolds, Seg
    <2>2. Counting(at)
      BY <1>3
    <2>3. at.image[at.i].memsz # 0
      BY <2>1, <2>2 DEF Counting
    <2>4. QED
      BY <1>8, <2>1, <2>2, <2>3 DEF Counting
  <1> DEFINE b == at'
             r == a.ram
  <1>11. /\ b # Idle /\ b.t = at.t /\ b.image = at.image /\ b.pc = "add" /\ b.dest = a.page
         /\ r.mem = ram.mem
    BY <1>4, <1>8, <1>9
  <1>12. Well(r, root, j)
    BY <1>5
  <1> HIDE DEF b, r
  <1>13. Safe(r, root, j, b)
    BY <1>2, <1>3, <1>6, <1>11, <1>12 DEF Safe
  <1>14. Safe(ram', root', held', at')
    BY <1>1, <1>13 DEF b, r
  <1>15. QED
    BY <1>1, <1>8, <1>10, <1>14, KeepsPInv

(* add, whatever it answers: the page becomes a mapped page with the rights *)
(* of the segment, or it stays as it was and the loader forgets it.        *)
LEMMA AddedPage ==
  ASSUME NEW r, NEW rt, NEW h, NEW a \in Loaders, Safe(r, rt, h, a),
         a.pc = "add", a.dest # NULL,
         a.i \in 1 .. Len(a.image), a.image[a.i].load = TRUE,
         a.image[a.i].flags \in {ReadExec, ReadWrite},
         NEW va \in Nat,
         NEW b \in Loaders, b.t = a.t, b.image = a.image, b.dest = a.dest, b.pc = "copy",
         NEW x, x = Map(r, rt[a.t], va, a.dest, perm(a.image[a.i])), ~x.fault
  PROVE  Safe(x.ram, rt, h \ {a.dest}, b)
  <1> DEFINE seg == a.image[a.i]
             p == a.dest
             k == Key(va)
             g == h \ {p}
             e == PageTableEntry(p, perm(seg))
  <1>1. /\ Well(r, rt, h) /\ rt[a.t] # NULL /\ p \in h /\ a.t \in Tables /\ a # Idle /\ b # Idle
        /\ p \in Pages
    BY IdleFacts DEF Safe, Loaders
  <1>2. perm(seg) \in Perms /\ perm(seg) \cap Rights = seg.flags
    BY PermOfSegment
  <1>3. k \in Path
    BY IndicesAreSlots
  <1>4. MapOutcome(r, rt, h, a.t, k, p, perm(seg), x)
    <2> DEFINE t == a.t
               f == perm(seg)
    <2>1. /\ Well(r, rt, h) /\ t \in Tables /\ rt[t] # NULL /\ p \in h /\ f \in Perms
          /\ x = Map(r, rt[t], va, p, f)
      BY <1>1, <1>2
    <2> HIDE DEF t, f, p, k
    <2>2. MapOutcome(r, rt, h, t, Key(va), p, f, Map(r, rt[t], va, p, f))
      BY <2>1, MapCorrect
    <2>3. QED
      BY <2>1, <2>2 DEF t, f, k
  <1>5. \A u \in Tables, j \in Path :
          \/ EntryAt(r.mem, rt[u], j) = INVALID_PTE
          \/ u = a.t /\ Rightful(EntryAt(r.mem, rt[u], j), a.image)
    BY DEF Safe
  <1>6. CASE x.ret = -1 /\ Well(x.ram, rt, h) /\ SameMaps(r.mem, x.ram.mem, rt)
    <2>1. Well(x.ram, rt, g)
      BY <1>6, HeldLess
    <2>2. g \cup {p} = h
      BY <1>1
    <2>3. Well(x.ram, rt, g \cup {p})
      BY <1>6, <2>2
    <2>4. \A u \in Tables, j \in Path : EntryAt(x.ram.mem, rt[u], j) = EntryAt(r.mem, rt[u], j)
      BY <1>6 DEF SameMaps
    <2> HIDE DEF p, g
    <2>5. b.dest = p /\ g = h \ {a.dest}
      BY DEF p, g
    <2>6. Safe(x.ram, rt, g, b)
      BY <1>1, <1>5, <2>1, <2>3, <2>4, <2>5 DEF Safe
    <2>7. QED
      BY <2>5, <2>6
  <1>7. CASE Well(x.ram, rt, h \ {p}) /\ OnlyEntry(r.mem, x.ram.mem, rt, a.t, k, e)
    <2> DEFINE m == x.ram.mem
    <2>1. EntryAt(m, rt[a.t], k) = e
      BY <1>7 DEF OnlyEntry
    <2>2. e.flag = perm(seg) /\ e.pa = p /\ isValid(e)
      <3>1. e.flag = perm(seg) /\ e.pa = p
        BY DEF PageTableEntry
      <3>2. "V" \in perm(seg)
        BY <1>2, PermsAssumption
      <3>3. QED
        BY <3>1, <3>2 DEF isValid
    <2>3. Rightful(e, a.image)
      BY <1>2, <2>2 DEF Rightful
    <2> HIDE DEF e, p, g, seg
    <2>4. p \in MappedPages(m, rt)
      <3>1. Forest(m, rt) /\ rt \in [Tables -> Pages \cup {NULL}]
        BY <1>7 DEF Well, Typed
      <3> DEFINE mid == step(m, rt[a.t], k[1])
                 low == step(m, mid, k[2])
      <3>2. low # NULL => low \in LowPages(m, rt)
        <4> DEFINE t == a.t
        <4>1. t \in Tables
          BY <1>1
        <4> HIDE DEF t, k
        <4>2. LET i == step(m, rt[t], k[1])
                  l == step(m, i, k[2])
              IN  l # NULL => l \in LowPages(m, rt)
          BY <1>3, <3>1, <4>1, WalkDescends
        <4>3. QED
          BY <4>2 DEF t
      <3>3. EntryAt(m, rt[a.t], k) = IF low # NULL /\ isValid(m[low][k[3]]) THEN m[low][k[3]] ELSE INVALID_PTE
        BY DEF EntryAt
      <3> HIDE DEF low, k, m
      <3>4. ~isValid(INVALID_PTE)
        BY InvalidEntry
      <3>5. low # NULL /\ isValid(m[low][k[3]]) /\ m[low][k[3]] = e
        BY <2>1, <2>2, <3>3, <3>4
      <3>6. k[3] \in Slots
        BY <1>3 DEF Path
      <3>7. QED
        BY <1>1, <2>2, <3>2, <3>5, <3>6, SMTT(30) DEF MappedPages, Kids
    <2>5. \A u \in Tables, j \in Path :
            \/ EntryAt(m, rt[u], j) = INVALID_PTE
            \/ u = a.t /\ Rightful(EntryAt(m, rt[u], j), a.image)
      BY <1>5, <1>7, <2>1, <2>3 DEF OnlyEntry
    <2>6. Well(x.ram, rt, g) /\ b.dest = p /\ g = h \ {a.dest}
      BY <1>7 DEF p, g
    <2>7. Safe(x.ram, rt, g, b)
      BY <1>1, <2>4, <2>5, <2>6 DEF Safe
    <2>8. QED
      BY <2>6, <2>7
  <1>8. QED
    BY <1>4, <1>6, <1>7 DEF MapOutcome
LEMMA AddDestStep ==
  ASSUME PInv, AddDest
  PROVE  PInv'
  <1> DEFINE va == page_va(Seg, at.j)
             x == Map(ram, root[at.t], va, at.dest, perm(Seg))
             g == held \ {at.dest}
  <1>1. /\ cpu = "running" /\ Running /\ at.pc = "add"
        /\ ram' = x.ram /\ held' = g /\ root' = root
        /\ cpu' = IF x.fault THEN "halted" ELSE cpu
        /\ at' = [at EXCEPT !.pc = "copy"]
    BY DEF AddDest, Running
  <1>2. ~Doomed(at) /\ at \in Loaders /\ at # Idle
    BY <1>1, IdleFacts DEF Doomed, PInv
  <1>3. Safe(ram, root, held, at) /\ Counting(at)
    BY <1>1, <1>2, PFacts
  <1>4. /\ at' \in Loaders /\ at'.t = at.t /\ at'.image = at.image /\ at'.i = at.i /\ at'.j = at.j
        /\ at'.pc = "copy" /\ at'.dest = at.dest /\ at'.remaining = at.remaining
    BY <1>1, <1>2 DEF Loaders
  <1>5. Counting(at')
    BY <1>1, <1>3, <1>4 DEF Counting
  <1>6. cpu' = "running" /\ ~Doomed(at') => Safe(ram', root', held', at')
    <2> SUFFICES ASSUME cpu' = "running", ~Doomed(at') PROVE Safe(ram', root', held', at')
      OBVIOUS
    <2>1. at.dest # NULL /\ ~x.fault
      BY <1>1, <1>4 DEF Doomed
    <2>2. /\ at.i \in 1 .. Len(at.image) /\ at.image[at.i].load = TRUE
          /\ at.image[at.i].flags \in {ReadExec, ReadWrite}
          /\ Seg = at.image[at.i]
      BY <1>1, <1>3 DEF Counting, Seg
    <2>3. va \in Nat
      <3>1. Seg \in Segments /\ at.j \in Nat
        BY <1>2, <2>2, SegmentTyped DEF Loaders
      <3>2. QED
        BY <3>1, SegmentNumbers
    <2> DEFINE b == at'
    <2>4. b \in Loaders /\ b.t = at.t /\ b.image = at.image /\ b.dest = at.dest /\ b.pc = "copy"
      BY <1>4
    <2>5. x = Map(ram, root[at.t], va, at.dest, perm(at.image[at.i]))
      BY <2>2
    <2> HIDE DEF va, x, b
    <2>6. Safe(x.ram, root, held \ {at.dest}, b)
      BY <1>1, <1>2, <1>3, <2>1, <2>2, <2>3, <2>4, <2>5, AddedPage
    <2>7. QED
      BY <1>1, <2>6 DEF b
  <1>7. at'.pc # "loaded"
    BY <1>4
  <1> HIDE DEF va, x, g
  <1>8. QED
    BY <1>4, <1>5, <1>6, <1>7, KeepsPInv

(* The bytes left after a page, while there are pages to come. *)
LEMMA RemainingStep ==
  ASSUME NEW seg \in Segments, seg.memsz > 0, seg.vaddr + seg.memsz <= UINT64,
         NEW j \in Nat, j + 1 < pages_need(seg)
  PROVE  (seg.memsz - j * PGSIZE - PGSIZE) % UINT64 = seg.memsz - (j + 1) * PGSIZE
  <1> DEFINE m == seg.memsz
             q == (j + 1) * PGSIZE
  <1>1. m \in Nat /\ UINT64 \in Nat /\ m < UINT64 /\ PGSIZE \in Nat
    BY ImageAssumption, AddressAssumption, PageSizeAssumption DEF Segments
  <1>2. j + 1 \in Nat
    OBVIOUS
  <1>3. m > q
    BY <1>2, SegmentArithmetic
  <1>4. q \in Nat /\ m - j * PGSIZE - PGSIZE = m - q
    <2>1. (j + 1) * PGSIZE = j * PGSIZE + PGSIZE /\ j * PGSIZE \in Nat
      BY <1>1
    <2> HIDE DEF m
    <2>2. QED
      BY <1>1, <2>1
  <1> HIDE DEF m, q
  <1>5. m - q \in Nat /\ m - q < UINT64
    BY <1>1, <1>3, <1>4
  <1>6. (m - q) % UINT64 = m - q
    BY <1>1, <1>5, ModOfSmall
  <1>7. (m - j * PGSIZE - PGSIZE) % UINT64 = m - q
    BY <1>4, <1>6
  <1>8. QED
    BY <1>7 DEF m, q

LEMMA CopiedPage ==
  ASSUME NEW r, NEW rt, NEW h, NEW a \in Loaders, Safe(r, rt, h, a),
         a.pc = "copy", a.dest # NULL, NEW c \in Content,
         NEW b \in Loaders, b.t = a.t, b.image = a.image, b.pc = "page"
  PROVE  Safe([r EXCEPT !.mem[a.dest] = c], rt, h, b)
  <1> DEFINE p == a.dest
             s == [r EXCEPT !.mem[p] = c]
  <1>1. /\ Well(r, rt, h) /\ rt[a.t] # NULL /\ a # Idle /\ b # Idle
        /\ Well(r, rt, h \cup {p}) \/ p \in MappedPages(r.mem, rt)
    BY IdleFacts DEF Safe
  <1>2. \A u \in Tables, j \in Path :
          \/ EntryAt(r.mem, rt[u], j) = INVALID_PTE
          \/ u = a.t /\ Rightful(EntryAt(r.mem, rt[u], j), a.image)
    BY DEF Safe
  <1> HIDE DEF p
  <1>3. Well(s, rt, h) /\ SameMaps(r.mem, s.mem, rt)
    <2>1. CASE Well(r, rt, h \cup {p})
      <3> DEFINE g == h \cup {p}
      <3>1. Well(r, rt, g) /\ p \in g \cup MappedPages(r.mem, rt) /\ h \in SUBSET g
        BY <2>1
      <3> HIDE DEF g
      <3>2. Well(s, rt, g) /\ SameMaps(r.mem, s.mem, rt)
        BY <3>1, PageFilled
      <3> HIDE DEF s
      <3>3. Well(s, rt, h)
        BY <3>1, <3>2, HeldLess
      <3>4. QED
        BY <3>2, <3>3
    <2>2. CASE p \in MappedPages(r.mem, rt)
      <3>1. Well(r, rt, h) /\ p \in h \cup MappedPages(r.mem, rt)
        BY <1>1, <2>2
      <3>2. QED
        BY <3>1, PageFilled
    <2>3. QED
      BY <1>1, <2>1, <2>2
  <1> HIDE DEF s
  <1>4. \A u \in Tables, j \in Path : EntryAt(s.mem, rt[u], j) = EntryAt(r.mem, rt[u], j)
    BY <1>3 DEF SameMaps
  <1>5. Safe(s, rt, h, b)
    BY <1>1, <1>2, <1>3, <1>4 DEF Safe
  <1>6. QED
    BY <1>5 DEF s, p

LEMMA CopyDestStep ==
  ASSUME PInv, CopyDest
  PROVE  PInv'
  <1>1. cpu = "running" /\ Running /\ at.pc = "copy"
    BY DEF CopyDest, Running
  <1>2. at \in Loaders /\ at # Idle /\ at.pc # "loaded"
    BY <1>1, IdleFacts DEF PInv
  <1>3. CASE Stop
    <2>1. at.pc # "loaded"
      BY <1>2
    <2>2. QED
      BY <1>3, <2>1, StopStep
  <1>4. CASE /\ at.dest # NULL
             /\ \E c \in [Slots -> Stores] : ram' = [ram EXCEPT !.mem[at.dest] = c]
             /\ at' = [at EXCEPT !.pc = "page", !.j = @ + 1,
                                 !.remaining = (@ - PGSIZE) % UINT64]
             /\ UNCHANGED <<root, held, cpu>>
    <2>1. PICK c \in [Slots -> Stores] : ram' = [ram EXCEPT !.mem[at.dest] = c]
      BY <1>4
    <2>2. c \in Content
      BY StoresAssumption DEF Content
    <2>3. Safe(ram, root, held, at) /\ Counting(at)
      BY <1>1, <1>4, PFacts DEF Doomed
    <2>4. (at.remaining - PGSIZE) % UINT64 \in Nat
      <3>1. at.remaining - PGSIZE \in Int /\ UINT64 \in Nat /\ UINT64 > 0
        BY <1>2, PageSizeAssumption, ImageAssumption, AddressAssumption DEF Loaders
      <3>2. QED
        BY <3>1
    <2>5. /\ at' \in Loaders /\ at'.t = at.t /\ at'.image = at.image /\ at'.i = at.i
          /\ at'.j = at.j + 1 /\ at'.pc = "page"
          /\ at'.remaining = (at.remaining - PGSIZE) % UINT64
      <3> DEFINE n == at.j + 1
                 left == (at.remaining - PGSIZE) % UINT64
      <3>1. at' = [at EXCEPT !.pc = "page", !.j = n, !.remaining = left]
        BY <1>4
      <3>2. at.j \in Nat
        BY <1>2 DEF Loaders
      <3>3. n \in Nat /\ left \in Nat
        BY <2>4, <3>2
      <3> HIDE DEF n, left
      <3>4. /\ at' \in Loaders /\ at'.t = at.t /\ at'.image = at.image /\ at'.i = at.i
            /\ at'.j = n /\ at'.pc = "page" /\ at'.remaining = left
        BY <1>2, <3>1, <3>3 DEF Loaders
      <3>5. QED
        BY <3>4 DEF n, left
    <2>6. Counting(at')
      <3> DEFINE seg == at.image[at.i]
      <3>1. /\ at.i \in 1 .. Len(at.image) /\ seg.load = TRUE
            /\ seg.flags \in {ReadExec, ReadWrite}
            /\ seg.memsz > 0 /\ seg.vaddr + seg.memsz <= UINT64 /\ at.j < pages_need(seg)
                 => at.remaining = seg.memsz - at.j * PGSIZE
        BY <1>1, <2>3 DEF Counting
      <3>2. seg \in Segments /\ at.j \in Nat
        BY <1>2, <3>1, SegmentTyped DEF Loaders
      <3> HIDE DEF seg
      <3>3. ASSUME seg.memsz > 0, seg.vaddr + seg.memsz <= UINT64, at.j + 1 < pages_need(seg)
            PROVE  at'.remaining = seg.memsz - (at.j + 1) * PGSIZE
        <4> DEFINE j == at.j
        <4>1. j \in Nat /\ j + 1 < pages_need(seg)
          BY <3>2, <3>3
        <4>2. j < pages_need(seg)
          BY <3>2, <4>1, SegmentNumbers
        <4>3. at.remaining = seg.memsz - j * PGSIZE
          BY <3>1, <3>3, <4>2
        <4> HIDE DEF j
        <4>4. (seg.memsz - j * PGSIZE - PGSIZE) % UINT64 = seg.memsz - (j + 1) * PGSIZE
          BY <3>2, <3>3, <4>1, RemainingStep
        <4>5. QED
          BY <2>5, <4>3, <4>4 DEF j
      <3>4. seg.memsz # 0
        BY <1>1, <2>3 DEF Counting, seg
      <3>5. QED
        BY <2>5, <3>1, <3>3, <3>4 DEF Counting, seg
    <2> DEFINE b == at'
               s == [ram EXCEPT !.mem[at.dest] = c]
    <2>7. b \in Loaders /\ b.t = at.t /\ b.image = at.image /\ b.pc = "page"
      BY <2>5
    <2>8. at.dest # NULL
      BY <1>4
    <2> HIDE DEF b
    <2>9. Safe(s, root, held, b)
      BY <1>1, <1>2, <2>2, <2>3, <2>7, <2>8, CopiedPage
    <2> HIDE DEF s
    <2>10. Safe(ram', root', held', at')
      BY <1>4, <2>1, <2>9 DEF b, s
    <2>11. QED
      BY <1>1, <1>4, <2>5, <2>6, <2>10, KeepsPInv
  <1>5. QED
    BY <1>3, <1>4 DEF CopyDest

LEMMA SegmentDoneStep ==
  ASSUME PInv, SegmentDone
  PROVE  PInv'
  <1>1. /\ cpu = "running" /\ Running /\ at.pc = "page"
        /\ at' = [at EXCEPT !.pc = "segment", !.i = @ + 1]
        /\ UNCHANGED <<ram, root, held, cpu>>
    BY DEF SegmentDone, Running
  <1>2. ~Doomed(at) /\ at \in Loaders /\ at # Idle
    BY <1>1, IdleFacts DEF Doomed, PInv
  <1>3. at' \in Loaders /\ at'.t = at.t /\ at'.image = at.image /\ at'.pc = "segment"
    <2> DEFINE n == at.i + 1
    <2>1. at' = [at EXCEPT !.pc = "segment", !.i = n]
      BY <1>1
    <2>2. at.i \in Nat \ {0}
      BY <1>2 DEF Loaders
    <2>3. n \in Nat \ {0}
      BY <2>2
    <2> HIDE DEF n
    <2>4. QED
      BY <1>2, <2>1, <2>3 DEF Loaders
  <1>4. Counting(at')
    BY <1>3 DEF Counting
  <1>5. QED
    BY <1>1, <1>2, <1>3, <1>4, ControlStep

LEMMA SetEntryStep ==
  ASSUME PInv, SetEntry
  PROVE  PInv'
  <1>1. cpu = "running" /\ Running /\ at.pc = "entry"
    BY DEF SetEntry, Running
  <1>2. ~Doomed(at) /\ at \in Loaders /\ at # Idle
    BY <1>1, IdleFacts DEF Doomed, PInv
  <1>3. CASE Stop
    BY <1>1, <1>3, StopStep
  <1>4. CASE /\ \E pc \in {"loaded", "undefined"} : at' = [at EXCEPT !.pc = pc]
             /\ UNCHANGED <<ram, root, held, cpu>>
    <2>1. PICK pc \in {"loaded", "undefined"} : at' = [at EXCEPT !.pc = pc]
      BY <1>4
    <2>2. at' \in Loaders /\ at'.t = at.t /\ at'.image = at.image /\ at'.pc = pc
      BY <1>2, <2>1 DEF Loaders
    <2>3. Counting(at') /\ at'.pc # "add" /\ at'.pc # "copy"
      BY <2>2 DEF Counting
    <2>4. QED
      BY <1>1, <1>2, <1>4, <2>2, <2>3, ControlStep
  <1>5. QED
    BY <1>3, <1>4 DEF SetEntry

LEMMA PStepInv == PInv /\ [PNext]_pvars => PInv'
  <1> SUFFICES ASSUME PInv, [PNext]_pvars PROVE PInv'
    OBVIOUS
  <1>1. CASE \E t \in Tables : NewProcess(t)
    BY <1>1, NewProcessStep
  <1>2. CASE \E t \in Tables : EndProcess(t)
    BY <1>2, EndProcessStep
  <1>3. CASE \E t \in Tables, elf \in BOOLEAN, image \in Images :
              load_from_elf(t, elf, image)
    BY <1>3, LoadStep
  <1>4. CASE NextSegment
    BY <1>4, NextSegmentStep
  <1>5. CASE AllocDest
    BY <1>5, AllocDestStep
  <1>6. CASE AssertFails
    <2>1. at.pc = "page" /\ Stop
      BY <1>6 DEF AssertFails
    <2>2. QED
      BY <2>1, StopStep
  <1>7. CASE AddDest
    BY <1>7, AddDestStep
  <1>8. CASE CopyDest
    BY <1>8, CopyDestStep
  <1>9. CASE SegmentDone
    BY <1>9, SegmentDoneStep
  <1>10. CASE SetEntry
    BY <1>10, SetEntryStep
  <1>11. CASE UNCHANGED pvars
    <2>1. /\ ram' = ram /\ root' = root /\ held' = held /\ cpu' = cpu /\ at' = at
      BY <1>11 DEF pvars, vars
    <2>2. QED
      BY <2>1, KeepsPInv DEF PInv
  <1>12. QED
    BY <1>1, <1>2, <1>3, <1>4, <1>5, <1>6, <1>7, <1>8, <1>9, <1>10, <1>11 DEF PNext

(* At every moment of the loop each page of RAM is where PInv says: the    *)
(* forest of tables is well formed, its entries have the rights of the     *)
(* image's segments, and the loader's page is its own or mapped            *)
(* (process.cpp:34-88).                                                    *)
THEOREM LoaderInvariance == PSpec => []PInv
  BY InitPInv, PStepInv, PTL DEF PSpec
-----------------------------------------------------------------------------
(* A low table's place and page are those a walk comes to.                 *)
LEMMA LowsAreWalked ==
  ASSUME Well(ram, root, held), NEW n \in Lows, NEW k \in Slots, isValid(ram.mem[n[2]][k])
  PROVE  \E t \in Tables, w \in Path :
           /\ n[1][1] = t
           /\ EntryAt(ram.mem, root[t], w) = ram.mem[n[2]][k]
           /\ ram.mem[n[2]][k].pa \in Pages
  <1> DEFINE m == ram.mem
  <1>1. /\ Forest(m, root) /\ root \in [Tables -> Pages \cup {NULL}]
        /\ NULL \notin Pages
    BY NullIsNoPage DEF Well, Typed
  <1>2. PICK y \in Middles, j \in Slots :
          isValid(m[y[2]][j]) /\ n = <<Append(y[1], j), m[y[2]][j].pa>>
    BY DEF Lows, Below
  <1>3. PICK x \in Roots, i \in Slots :
          isValid(m[x[2]][i]) /\ y = <<Append(x[1], i), m[x[2]][i].pa>>
    BY DEF Middles, Below
  <1>4. PICK t \in Tables : root[t] # NULL /\ x = <<<<t>>, root[t]>>
    BY SMTT(30) DEF Roots
  <1> HIDE DEF m
  <1> DEFINE p == root[t]
             q == m[p][i].pa
             l == m[q][j].pa
  <1>5. /\ isValid(m[p][i]) /\ isValid(m[q][j])
        /\ n[2] = l /\ n[1] = Append(Append(<<t>>, i), j)
    <2>1. x[1] = <<t>> /\ x[2] = p
      BY <1>4
    <2>2. y[1] = Append(<<t>>, i) /\ y[2] = q /\ isValid(m[p][i])
      BY <1>3, <2>1, SMTT(30)
    <2>3. QED
      BY <1>2, <2>2, ZenonT(30)
  <1>6. n[1][1] = t
    <2>1. Append(Append(<<t>>, i), j)[1] = t
      BY SMTT(30)
    <2>2. QED
      BY <1>5, <2>1, ZenonT(30)
  <1>7. q \in MiddlePages(m, root)
    <2>1. p \in RootPages(root)
      BY <1>4, SMTT(30) DEF RootPages
    <2>2. m[p][i].pa \in Pages
      BY <1>1, <1>5, <2>1, ZenonT(30) DEF Forest, Shape
    <2>3. QED
      BY <1>5, <2>1, <2>2, ZenonT(30) DEF MiddlePages, Kids
  <1>8. q \in Pages
    BY <1>7 DEF MiddlePages, Kids
  <1> HIDE DEF q
  <1>9. l \in LowPages(m, root) /\ l \in Pages
    <2>1. m[q][j].pa \in Pages
      BY <1>1, <1>5, <1>7 DEF Forest, Shape
    <2>2. QED
      BY <1>5, <1>7, <2>1 DEF LowPages, Kids
  <1> HIDE DEF l
  <1>10. isValid(m[l][k])
    BY <1>5 DEF m
  <1>11. m[l][k].pa \in Pages
    BY <1>1, <1>9, <1>10 DEF Forest, Shape
  <1> DEFINE w == <<i, j, k>>
  <1>12. w \in Path /\ w[1] = i /\ w[2] = j /\ w[3] = k
    BY DEF Path
  <1> HIDE DEF w
  <1>13. step(m, p, i) = q
    BY <1>4, <1>5 DEF step, q
  <1>14. step(m, q, j) = l
    BY <1>1, <1>5, <1>8 DEF step, l
  <1>15. l # NULL
    BY <1>1, <1>9
  <1> HIDE DEF p
  <1>16. EntryAt(m, p, w) = m[l][k]
    BY <1>10, <1>12, <1>13, <1>14, <1>15 DEF EntryAt
  <1>17. QED
    BY <1>5, <1>6, <1>11, <1>12, <1>16 DEF m, p

LEMMA PInvMeansRights ==
  ASSUME PInv
  PROVE  RightsOfASegment
  <1> SUFFICES ASSUME at.pc = "loaded",
                      NEW n \in Lows, n[1][1] = at.t,
                      NEW i \in Slots, isValid(ram.mem[n[2]][i])
               PROVE  /\ ram.mem[n[2]][i].pa # NULL
                      /\ \E s \in Loaded :
                           ram.mem[n[2]][i].flag \cap {"R", "W", "X"} = at.image[s].flags
    BY DEF RightsOfASegment
  <1>1. Safe(ram, root, held, at)
    BY DEF PInv, Doomed
  <1>2. Well(ram, root, held)
    BY <1>1 DEF Safe
  <1> DEFINE e == ram.mem[n[2]][i]
  <1>3. PICK t \in Tables, w \in Path :
          /\ n[1][1] = t
          /\ EntryAt(ram.mem, root[t], w) = e
          /\ e.pa \in Pages
    BY <1>2, LowsAreWalked
  <1>4. isValid(e)
    OBVIOUS
  <1> HIDE DEF e
  <1>5. e # INVALID_PTE
    BY <1>4, InvalidEntry
  <1>6. Rightful(e, at.image)
    BY <1>1, <1>3, <1>5 DEF Safe
  <1>7. \E s \in Loaded : e.flag \cap {"R", "W", "X"} = at.image[s].flags
    BY <1>6 DEF Rightful, Loaded, Rights
  <1>8. e.pa # NULL
    BY <1>3, NullIsNoPage
  <1>9. QED
    BY <1>7, <1>8 DEF e

(* A process that is loaded has its pages mapped with the rights of its    *)
(* segments, whatever the image, however full the memory and whatever the  *)
(* earlier calls of the allocator and of add have answered                 *)
(* (process.cpp:58-84).                                                    *)
THEOREM LoadedWithRights == PSpec => []RightsOfASegment
  BY PInvMeansRights, LoaderInvariance, PTL

LEMMA PInvMeansRemaining ==
  ASSUME PInv
  PROVE  BytesForEveryPage
  <1> SUFFICES ASSUME PageDue, Seg.vaddr + Seg.memsz <= UINT64
               PROVE  Left > 0 /\ at.remaining = Left
    BY DEF BytesForEveryPage
  <1> DEFINE seg == Seg
             j == at.j
  <1>1. at \in Loaders
    BY IdleFacts DEF PInv, PageDue
  <1>2. /\ at.i \in 1 .. Len(at.image) /\ j < pages_need(seg)
        /\ seg.memsz > 0 /\ seg.vaddr + seg.memsz <= UINT64 /\ j < pages_need(seg)
             => at.remaining = seg.memsz - j * PGSIZE
        /\ seg.memsz # 0
    <2>1. CASE at.pc = "page" /\ j < pages_need(seg) /\ seg.memsz > 0
      BY <2>1 DEF PInv, Counting, Seg
    <2>2. CASE at.pc \in {"add", "copy"}
      BY <2>2 DEF PInv, Counting, Seg
    <2>3. QED
      BY <2>1, <2>2 DEF PageDue
  <1>3. seg \in Segments /\ j \in Nat
    BY <1>1, <1>2, SegmentTyped DEF Seg, Loaders
  <1>4. Left = seg.memsz - j * PGSIZE /\ seg.vaddr + seg.memsz <= UINT64
    BY DEF Left
  <1> HIDE DEF seg, j
  <1>5. seg.memsz \in Nat /\ j * PGSIZE \in Nat
    BY <1>3, SegmentNumbers, PageSizeAssumption
  <1>6. seg.memsz > 0
    BY <1>2, <1>5
  <1>7. seg.memsz > j * PGSIZE
    BY <1>2, <1>3, <1>4, <1>6, SegmentArithmetic
  <1>8. QED
    BY <1>2, <1>4, <1>5, <1>6, <1>7

(* Whatever the page size and the segments, remaining_size is exact and    *)
(* positive at every page that is allocated, mapped or filled              *)
(* (process.cpp:72-83): pages_need, which divides twice, never asks for    *)
(* more pages than there are bytes.                                        *)
THEOREM AlwaysBytesLeft == PSpec => []BytesForEveryPage
  BY PInvMeansRemaining, LoaderInvariance, PTL
-----------------------------------------------------------------------------
(* What is left of the invariant when the loader has mapped NULL, or the   *)
(* machine has faulted half way: the entries of low tables lead to pages   *)
(* or to NULL, and no two places share what they lead to.                  *)
Targets(m, S) == { m[x[1]][x[2]].pa : x \in { y \in S \X Slots : isValid(m[y[1]][y[2]]) } }

Disjoint(r, rt, h) ==
  /\ TableForest(r.mem, rt)
  /\ OneParent(r.mem, LowPages(r.mem, rt))
  /\ Apart(FreeSet(r), h, RootPages(rt), MiddlePages(r.mem, rt),
           LowPages(r.mem, rt), Targets(r.mem, LowPages(r.mem, rt)))

LEMMA TargetsOfEntries ==
  ASSUME NEW m, NEW S
  PROVE  \A q : q \in Targets(m, S) <=>
           \E p \in S, i \in Slots : isValid(m[p][i]) /\ m[p][i].pa = q
  <1>1. ASSUME NEW q \in Targets(m, S)
        PROVE  \E p \in S, i \in Slots : isValid(m[p][i]) /\ m[p][i].pa = q
    <2>1. PICK x \in { y \in S \X Slots : isValid(m[y[1]][y[2]]) } : q = m[x[1]][x[2]].pa
      BY DEF Targets
    <2>2. x[1] \in S /\ x[2] \in Slots /\ isValid(m[x[1]][x[2]])
      BY <2>1
    <2>3. QED
      BY <2>1, <2>2
  <1>2. ASSUME NEW p \in S, NEW i \in Slots, isValid(m[p][i])
        PROVE  m[p][i].pa \in Targets(m, S)
    <2> DEFINE x == <<p, i>>
    <2>1. x \in S \X Slots /\ x[1] = p /\ x[2] = i
      OBVIOUS
    <2> HIDE DEF x
    <2>2. x \in { y \in S \X Slots : isValid(m[y[1]][y[2]]) }
      BY <1>2, <2>1
    <2>3. m[x[1]][x[2]].pa \in Targets(m, S)
      BY <2>2 DEF Targets
    <2>4. QED
      BY <2>1, <2>3
  <1>3. QED
    BY <1>1, <1>2

LEMMA WellIsDisjoint ==
  ASSUME NEW r, NEW rt, NEW h, Well(r, rt, h)
  PROVE  Disjoint(r, rt, h)
  <1> DEFINE l2 == LowPages(r.mem, rt)
  <1>1. Targets(r.mem, l2) = MappedPages(r.mem, rt)
    <2>1. Shape(r.mem, l2, Perms)
      BY DEF Well, Forest
    <2>2. MappedPages(r.mem, rt) = Kids(r.mem, l2)
      BY DEF MappedPages
    <2> HIDE DEF l2
    <2>3. ASSUME NEW q \in Targets(r.mem, l2) PROVE q \in Kids(r.mem, l2)
      <3>1. PICK p \in l2, i \in Slots : isValid(r.mem[p][i]) /\ r.mem[p][i].pa = q
        BY TargetsOfEntries
      <3>2. q \in Pages
        BY <2>1, <3>1 DEF Shape
      <3>3. QED
        BY <3>1, <3>2 DEF Kids
    <2>4. ASSUME NEW q \in Kids(r.mem, l2) PROVE q \in Targets(r.mem, l2)
      BY TargetsOfEntries DEF Kids
    <2>5. QED
      BY <2>2, <2>3, <2>4
  <1>2. QED
    BY <1>1 DEF Well, Forest, TableForest, Disjoint

LEMMA DisjointMeansOneUse ==
  ASSUME Disjoint(ram, root, held)
  PROVE  OneUse
  <1>1. TableForest(ram.mem, root)
    BY DEF Disjoint
  <1>2. /\ PagesAt(Roots) = RootPages(root) /\ Unique(Roots)
        /\ PagesAt(Middles) = MiddlePages(ram.mem, root) /\ Unique(Middles)
        /\ PagesAt(Lows) = LowPages(ram.mem, root) /\ Unique(Lows)
    BY <1>1, TablesAreLevels
  <1>3. Unique(Leaves)
    <2>1. OneParent(ram.mem, PagesAt(Lows))
      BY <1>2 DEF Disjoint
    <2>2. Unique(Below(Lows))
      BY <1>2, <2>1, BelowIsUnique
    <2>3. QED
      BY <2>2 DEF Leaves
  <1>4. PagesAt(Leaves) = Targets(ram.mem, PagesAt(Lows))
    <2>1. ASSUME NEW q \in PagesAt(Leaves) PROVE q \in Targets(ram.mem, PagesAt(Lows))
      <3>1. PICK n \in Lows, i \in Slots : isValid(ram.mem[n[2]][i]) /\ q = ram.mem[n[2]][i].pa
        BY DEF PagesAt, Leaves, Below
      <3>2. n[2] \in PagesAt(Lows)
        BY DEF PagesAt
      <3>3. QED
        BY <3>1, <3>2, TargetsOfEntries
    <2>2. ASSUME NEW q \in Targets(ram.mem, PagesAt(Lows)) PROVE q \in PagesAt(Leaves)
      <3>1. PICK p \in PagesAt(Lows), i \in Slots : isValid(ram.mem[p][i]) /\ ram.mem[p][i].pa = q
        BY TargetsOfEntries
      <3>2. PICK n \in Lows : p = n[2]
        BY DEF PagesAt
      <3> DEFINE x == <<Append(n[1], i), ram.mem[n[2]][i].pa>>
      <3>3. x \in Below(Lows) /\ x[2] = q
        BY <3>1, <3>2 DEF Below
      <3> HIDE DEF x
      <3>4. QED
        BY <3>3 DEF PagesAt, Leaves
    <2>3. QED
      BY <2>1, <2>2
  <1>5. Apart(FreeSet(ram), held, PagesAt(Roots), PagesAt(Middles), PagesAt(Lows), PagesAt(Leaves))
    BY <1>2, <1>4 DEF Disjoint
  <1>6. QED
    BY <1>2, <1>3, <1>5, PlacesApart

(* add with alloc_page's NULL: a valid entry that leads nowhere. *)
LEMMA NullHung ==
  ASSUME NEW r, NEW rt, NEW h, Well(r, rt, h),
         NEW t \in Tables, NEW k \in Path, LowAt(r.mem, rt[t], k) # NULL,
         ~isValid(r.mem[LowAt(r.mem, rt[t], k)][k[3]]),
         NEW f \in Perms,
         NEW s, s = [r EXCEPT !.mem[LowAt(r.mem, rt[t], k)][k[3]] = PageTableEntry(NULL, f)]
  PROVE  Disjoint(s, rt, h)
  <1> DEFINE m == r.mem
             low == LowAt(m, rt[t], k)
             i == k[3]
             w == PageTableEntry(NULL, f)
             n == [m EXCEPT ![low][i] = w]
             l0 == RootPages(rt)
             l1 == MiddlePages(m, rt)
             l2 == LowPages(m, rt)
  <1>1. /\ r \in Ram /\ m \in Mem /\ Forest(m, rt) /\ h \in SUBSET Pages
        /\ rt \in [Tables -> Pages \cup {NULL}]
    BY MemType DEF Well, Typed
  <1>2. w \in Word /\ w.pa = NULL /\ isValid(w)
    <2>1. f \in SUBSET PTEFlags /\ "V" \in f
      BY FlagSets
    <2>2. QED
      BY <2>1, EntryIsWord DEF isValid
  <1>3. s.mem = n /\ FreeSet(s) = FreeSet(r)
    BY <1>1 DEF Ram, FreeSet
  <1>4. /\ MiddlePages(n, rt) = l1 /\ LowPages(n, rt) = l2
        /\ Shape(n, l0, {{"V"}}) /\ OneParent(n, l0)
        /\ Shape(n, l1, {{"V"}}) /\ OneParent(n, l1)
    <2> HIDE DEF w
    <2>1. LET lw == LowAt(r.mem, rt[t], k)
              x  == [r.mem EXCEPT ![lw][k[3]] = w]
          IN  /\ MiddlePages(x, rt) = MiddlePages(r.mem, rt)
              /\ LowPages(x, rt) = LowPages(r.mem, rt)
              /\ Shape(x, RootPages(rt), {{"V"}}) /\ OneParent(x, RootPages(rt))
              /\ Shape(x, MiddlePages(r.mem, rt), {{"V"}}) /\ OneParent(x, MiddlePages(r.mem, rt))
              /\ OnlyEntry(r.mem, x, rt, t, k, IF isValid(w) THEN w ELSE INVALID_PTE)
      BY <1>2, LeafWritten
    <2>2. QED
      BY <2>1
  <1>5. i \in Slots /\ l0 \in SUBSET Pages /\ l1 \in SUBSET Pages /\ l2 \in SUBSET Pages
    BY <1>1 DEF Path, RootPages, MiddlePages, LowPages, Kids
  <1>6. low \in l2 /\ low \in Pages
    BY <1>1, <1>5, WalkDescends DEF LowAt
  <1>7. ~isValid(m[low][i])
    OBVIOUS
  <1>8. Shape(m, l2, Perms) /\ OneParent(m, l2) /\ DistinctRoots(rt)
    BY <1>1 DEF Forest
  <1>9. Disjoint(r, rt, h)
    BY WellIsDisjoint
  <1>10. /\ FreeSet(r) \in SUBSET Pages
    BY <1>1 DEF Ram, FreeSet
  <1>11. NULL \notin Pages
    BY NullIsNoPage
  <1> HIDE DEF low, w, i
  <1>12. /\ n[low][i] = w
         /\ \A p \in l2, j \in Slots : p # low \/ j # i => n[p][j] = m[p][j]
    <2> HIDE DEF m, l2
    <2>1. /\ n[low][i] = w
          /\ \A q \in Pages : q # low => n[q] = m[q]
          /\ \A j \in Slots : j # i => n[low][j] = m[low][j]
      BY <1>1, <1>5, <1>6 DEF Mem, Content
    <2> HIDE DEF n
    <2>2. QED
      BY <1>5, <2>1
  <1> HIDE DEF n, l0, l1, l2, m
  <1>13. OneParent(n, l2)
    <2> SUFFICES ASSUME NEW p \in l2, NEW q \in l2, NEW a \in Slots, NEW b \in Slots,
                        isValid(n[p][a]), isValid(n[q][b]), n[p][a].pa = n[q][b].pa
                 PROVE  p = q /\ a = b
      BY DEF OneParent
    <2>1. \A x \in l2, j \in Slots : isValid(m[x][j]) => m[x][j].pa # NULL
      BY <1>8, <1>11 DEF Shape
    <2>2. CASE (p # low \/ a # i) /\ (q # low \/ b # i)
      <3>1. n[p][a] = m[p][a] /\ n[q][b] = m[q][b]
        BY <1>12, <2>2
      <3>2. QED
        BY <1>8, <3>1, EntryFound
    <2>3. CASE p = low /\ a = i
      <3>1. n[q][b].pa = NULL
        BY <1>2, <1>12, <2>3
      <3>2. ~(q # low \/ b # i)
        BY <1>12, <2>1, <3>1
      <3>3. QED
        BY <2>3, <3>2
    <2>4. CASE q = low /\ b = i
      <3>1. n[p][a].pa = NULL
        BY <1>2, <1>12, <2>4
      <3>2. ~(p # low \/ a # i)
        BY <1>12, <2>1, <3>1
      <3>3. QED
        BY <2>4, <3>2
    <2>5. QED
      BY <2>2, <2>3, <2>4
  <1>14. Targets(n, l2) \subseteq Targets(m, l2) \cup {NULL}
    <2> SUFFICES ASSUME NEW q \in Targets(n, l2), q # NULL PROVE q \in Targets(m, l2)
      OBVIOUS
    <2>1. PICK p \in l2, j \in Slots : isValid(n[p][j]) /\ n[p][j].pa = q
      BY TargetsOfEntries
    <2>2. n[p][j] = m[p][j]
      BY <1>2, <1>12, <2>1
    <2>3. QED
      BY <2>1, <2>2, TargetsOfEntries
  <1>15. Apart(FreeSet(r), h, l0, l1, l2, Targets(m, l2))
    BY <1>9 DEF Disjoint, m, l0, l1, l2
  <1>16. Apart(FreeSet(r), h, l0, l1, l2, Targets(n, l2))
    BY <1>1, <1>5, <1>10, <1>11, <1>14, <1>15 DEF Apart
  <1>17. TableForest(n, rt)
    BY <1>4, <1>8 DEF TableForest, l0
  <1>18. QED
    BY <1>3, <1>4, <1>13, <1>16, <1>17 DEF Disjoint, l0

-----------------------------------------------------------------------------
(* A loader's add leaves the places apart whatever page it was given, also *)
(* when it faults half way.                                                *)
LEMMA AddDestDisjoint ==
  ASSUME PInv, AddDest, PInv'
  PROVE  Disjoint(ram', root', held')
  <1> DEFINE va == page_va(Seg, at.j)
             t == at.t
             k == Key(va)
             f == perm(Seg)
             x == Map(ram, root[t], va, at.dest, f)
             g == held \ {at.dest}
  <1>1. /\ cpu = "running" /\ Running /\ at.pc = "add"
        /\ ram' = x.ram /\ held' = g /\ root' = root
        /\ cpu' = IF x.fault THEN "halted" ELSE cpu
        /\ at' = [at EXCEPT !.pc = "copy"]
    BY DEF AddDest, Running
  <1>2. ~Doomed(at) /\ at \in Loaders /\ at # Idle
    BY <1>1, IdleFacts DEF Doomed, PInv
  <1>3. Safe(ram, root, held, at) /\ Counting(at) /\ Well(ram, root, held)
    BY <1>1, <1>2, PFacts
  <1>4. at'.dest = at.dest
    BY <1>1, <1>2 DEF Loaders
  <1>5. t \in Tables /\ root[t] # NULL /\ held \in SUBSET Pages
    BY <1>2, <1>3 DEF Safe, Loaders, Well, Typed
  <1>6. Seg = at.image[at.i] /\ Seg \in Segments /\ f \in Perms
    <2>1. /\ at.i \in 1 .. Len(at.image) /\ Seg = at.image[at.i]
          /\ Seg.flags \in {ReadExec, ReadWrite}
      BY <1>1, <1>3 DEF Counting, Seg
    <2>2. QED
      BY <1>2, <2>1, SegmentTyped, PermOfSegment
  <1>7. va \in Nat
    BY <1>2, <1>6, SegmentNumbers DEF Loaders
  <1>8. CASE cpu' = "running" /\ ~Doomed(at')
    <2>1. Well(ram', root', held')
      BY <1>8, SafePrimed DEF PInv, Safe, Doomed
    <2>2. QED
      BY <2>1, WellIsDisjoint
  <1>9. CASE at.dest # NULL /\ x.fault
    <2> DEFINE p == at.dest
    <2>1. p \in held
      BY <1>1, <1>3, <1>9 DEF Safe
    <2> HIDE DEF va, f, p, t
    <2>2. MapOutcome(ram, root, held, t, Key(va), p, f, Map(ram, root[t], va, p, f))
      BY <1>3, <1>5, <1>6, <1>7, <2>1, MapCorrect
    <2>3. MapOutcome(ram, root, held, t, k, p, f, x)
      BY <2>2 DEF p
    <2> HIDE DEF x
    <2>4. Well(x.ram, root, held)
      BY <1>9, <2>3 DEF MapOutcome
    <2>5. Well(x.ram, root, g)
      BY <2>4, HeldLess
    <2> HIDE DEF g
    <2>6. QED
      BY <1>1, <2>5, WellIsDisjoint
  <1>10. CASE at.dest = NULL
    <2>1. g = held
      BY <1>5, <1>10, NullIsNoPage
    <2> DEFINE w == page_walk_alloc(ram, root[t], va)
               i == vpn0(va)
    <2>2. /\ Well(w.ram, root, held)
          /\ w.page # NULL => LowAt(w.ram.mem, root[t], k) = w.page
      <3> HIDE DEF va, t
      <3>1. LET y == page_walk_alloc(ram, root[t], va)
            IN  /\ Well(y.ram, root, held)
                /\ InUse(y.ram, root, held) = InUse(ram, root, held)
                /\ SameMaps(ram.mem, y.ram.mem, root)
                /\ y.page # NULL => LowAt(y.ram.mem, root[t], Key(va)) = y.page
        BY <1>3, <1>5, <1>7, WalkAllocated
      <3>2. QED
        BY <3>1
    <2>3. k \in Path /\ k[3] = i
      <3> HIDE DEF va
      <3>1. Key(va) \in Path /\ Key(va)[3] = vpn0(va)
        BY <1>7, IndicesAreSlots
      <3>2. QED
        BY <3>1
    <2> DEFINE s == [w.ram EXCEPT !.mem[w.page][i] = PageTableEntry(NULL, f)]
    <2>4. x.ram = IF w.page = NULL \/ isValid(w.ram.mem[w.page][i]) THEN w.ram ELSE s
      BY <1>10, ZenonT(30) DEF Map
    <2> HIDE DEF va, t, f, k, x, g, w, i
    <2>5. CASE w.page = NULL \/ isValid(w.ram.mem[w.page][i])
      <3>1. ram' = w.ram /\ root' = root /\ held' = held
        BY <1>1, <2>1, <2>4, <2>5
      <3>2. QED
        BY <2>2, <3>1, WellIsDisjoint
    <2>6. CASE ~(w.page = NULL \/ isValid(w.ram.mem[w.page][i]))
      <3> DEFINE v == w.ram
                 low == LowAt(v.mem, root[t], k)
      <3>1. low # NULL /\ ~isValid(v.mem[low][k[3]])
        BY <2>2, <2>3, <2>6
      <3>2. s = [v EXCEPT !.mem[low][k[3]] = PageTableEntry(NULL, f)]
        BY <2>2, <2>3, <2>6
      <3>3. Well(v, root, held)
        BY <2>2
      <3> HIDE DEF v, s
      <3>4. Disjoint(s, root, held)
        BY <1>5, <1>6, <2>3, <3>1, <3>2, <3>3, NullHung
      <3>5. ram' = s /\ root' = root /\ held' = held
        BY <1>1, <2>1, <2>4, <2>6
      <3>6. QED
        BY <3>4, <3>5
    <2>7. QED
      BY <2>5, <2>6
  <1>11. QED
    <2>1. ~x.fault => cpu' = "running"
      BY <1>1
    <2>2. at.dest # NULL => ~Doomed(at')
      BY <1>4 DEF Doomed
    <2>3. QED
      BY <1>8, <1>9, <1>10, <2>1, <2>2

LEMMA NewProcessDisjoint ==
  ASSUME PInv, NEW t \in Tables, NewProcess(t)
  PROVE  Disjoint(ram', root', held')
  <1> DEFINE a == alloc_empty_page(ram)
             s == [root EXCEPT ![t] = a.page]
  <1>1. /\ at = Idle /\ Running /\ root[t] = NULL
        /\ ram' = a.ram /\ root' = s /\ held' = held
    BY DEF NewProcess, Construct
  <1>2. Well(ram, root, held)
    BY <1>1, IdleFacts, PFacts DEF Doomed
  <1>3. Well(a.ram, s, held)
    <2>1. t \in Tables /\ root[t] = NULL
      BY <1>1
    <2> HIDE DEF a, s
    <2>2. LET b == alloc_empty_page(ram)
              q == [root EXCEPT ![t] = b.page]
          IN  /\ Well(b.ram, q, held)
              /\ InUse(b.ram, q, held) = InUse(ram, root, held)
              /\ \A u \in Tables, k \in Path : EntryAt(b.ram.mem, q[u], k) = EntryAt(ram.mem, root[u], k)
      BY <1>2, <2>1, RootConstructed
    <2>3. QED
      BY <2>2 DEF a, s
  <1> HIDE DEF a, s
  <1>4. QED
    BY <1>1, <1>3, WellIsDisjoint

OInv == PInv /\ Disjoint(ram, root, held)

LEMMA DisjointPrimed == Disjoint(ram, root, held)' <=> Disjoint(ram', root', held')
  BY DEF Disjoint, TableForest, DistinctRoots, Shape, OneParent, RootPages, MiddlePages,
     LowPages, Kids, Targets, Apart, FreeSet

LEMMA InitOInv == PInit => OInv
  <1> SUFFICES ASSUME PInit PROVE OInv
    OBVIOUS
  <1>1. PInv
    BY InitPInv
  <1>2. Well(ram, root, held)
    BY InitInv, InvFacts DEF PInit
  <1>3. QED
    BY <1>1, <1>2, WellIsDisjoint DEF OInv

LEMMA OStepInv == OInv /\ [PNext]_pvars => OInv'
  <1> SUFFICES ASSUME OInv, [PNext]_pvars PROVE OInv'
    OBVIOUS
  <1>1. PInv /\ PInv'
    BY PStepInv DEF OInv
  <1>2. SUFFICES Disjoint(ram', root', held')
    BY <1>1, DisjointPrimed DEF OInv
  <1>3. CASE UNCHANGED <<ram, root, held>>
    BY <1>3 DEF OInv
  <1>4. CASE cpu' = "running" /\ ~Doomed(at)'
    <2>1. Well(ram', root', held')
      BY <1>1, <1>4, SafePrimed DEF PInv, Safe
    <2>2. QED
      BY <2>1, WellIsDisjoint
  <1>5. CASE UNCHANGED pvars
    BY <1>3, <1>5 DEF pvars, vars
  <1>6. ASSUME NEW t \in Tables, NewProcess(t) PROVE Disjoint(ram', root', held')
    BY <1>1, <1>6, NewProcessDisjoint
  <1>7. ASSUME NEW t \in Tables, EndProcess(t) PROVE Disjoint(ram', root', held')
    <2>1. cpu' = "running" /\ at' = Idle
      BY <1>7 DEF EndProcess, Destroy, Running
    <2>2. QED
      BY <1>4, <2>1, IdleFacts DEF Doomed
  <1>8. ASSUME NEW t \in Tables, NEW elf \in BOOLEAN, NEW image \in Images,
               load_from_elf(t, elf, image)
        PROVE  Disjoint(ram', root', held')
    BY <1>3, <1>8 DEF load_from_elf, Stop
  <1>9. CASE NextSegment
    BY <1>3, <1>9 DEF NextSegment, Stop
  <1>10. CASE AllocDest
    <2>1. cpu' = "running" /\ at.pc = "page" /\ at' = [at EXCEPT !.pc = "add", !.dest = alloc_page(ram).page]
      BY <1>10 DEF AllocDest, Running
    <2>2. at \in Loaders
      BY <1>1, <2>1, IdleFacts DEF PInv
    <2>3. at'.pc = "add"
      BY <2>1, <2>2 DEF Loaders
    <2>4. QED
      BY <1>4, <2>1, <2>3 DEF Doomed
  <1>11. CASE AssertFails
    BY <1>3, <1>11 DEF AssertFails, Stop
  <1>12. CASE AddDest
    BY <1>1, <1>12, AddDestDisjoint
  <1>13. CASE CopyDest
    <2>1. CASE Stop
      BY <1>3, <2>1 DEF Stop
    <2>2. CASE cpu' = "running" /\ at'.pc = "page"
      BY <1>4, <2>2 DEF Doomed
    <2>3. cpu = "running" /\ at.pc = "copy"
      BY <1>13 DEF CopyDest, Running
    <2>4. at \in Loaders
      BY <1>1, <2>3, IdleFacts DEF PInv
    <2>5. QED
      BY <1>13, <2>1, <2>2, <2>3, <2>4 DEF CopyDest, Loaders
  <1>14. CASE SegmentDone
    BY <1>3, <1>14 DEF SegmentDone
  <1>15. CASE SetEntry
    BY <1>3, <1>15 DEF SetEntry, Stop
  <1>16. QED
    BY <1>5, <1>6, <1>7, <1>8, <1>9, <1>10, <1>11, <1>12, <1>13, <1>14, <1>15 DEF PNext

(* Whatever the loader is given and whatever it ignores, in every state up *)
(* to a panic and after it: no page is at two places of the page tables,   *)
(* or at one and held or free (process.cpp:58-80, vmm.cpp:102-137).  A     *)
(* NULL it has mapped is mapped once at most: the copy into it faults.     *)
THEOREM LoaderKeepsOneUse == PSpec => []OneUse
  <1>1. OInv => OneUse
    BY DisjointMeansOneUse DEF OInv
  <1>2. QED
    BY <1>1, InitOInv, OStepInv, PTL DEF PSpec
=============================================================================
