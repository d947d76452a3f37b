------------------------------- MODULE Process -------------------------------
(***************************************************************************)
(* Process::load_from_elf (os/src/process.cpp): for each loadable segment  *)
(* of an image, allocate pages, map them in the process's page table and   *)
(* copy the contents.  The loader runs on the allocator and the page       *)
(* tables of Vmm and ignores what both return.  A failed assert prints     *)
(* with a format that takes the line number for a string; the read faults  *)
(* and the trap handler panics, so it stops the machine.                   *)
(***************************************************************************)
EXTENDS Vmm

CONSTANTS
  Images    \* ELF images: sequences of segments

Segments ==
  [load : BOOLEAN, vaddr : 0 .. UINT64 - 1, memsz : 0 .. UINT64 - 1, flags : SUBSET {"R", "W", "X"}]

ASSUME ImageAssumption == Images \subseteq Seq(Segments)

(* The loader is the client of the page tables. *)
ASSUME LoaderAssumption ==
  { permission_code(FALSE, TRUE, TRUE, TRUE, FALSE),
    permission_code(TRUE, TRUE, FALSE, TRUE, FALSE) } \subseteq Perms

VARIABLE at   \* where the loader is, and its local variables

pvars == <<vars, at>>

-----------------------------------------------------------------------------
Idle == [pc |-> "idle"]

PAGE_NUMBER(addr) == addr \div PGSIZE

Span(seg) == (PAGE_NUMBER((seg.vaddr + seg.memsz - 1) % UINT64) - PAGE_NUMBER(seg.vaddr)) % UINT64

(* Mutant: one page too many, as if the loop ran to j <= pages_need. *)
pages_need_OneMore(seg) == Span(seg) \div PGSIZE + 2

pages_need(seg) == Span(seg) \div PGSIZE + 1

(* Mutant: the writable bit is set for both kinds. *)
perm_AllWritable(seg) == permission_code(TRUE, TRUE, seg.flags = {"R", "X"}, TRUE, FALSE)

perm(seg) ==
  IF seg.flags = {"R", "X"} THEN permission_code(FALSE, TRUE, TRUE, TRUE, FALSE)
                            ELSE permission_code(TRUE, TRUE, FALSE, TRUE, FALSE)

(* The address of the j-th page: a page number taken for an address. *)
page_va(seg, j) == PAGE_NUMBER(seg.vaddr) + j * PGSIZE

(* mapped_info after a segment: the data segment's size goes to code_addr. *)
Record(info, seg) ==
  IF seg.flags = {"R", "X"}
  THEN [info EXCEPT !.code_addr = PAGE_NUMBER(seg.vaddr), !.code_page_num = pages_need(seg)]
  ELSE [info EXCEPT !.data_addr = PAGE_NUMBER(seg.vaddr), !.code_addr = pages_need(seg)]

NoInfo == [code_addr |-> 0, code_page_num |-> 0, data_addr |-> 0]

Seg == at.image[at.i]

PInit == Init /\ at = Idle

(* The page table is a member: it is built and torn down with the process. *)
(* A process is loaded once.                                               *)
NewProcess(t) ==
  /\ at = Idle
  /\ Construct(t)
  /\ UNCHANGED at

EndProcess(t) ==
  /\ at = Idle \/ (at.pc = "loaded" /\ at.t = t)
  /\ Destroy(t)
  /\ at' = Idle

Stop ==
  /\ cpu' = "halted"
  /\ call' = NoCall
  /\ UNCHANGED <<ram, root, held, at>>

(* Two assertions before the first segment; elf is whether the buffer      *)
(* begins with ELF_MAGIC.                                                  *)
load_from_elf(t, elf, image) ==
  /\ Running
  /\ at = Idle /\ root[t] # NULL
  /\ \/ /\ ~elf \/ Len(image) > 2
        /\ Stop
     \/ /\ elf /\ Len(image) <= 2
        /\ at' = [pc |-> "segment", t |-> t, image |-> image, i |-> 1, j |-> 0,
                  remaining |-> 0, dest |-> NULL, info |-> NoInfo]
        /\ call' = NoCall
        /\ UNCHANGED <<ram, root, held, cpu>>

(* The next segment header, or the end of the loop. *)
NextSegment ==
  /\ Running
  /\ at.pc = "segment"
  /\ \/ /\ at.i > Len(at.image)
        /\ at' = [at EXCEPT !.pc = "entry"]
        /\ call' = NoCall
        /\ UNCHANGED <<ram, root, held, cpu>>
     \/ /\ at.i <= Len(at.image) /\ ~Seg.load
        /\ at' = [at EXCEPT !.i = @ + 1]
        /\ call' = NoCall
        /\ UNCHANGED <<ram, root, held, cpu>>
     \/ /\ at.i <= Len(at.image) /\ Seg.load
        /\ Seg.flags \in {{"R", "X"}, {"R", "W"}}
        /\ at' = [at EXCEPT !.pc = "page", !.j = 0, !.remaining = Seg.memsz,
                            !.info = Record(@, Seg)]
        /\ call' = NoCall
        /\ UNCHANGED <<ram, root, held, cpu>>
     \/ /\ at.i <= Len(at.image) /\ Seg.load
        /\ Seg.flags \notin {{"R", "X"}, {"R", "W"}}
        /\ Stop

(* assert(remaining_size>0), of an unsigned number. *)
AssertHolds == at.remaining > 0

(* Mutant: one page serves a whole segment. *)
AllocDest_Once ==
  /\ Running
  /\ at.pc = "page" /\ at.j < pages_need(Seg)
  /\ AssertHolds
  /\ LET a == IF at.dest = NULL THEN alloc_page(ram) ELSE [page |-> at.dest, ram |-> ram]
     IN  /\ ram' = a.ram
         /\ at' = [at EXCEPT !.pc = "add", !.dest = a.page]
         /\ held' = held \cup ({a.page} \ {NULL})
  /\ call' = NoCall
  /\ UNCHANGED <<root, cpu>>

AllocDest ==
  /\ Running
  /\ at.pc = "page" /\ at.j < pages_need(Seg)
  /\ AssertHolds
  /\ LET a == alloc_page(ram)
     IN  /\ ram' = a.ram
         /\ at' = [at EXCEPT !.pc = "add", !.dest = a.page]
         /\ held' = held \cup ({a.page} \ {NULL})
  /\ call' = NoCall
  /\ UNCHANGED <<root, cpu>>

AssertFails ==
  /\ Running
  /\ at.pc = "page" /\ at.j < pages_need(Seg)
  /\ ~AssertHolds
  /\ Stop

(* page_table.add, whatever alloc_page returned; the loader does not look  *)
(* at the result, and keeps no page that add refuses.                      *)
AddDest ==
  /\ Running
  /\ at.pc = "add"
  /\ LET va == page_va(Seg, at.j)
         m  == Map(ram, root[at.t], va, at.dest, perm(Seg))
     IN  /\ ram' = m.ram
         /\ cpu' = IF m.fault THEN "halted" ELSE cpu
         /\ call' = IF m.fault THEN NoCall ELSE <<"add", at.t, Key(va), m.ret>>
  /\ held' = held \ {at.dest}
  /\ at' = [at EXCEPT !.pc = "copy"]
  /\ UNCHANGED root

(* memcpy from segment_header.off + j*PGSIZE, an offset taken for an       *)
(* address: the read faults or yields what happens to be there.  Copying   *)
(* to NULL faults.                                                         *)
CopyDest ==
  /\ Running
  /\ at.pc = "copy"
  /\ \/ Stop
     \/ /\ at.dest # NULL
        /\ \E c \in [Slots -> Stores] : ram' = [ram EXCEPT !.mem[at.dest] = c]
        /\ at' = [at EXCEPT !.pc = "page", !.j = @ + 1,
                            !.remaining = (@ - PGSIZE) % UINT64]
        /\ call' = NoCall
        /\ UNCHANGED <<root, held, cpu>>

SegmentDone ==
  /\ Running
  /\ at.pc = "page" /\ at.j = pages_need(Seg)
  /\ at' = [at EXCEPT !.pc = "segment", !.i = @ + 1]
  /\ call' = NoCall
  /\ UNCHANGED <<ram, root, held, cpu>>

(* trapframe->epc = elf_header.entry through a pointer no constructor has  *)
(* set: a fault, a harmless store, or one that leaves nothing to be said.  *)
SetEntry ==
  /\ Running
  /\ at.pc = "entry"
  /\ \/ Stop
     \/ /\ \E pc \in {"loaded", "undefined"} : at' = [at EXCEPT !.pc = pc]
        /\ call' = NoCall
        /\ UNCHANGED <<ram, root, held, cpu>>

PNext ==
  \/ \E t \in Tables :
       \/ NewProcess(t)
       \/ EndProcess(t)
       \/ \E elf \in BOOLEAN, image \in Images : load_from_elf(t, elf, image)
  \/ NextSegment \/ AllocDest \/ AssertFails \/ AddDest \/ CopyDest
  \/ SegmentDone \/ SetEntry

PSpec == PInit /\ [][PNext]_pvars

-----------------------------------------------------------------------------
(* The code and data segments. *)
Loaded == { i \in 1 .. Len(at.image) : at.image[i].load }

(* A page load_from_elf has mapped is mapped with the rights of one of the *)
(* image's segments, so no page is both written and executed, and it is a  *)
(* page the allocator gave, although alloc_page's NULL is not looked for.  *)
RightsOfASegment ==
  at.pc = "loaded" =>
    \A n \in { x \in Lows : x[1][1] = at.t } : \A i \in Slots :
      LET e == ram.mem[n[2]][i]
      IN  isValid(e) => /\ e.pa # NULL
                        /\ \E s \in Loaded : e.flag \cap {"R", "W", "X"} = at.image[s].flags

(* remaining_size (process.cpp:72-83) is what is really left of a segment, *)
(* and never nothing, at every page of a segment that ends within the      *)
(* address space: its unsigned subtraction wraps after the last page only, *)
(* so assert(remaining_size>0) stops no segment that has bytes, and a page *)
(* is never allocated, mapped or filled without a byte for it, not for a   *)
(* segment of no bytes either, whose number of pages is of no segment.     *)
Left == Seg.memsz - at.j * PGSIZE

PageDue ==
  \/ at.pc = "page" /\ at.j < pages_need(Seg) /\ Seg.memsz > 0
  \/ at.pc \in {"add", "copy"}

BytesForEveryPage ==
  PageDue /\ Seg.vaddr + Seg.memsz <= UINT64 => Left > 0 /\ at.remaining = Left
=============================================================================
