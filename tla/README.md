# A verification project for the kernel in `os/`

The repository is a small RISC-V teaching kernel that runs in S mode on QEMU's
`virt` machine: it sets up its physical pages and the interrupt controller,
brings up a legacy virtio disk, and has the parts of what comes next (Sv39 page
tables, a process loader, disk requests) written but not called from the boot.
This directory holds TLA+ modules translated from that source, TLC
configurations that check them, and TLAPS proofs about the page allocator, the page
tables, the loader, the request queue, the boot, and the interrupt-driven disk driver that
the repository keeps as its reference.

## 1. The system

| component | source (`src/os/src/`) | state | operations |
|---|---|---|---|
| physical page allocator | `pmm.cpp`, `memlayout.hpp` | `free_pages_list` and the links in the free pages | `pmm_init`, `alloc_page`, `free_page` |
| page tables | `vmm.cpp`, `vmm.hpp` | `root` of each `PageTable`, and the entries in pages of RAM | constructor, destructor, `add`, `lookup`, `erase`, `make_satp` |
| process loader | `process.cpp`, `process.hpp`, `elf.hpp` | a page table, `mapped_info`, `trapframe` | constructor, destructor, `load_from_elf` |
| disk initialisation | `FS/MMIO.cpp` | the device's registers | `virtio_blk_init`, `write_mmio_32/64`, `read_mmio_32` |
| disk request queue | `FS/MMIO.cpp` | `vq`: descriptor table, free list, available ring; `hdr` on the stack; `disk_info` | `virtio_submit_request`, `alloc_desc_chain`; uncalled: `free_desc_chain`, `alloc_desc`, `alloc3_desc`, `free_desc`, `free_chain` |
| boot | `asm/s_entry.S`, `s_start.cpp` | `reach_s_start`, `stvec`, `sstatus`, `sie` | `_entry`, `s_start` |
| interrupt controller | `PLIC.cpp`, `PLIC.hpp` | priorities, enable words and thresholds of two contexts | six set-up functions; uncalled: `plic_claim`, `plic_complete` |
| trap handler | `strap.cpp` | none | `smode_trap_handler`, a panic |
| memory and string functions | `string.cpp` | none | `memcpy`, `memset`, `memmove`, `str*`, `safestrcpy`, `atol` |
| printing | `kernel_print.cpp` | none | `printf` and friends |
| panic, assert, firmware | `debug_utils.hpp`, `assert.hpp`, `sbi.hpp` | none | `panic`, `assert`, SBI calls |
| reference driver | `参考资料/virtio_disk.cpp` (not built) | `disk`: descriptors, rings, `used_idx`, `info`; `b->disk` of each buffer | `virtio_disk_ext4_rw`, `virtio_disk_intr`, the descriptor functions; `virtio_disk_rw`, `virtio_disk_init` |

How they interact. `s_start` calls `pmm_init`, sets the trap vector, lets
interrupts in, programs the controller, calls `virtio_blk_init` and panics with
"victory". Page tables and the loader call the allocator; the tables, the pages
they map and the links of the free list share one RAM. The driver and the device
share the rings in RAM and the registers; the device answers with an interrupt,
and every trap, interrupt or fault, ends in the handler's panic. In the reference driver
processes, the interrupt handler and the device meet: a process sleeps on its buffer
until the handler has read the device's completion and wakes it.

What is hard, and so what the properties are about:

* **overlay**: one word is a free list link, a table entry and user data in turn;
  the allocator trusts words its clients have written over;
* **exhaustion in the middle**: `alloc_page` returns NULL, `alloc_empty_page`
  clears page 0, half an `add` has happened;
* **the device as a second actor** that reads RAM while the kernel's stores are on
  their way, and a notification it may act on too early;
* **a fixed order of register writes**, each of which may fail its read-back;
* **interrupts** let in before everything is programmed, on a controller whose
  contents the firmware leaves;
* **page arithmetic** in the loader, on unsigned numbers;
* **sleep and wakeup** in the reference driver, with completions in any order, between any
  two accesses of the handler, and descriptors in use again as soon as a call returns.

The components' correctness conditions are stated with the modules in section 2.
`PROJECT.json` lists the hazards at their lines.

## 2. The modules

`PhysMem` is RAM and the two allocator operations as operators. `Pmm` and `Vmm` extend it with
actions; `Process` extends `Vmm`. `Kernel` composes `Boot` and `VirtioInit`. `KPrint` extends
`KString`. `VirtioQueue` and `VirtioDisk` stand alone. `PageAllocator`, `AddressSpace` and
`DiskService` are abstract specifications. Operators that end in a capitalised remark
(`free_page_HeadFirst`) and are commented "Mutant" are wrong versions of a definition: put in
its place, they make a named property fail. No specification uses them.

**PhysMem, Pmm** (`pmm.cpp`). An address is counted in pages, which is exact
because `linker.ld:36` aligns `_kernel_end`. A word is a page address and a set of
flags, so that it can be read as a link or as a page table entry. `ram.mem` is
the contents, `ram.free_pages_list` the head; `ram.free` is a history variable,
the list as a sequence, that no operation reads. `pmm_init` is one round of the
loop, `AllocPage` and `FreePage` the calls, `ClientStore` a holder writing any
word anywhere in its page. A client frees only what it holds; the code checks
nothing, so a double free is outside the model.
*Properties*: the links spell the history and repeat no page (`FreeListIntact`);
free and held pages divide what `pmm_init` has passed (`PagesAccounted`);
`Pmm` implements `PageAllocator` (`ImplementsPageAllocator`).

**Vmm** (`vmm.cpp`). `page_walk`, `page_walk_alloc` and `Map` (the body of `add`)
are functions of RAM that follow the code's branches. `cpu = "halted"` is the
store fault of `memset(NULL, 0, PGSIZE)`, which the trap handler turns into a
panic. `Key` drops the page offset and the bits from 39 on, as the code does. `call`
records the last call and its result. Clients add pages they hold, with a
permission that has R (the callers, `process.cpp:58,65`, pass no other), and keep
a page `add` refuses. `MMUTranslate` is the hart's own Sv39 walk, external to the code.
It faults unless the bits above the indices all equal the highest index bit, that is, unless
the address is `Canonical`: below `MAXVA` (`riscv.hpp:207`) or as far below the end of the
address space. The code makes no such check and never uses `MAXVA`.
*Properties*: no page has two uses, among free, held, root, middle table, low table
and mapped (`OneUse`); `lookup` and the hardware agree on every canonical address
(`LookupAgreesWithMMU`; on any other one `lookup` answers for the canonical address with the
same indices, while the hardware faults, so nothing is claimed of those);
each table is a map in which `add`, `erase` and `lookup` touch one key and nothing a
page owner stores touches any (`ImplementsAddressSpace`, refinement of
`AddressSpace` with the map read off the tables); the destructor, which frees nothing
although `vmm.hpp:43` says it does, is the only call that loses pages
(`OnlyDestroyLosesPages`).

**Process** (`process.cpp`). `at` is the loader's place and its locals. The copy reads from a
file offset taken for an address, so it faults or yields anything; the store through
`trapframe`, which nothing sets, faults, goes unnoticed or leaves the model in "undefined",
where no property says anything. A buffer that does not begin with the magic number, and an
image of more than two segments, fail an assert. A failed assert stops the machine:
`assert.hpp:5` prints the line number with `%s`. Arithmetic is modulo `UINT64`. A process is
loaded once; the process that ends is the one that was loaded, or one that never was.
*Properties*: `OneUse` again; a mapped page has the rights of a segment of the image and is a
page (`RightsOfASegment`); of a segment that ends within the address space no page is taken,
mapped or filled without a byte of the segment left for it, and `remaining_size`, which is
unsigned, has not wrapped there (`BytesForEveryPage`). This holds of the number of pages as the
code has it, divided by the page size twice (section 3). Divided once, the number would cover a
segment that begins within a page and reaches into one page more than its size fills, and the
loop, which counts full pages from the first byte, would then come to that page with nothing
left: the assertion would stop the loader there. So whoever corrects the one line finds that the
other has to change with it.

**VirtioInit** (`virtio_blk_init`). `Handshake` is the sequence of writes,
`Acceptable` the checks made before a write, `write_mmio_32` the store and its
read-back. `Readable` says which registers read back what was written: the
code needs all of them to, while `MMIO.hpp` calls some write-only. The run `kernel`
takes them all as readable, to look past that fault; a violation run takes
the header at its word.
*Properties*: a device told DRIVER_OK has a complete queue
(`LiveMeansConfigured`) and is not touched again (`SetUpPrecedesLive`); the
initialisation succeeds on exactly the suitable devices (`VictoryOnSuitable`, which
the violation run refutes; in the boot it is `VictoryUnlessTrapped`).

**VirtioQueue** (`virtio_submit_request`). `pending` holds the stores that are not
yet in RAM, in segments a fence separates: within a segment they arrive in any
order (`Drain`). `Publish` is the description of a request, the fence, and
`avail.idx`. The store to `QUEUE_NOTIFY` is to a device register; "fence w, w" does
not order earlier stores to RAM with it. `device.ordered`, chosen at the start, is a
machine that orders them by itself. `hdr` is one stack slot: the next request writes to it again and
any other call may (`Return`). The device takes ring entries, sleeps when it sees
none, and serves what it took, reading the header then. An interrupt leads to the
handler's panic. The rings are assumed to be where the device reads them, which they are not
today (section 3); `s_start` panics before the only call of
`virtio_submit_request`, so the module is about the operation, not about today's boot.
*Properties*: descriptors are never shared (`ChainsAreAllocated`) and, while the machine runs,
never lost, because the panic follows upon the allocation that keeps two and returns none
(`NoDescriptorLost`); the device takes
each request once, in order, fully written (`TakenAsSubmitted`); where the machine
orders the notification it takes every request (`TakenWhereOrdered`).

**Boot** (`s_start.cpp`, `PLIC.cpp`, `strap.cpp`). `at` is the next call of `s_start`;
stores that interrupts may separate are separate steps. The store of `plicinithart` replaces
the enable word of the sources 1 to 31 (`FirstWord`); those of the sources from 32 on stay as
they are. `plic` has priorities,
pending sources, and enable words and thresholds for contexts M and S.
`Deliverable` is the controller's rule, external. The firmware leaves any uniform
priority and threshold, any of some sets enabled, SEIE either way and SIE off, as the
SBI hands over. The module begins at the trap vector: what `s_start` does before it, with
interrupts off, is in section 5. Whether `virtio_blk_init` returns is left open here.

**Kernel** puts the handshake of `VirtioInit` (`Disk`) in the place of that call: while
`s_start` is in `virtio_blk_init` the handshake takes its steps, devices raise their lines and
the hart may trap after any of them; the call returns or panics as the handshake says.
*Properties* of the two: a trap goes to the kernel's vector (`TrapsAreVectored`); from
`plicinithart` on, of the sources 1 to 31 only disk and UART can interrupt (`OnlyKnownSources`;
a source from 32 on that the firmware left enabled, such as the virt machine's PCIe interrupts,
can stop the boot after it too) and both can (`SourcesArmed`); the properties of `VirtioInit`,
now with traps in the middle; a disk told DRIVER_OK is heard, at the kernel's vector
(`LiveDiskIsHeard`); `s_start` gets to its "victory" on hart 0 with a suitable disk unless a
trap stops it, and otherwise the machine stops (`VictoryUnlessTrapped`).

**KString** (`string.cpp`). Each function is a function of memory that follows its loops; a
behaviour is one call on any memory. `memset` builds its word by the code's three shifts
(`Replicated`) and stores it word by word, or stores byte by byte (`Store`). The properties are
reference definitions: blocks are copied as they were before the call, strings are sequences up
to a terminator, and nothing outside the destination changes. Calls are made on strings that end
in memory; so that the walks along them are functions of any memory, they stop at its end, which
no call reaches.

**KPrint** (`kernel_print.cpp`, `atol`). `printf` is the walk along the format with its
arguments; a format is put together from pieces, so that none ends in a lone `%` and each
conversion has its argument, of its type (`PieceAssumption`). `print_d` takes the digits as the
code does, with C's division, `print_p` by shifts of four bits. `num = -num` overflows for the
least int, which is undefined; the Makefile sets no optimisation, and unoptimised code wraps
(`AsInt`). What prints then depends on the last digit of the least int, which is 8 in the code
and in every instance (`PrintAssumption`).
*Properties*: every piece prints as it would alone (`FormatsAreFilled`); what `%d` and `%p`
print reads back as the number, but for the least int, which prints as `-(`
(`NumbersReadBack`).

**VirtioDisk** (`参考资料/virtio_disk.cpp`). Each process is idle, between the fence and the
notification (`"post"`), asleep on its buffer, woken, or starved: asleep for descriptors. The
lock and `sleep`/`wakeup` are another kernel's and external: `acquire` waits for `lock = None`,
`sleep` gives the lock up as it falls asleep, and a woken process takes it again. What runs
under the lock without waiting is one action, except that the device sees the ring before and
after `avail[1]` is stored, and acts between any two accesses of the handler: `Interrupt`,
`AnswerOne`, `NoneLeft`, `Ack`. `Found` is what three calls of `alloc_desc` find, `Ascending`
the order they find it in, `Marked` the free flags they leave; when they find too few,
`GivenBack` is what the loop of `alloc3_desc` passes to `free_desc` again (`LackDescriptors`).
`Chain` is the chain as `NEXT` and `next` tell it, which `free_chain` and the device both
follow. A ring entry that has been read is replaced by `Gone`, so that reading it again shows;
no code reads that value on a correct path. `device.late` is history. The stores' order is left
to `VirtioQueue`.

*Properties*: each descriptor is free or belongs to one call
(`DescriptorsAccounted`); the head of each waiting call is in exactly one of ring, device and
used ring (`OnePlaceEach`); its chain, buffer and status byte are what it put there
(`ChainsUndisturbed`); the driver's panics about descriptors and its NULL buffer are out of
reach (`NeverFaults`); no call returns before it is served, none is answered twice
(`ImplementsDiskService`, refinement of `DiskService` with the phase read off the rings); a
sleeper returns (`SleepersReturn`, checked of one process, since all are alike), with two
exceptions: the device reports an error, which is the handler's panic, or its completion came
between the handler's last look at the ring and the acknowledgement (`virtio_disk.cpp:332`),
which clears that interrupt unread. Such a completion waits for the next interrupt, and if no
other request is under way there is none. `FinishedIsSaid` is the promise of the comment at
`:308` without that exception, and a violation run shows it broken.

## 3. The runs

Passing runs:

| run | bounds | why they are enough |
|---|---|---|
| `pmm` | 4 pages of 1 word, 3 store values, any initial contents | every order of allocation, free and store on lists of length 0 to 4; a stale link and a valid entry are among the values stored |
| `vmm_one` | 6 pages of 2 words, 1 table, 4 addresses (two share a low table, one of them off a page boundary; one is of the upper half, in another low table; one is not canonical and has the key of the first), `MaxHeld` = 1, address space of 64 bytes | a table takes 3 pages, so the runs include maps of two pages, exhaustion at each of the allocations of an `add`, and a table rebuilt over stale pages |
| `vmm_two` | 8 pages, 2 tables, 1 address, `MaxHeld` = 1, symmetry of tables | both tables with all their levels and a mapped page take exactly the 8 pages: they compete for every one |
| `process` | 8 pages of 2 words and 2 bytes, 9 images, with the magic number and without | segments of none to four pages, near, far, misaligned, colliding, of unknown kind, too many; RAM runs out in some |
| `kernel` | 5 sources, one of them in the second enable word, 2 harts, 2 priorities and thresholds, 2 enable words; every combination of the probed registers, 2 offers, 2 queue sizes | every place of an interrupt among the steps of boot and handshake, on a controller that masks nothing, some or all; all outcomes of every check |
| `virtio_queue` | the code's 8 descriptors, 3 requests | two requests fit and the third panics: there are no other behaviours |
| `kstring` | 8 bytes in words of 4, contents 0, 1, 255; formats of up to 3 of 10 pieces, ints of 12 bits, pointers of 8 | two words, a word and a tail, or a tail, at aligned and unaligned addresses; memmove with every overlap; every conversion before and after every other; every int and pointer of that width |
| `virtio_disk` | the code's 8 descriptors, 3 processes, indices modulo 16 | two requests are outstanding and a third process finds two descriptors and gives them back; more processes would only starve. 65536 is a multiple of 16 too, so the indices modulo `NUM` are the same, and they go twice around the rings before they wrap, as every `% NUM` of the code must bear |

`CHECK_DEADLOCK FALSE` is set where the machine may stop: after a panic, or after
the one call of `kstring`, or, in the runs of `VirtioDisk`, when every process is asleep for
descriptors that nothing will wake it for. `pmm` never stops.

Bounds named in the modules: `MaxHeld` (Vmm) limits the pages clients keep
unmapped, `MaxPieces` (KPrint) the pieces of a format; `IdxMod` (VirtioDisk) is where ring
indices wrap; nothing else is capped. Symmetry is used in `vmm_two` only, which has no
liveness property.

Violation runs, each a statement of the repository's own that the code does not
keep (`PROJECT.json` quotes the lines):

| run | what it shows |
|---|---|
| `virtio_init_victory` | the read-back of a write-only register panics |
| `virtio_queue_kick` | the notification may overtake the index, and the request is never taken |
| `virtio_queue_header` | the header the device reads may be on a stack frame that is gone |
| `virtio_disk_lost` | with two processes: a request finished between the handler's last look at the ring and its acknowledgement is never answered (`virtio_disk.cpp:332`) |

What else the translation brought to light, without a run of its own because it can be
read off the lines: the loader divides `pages_need` by the page size once too often
(`process.cpp:52`) and maps the address `PAGE_NUMBER(vaddr) + j*PGSIZE`, a page number taken
for an address (`:76`), so that only a segment of one page at address 0 is where its header
says; the data segment's size goes to `code_addr` (`process.cpp:64`); the
destructor of a page table frees nothing (`vmm.cpp:56`); a request takes three
descriptors where the comment says two (`MMIO.cpp:272`), and the second has no NEXT flag,
so that the status byte is never written (`:311`); the available ring is not behind the
descriptors, where a legacy device looks (`:206`); `plic_claim` and the enabling of
source 8 address the M context (`PLIC.cpp:69`, `:99`); the least int prints as `-(`
(`kernel_print.cpp:63`). In the reference driver the wakeup of those who wait for descriptors is
commented out (`:132`), so that a process that once found too few never returns, and
`virtio_disk_init` writes DRIVER_OK before the queue exists (`:82`), which `MMIO.cpp` puts
right.

The virtio faults are independent. `Readable`, `device.ordered` and `device.late` let one
property look past one fault at what is behind it; none is told to ignore a fault it is
about.

**Fairness.** `VirtioInit` has weak fairness of its steps: it is a straight line of code.
`KernelSpec` has weak fairness of the handshake and of the steps of the boot that move it on, a
trap that may be taken among them; devices need not raise anything. `VirtioDisk!FairSpec` has
weak fairness of a process that holds the lock, of the handler once it has it, and of the device
taking, completing and signalling what it was told of. `Return` and `Interrupt` wait for a lock
that is free again and again but not for good: strong fairness says that nobody who waits for it
is passed over for ever, which a spinlock among a few processes, and an interrupt that stays
pending, give. Nothing makes a process call. `VirtioQueue!FairSpec` has weak fairness of `Drain`
(a store reaches RAM in finite time), `Notify` and `Return` (a call that was begun goes on), and
`DeviceTakes` and `DeviceSleeps` (an awake device looks at the ring, as a virtio device must).
Nothing forces the kernel to submit, the device to serve, or an interrupt to come.
`TakenWhereOrdered` and `EventuallyTaken` allow for the panic, because the handler stops the
machine.

## 4. The proofs

Everything here holds for all values of the constants that satisfy the named assumptions of
the modules. Each theorem is an invariant or a refinement of the specification that the
runs check on small instances.

**The allocator.** `PhysMem_proofs` has the lemmas about `alloc_page` and `free_page` as
operators on RAM; `Pmm_proofs` has the theorems about `Pmm!Spec`:

* `TypeCorrect`: `Spec => []TypeOK`;
* `FreeListSafe`: `Spec => []FreeListIntact`;
* `NoPageLostOrShared`: `Spec => []PagesAccounted`;
* `Refinement`: `Spec => ImplementsPageAllocator`.

All follow from `Invariance`. None of the three properties is inductive alone:
`alloc_page` takes the next head from memory, which is right only if the links
spell the history; a client's store keeps the links only if the page it holds
is not on the list; and `free_page` keeps the list free of repetitions only if the
page freed was held. The inductive invariant is their conjunction, with the cursor's
range. The proof has one step per action, each from the lemma on the operator it uses.

The assumptions are those of `PhysMem` and `Pmm`: page 0 is not a page of RAM (the
kernel is linked at 0x80200000), pages have at least one word, and clients store words.

**The page tables.** `Vmm_proofs` has the lemmas about the operators of `Vmm` (`step`,
`page_walk_alloc`, `Map`, the erasure), as functions of RAM, and then the theorems:

* `TypeCorrect`, `FreeListSafe`: `Spec => []TypeOK`, `Spec => []FreeListIntact`;
* `NoPageHasTwoUses`: `Spec => []OneUse`;
* `OnlyDestroyLoses`: `Spec => OnlyDestroyLosesPages`;
* `LookupIsTranslation`: `Spec => []LookupAgreesWithMMU`;
* `Refinement`: `Spec => ImplementsAddressSpace`.

`OneUse` is not inductive: nothing in it says what the words of a table are, and a table
entry that is a stale link would lead anywhere. The inductive invariant `Well` looks at the
forest of tables level by level (`RootPages`, `MiddlePages`, `LowPages`, `MappedPages`): at
each level every entry is a valid one that leads to a page of RAM, with the flags of that
level, or `INVALID_PTE` (`Shape`); no two entries of a level lead to the same page
(`OneParent`); and the free pages, the held pages and the four levels are pairwise disjoint
(`Apart`). A call is a sequence of steps that each keep `Well`: a page taken from the free
list counts as held until it is hung in a table, which makes the half-done `add` of an
exhausted memory an ordinary state. What is hung must have been cleared (`LevelGrows`), the
place of a word in a low table determines table and key (`PathsPart`), and so one store
changes one entry of one map (`LeafWritten`); `MapCorrect` and `EraseCorrect` put these
together, and the refinement has one case per call. `TablesAreLevels` and `PlacesAreLevels`
show that the places that `OneUse` counts are these levels.

`LookupIsTranslation` is for every canonical address, of the lower and of the upper half.

The assumptions: a page has at least one byte; addresses are numbers below `UINT64`
(`AddressAssumption`); owners store words; every permission that a client passes has V and R.

**The loader.** `Process_proofs`, for `PSpec` and every set of images:

* `LoadedWithRights`: `PSpec => []RightsOfASegment`;
* `AlwaysBytesLeft`: `PSpec => []BytesForEveryPage`;
* `LoaderKeepsOneUse`: `PSpec => []OneUse`.

The first needs to know of every moment of the loop whose the page is (`Safe`): the loader's own
between `alloc_page` and `add`; then mapped, or, when `add` refused it, nobody's, and still
nowhere else. A NULL from an exhausted allocator is mapped as if it were a page, and that breaks
`Well`; the copy into it then faults, so `PInv` asks for `Safe` in no other state. For `OneUse`
that is too little, since it is claimed of those states and of a halted machine too: `Disjoint`
is what `Well` leaves there, with NULL as something an entry may lead to, once. The second
theorem is arithmetic: for a segment that has bytes, `pages_need` as the code has it is never
more than the pages its bytes fill, and for one that has none the assertion fails before the
first page is taken (`SegmentArithmetic`); so at every page what is left is a positive number of
bytes, and the subtraction can wrap after the last page only.

The assumptions: the fields of a program header are below `UINT64`, and the two permissions
the loader uses are among those the clients of `Vmm` pass.

**The request queue.** `VirtioQueue_proofs`:

* `TypeCorrect`: `Spec => []TypeOK`;
* `ChainsApart`: `Spec => []ChainsAreAllocated`;
* `NoneIsLost`: `Spec => []NoDescriptorLost`;
* `TakenInOrder`: `Spec => []TakenAsSubmitted`.

The driver takes three descriptors off the list and then uses `head`, `head + 1` and
`head + 2`; these are the same because the free list is the interval of the descriptors not
used yet (`ListInOrder`). None is lost because the list runs from its head through all of that
interval (`ListIsTheRest`, by `SetInduction`) until an allocation fails, and then the machine
stops. For `TakenInOrder` the invariant says of every store on its way to RAM
that it belongs to the description of some request or is an index, that no
description is behind the index that announces it (the one fence of a submission), and that
what is not on its way any more is in RAM as it was written. So what the device can see of the index
is announced, whatever order the stores arrive in. The number of descriptors is any that a
uint16 can count; the indices of the ring do not wrap, because descriptors are never given back.

**The boot.** `Kernel_proofs`, for `KernelSpec`, any of the controller's 1023 sources, harts,
priorities and enable words, any offers and queue sizes of the disk, any page of the table
and any set of registers that read back:

* `TrapsReachTheKernel`: `KernelSpec => []TrapsAreVectored`;
* `UnknownSourcesAreOut`: `KernelSpec => []OnlyKnownSources`;
* `KnownSourcesAreIn`: `KernelSpec => []SourcesArmed`;
* `LiveDiskIsConfigured`: `KernelSpec => []LiveMeansConfigured`;
* `LiveDiskReachesTheKernel`: `KernelSpec => []LiveDiskIsHeard`;
* `LiveDiskIsLeftAlone`: `KernelSpec => SetUpPrecedesLive`.

Each of these speaks of what an earlier call or write has set up, and is not
inductive. The invariant `IInv` of that module says what has been set up at each place of
`s_start` (`VectorFirst`, `ControllerAsStored`) and after each number of writes of the
handshake (`RegistersAsWritten`), and that no write has been made before `virtio_blk_init` is
reached, which is what joins the two halves. `BootSteps` has a step per call of `s_start`,
`WriteInv` a case per write. `UnknownSourcesAreOut` is about the sources of the first enable
word, which the kernel replaces; of the others the invariant says, as the code does, nothing.
The assumption is that of `Boot`: the disk, the UART and source 8 are among the sources, and
priorities fit three bits.

**The reference disk driver.** `VirtioDisk_proofs`, for `VirtioDisk!Spec` (which `FairSpec`
implies), any set of processes, any queue of at least three descriptors, and ring indices
that wrap at any multiple of its size, so at 65536 too:

* `TypeCorrect`: `Spec => []TypeOK`;
* `DescriptorsKept`: `Spec => []DescriptorsAccounted`;
* `ChainsKept`: `Spec => []ChainsUndisturbed`;
* `OnePlace`: `Spec => []OnePlaceEach`;
* `NoFault`: `Spec => []NeverFaults`;
* `Refinement`: `Spec => ImplementsDiskService`.

None is inductive, and they need each other: that the handler finds a buffer at the head it
reads follows from where heads can be, that from who owns a descriptor, and that from
`free_chain` freeing what the call took and nothing else. `DriverInv` is built in this order.

1. `Locks`: who is between the fence and the notification, or in the handler, has the lock.
2. `CallInv`: a descriptor that is not free belongs to one call (`Owners`), and holds what
   that call wrote there (`Described`). So `Chain` gives the three descriptors of the call:
   `ChainIsDefined` and `ThreeLinks` show that the recursive function exists and unfolds,
   by an induction over sets of numbers (`SetInduction`).
3. `RingInv`: what is unread in the two rings and what the device holds are disjoint, have no
   head twice, and are together the heads of the calls that wait. A posted entry must not
   overrun the reader; the code has no check of that. It does not because heads differ and the
   second descriptor of a call is never one, so there are at most `NUM - 2` others
   (`RoomInRing`, the pigeonhole principle).

The lemmas about remainders say what the stretch between two wrapping indices becomes when
either moves on by one (`QueueGrows`, `QueueShrinks`, `UsedGrows`, `UsedShrinks`). TLC
finds no state that violates `DriverInv` on the instance of `virtio_disk`, nor with four
descriptors and indices that wrap at 12.

**Strings and printing.** `KPrint_proofs`, for `PrintSpec`, which takes the calls of `KString`
in, any size of memory, of a word and of a byte, any contents, ints and pointers of any width,
and formats of any pieces and any length:

* `CallsFindMemory`: `PrintSpec => []CallInv`;
* `BlocksWritten`: `PrintSpec => []BlocksAreWritten`;
* `StringsRead`: `PrintSpec => []StringsAreRead`;
* `StringsBuilt`: `PrintSpec => []StringsAreBuilt`;
* `FormatsFilled`: `PrintSpec => []FormatsAreFilled`;
* `NumbersRead`: `PrintSpec => []NumbersReadBack`.

Of the states they need only that a call finds bytes in memory, and the memory `before` holds
(`CallInv`), and that a format is put together from pieces of the right types (`PiecesInv`).
The work is in the functions. A loop is a recursive function in the model, and its proof has
three parts: the function exists and unfolds (`WalkExists`, `StepsExist`, `FormatWalkExists`,
`DigitsExist`), it has a closed form, and the property is about that form. All inductions are
instances of `SetInduction`, over a set of numbers where a textbook has a predicate.

* `Moved` is the closed form of a copy. A loop over bytes or words has it if it never reads
  what it has already written: forwards when the destination is not inside the source, backwards
  when it is not below it (`ForwardMoves`, `BackwardMoves`). `memmove` takes the direction that
  is right for the overlap, and `memcpy` is a loop over words with one over bytes behind it,
  which together move what a single one would.
* `Filling` is that of a row of stores of the same bytes (`StoreFills`), and the word that
  `memset` stores has the byte everywhere, if it is of eight bytes or fewer (`ReplicatedIs`).
* A walk along a string ends at the first byte that stops it (`WalkEnds`), the one that the
  definition of a string takes.
* What `printf` makes from a piece on is the meaning of the piece followed by what it makes from
  the next piece on, with the arguments in step (`PieceWalked`); `Filled` goes from the last
  piece to the first.
* The digits of a number are those of its quotient and one more, and their value follows the
  same way (`DigitsAreDecimal`, `ValueAppend`). For a pointer the value of the first digits
  is the pointer with the other ones shifted out, and nothing is left after all of them
  (`PointersReadBack`).

The assumptions are those of the modules: `MemoryAssumption` (with words of up to eight bytes,
which is as far as the shifts of `memset` reach), `PrintAssumption` and `PieceAssumption`.

**Checked by TLC only.** Liveness (`VictoryUnlessTrapped`, `SleepersReturn`,
`TakenWhereOrdered`) is out of the prover's reach, and `VictoryOnSuitable`, `FinishedIsSaid` and
the other properties of the violation runs are false. Every invariant of a passing run is a theorem.

## 5. Not modelled

* `plic_claim`, `plic_complete`, `free_desc_chain` and the `disk_free` functions of
  `MMIO.cpp`: nothing calls them. `disk_free` is all zero, so `alloc_desc` would always
  fail; the same functions of the reference driver are in `VirtioDisk`.
* `printf` with a format that ends in a lone `%`, which reads past its end: no call has one.
* The callback of a disk request: `MMIO.hpp:15` promises it, no code keeps or calls
  it.
* The `sfence.vma` that changes to an active page table would need: translation
  is never turned on.
* What `s_start` does before it sets the trap vector: its guard against a second entry
  (`s_start.cpp:61-66`; nothing enters twice), and `hello` (`:67`), which prints, keeps the hart's
  number in `tp` and runs `pmm_init`, whose loop `Pmm` has. Interrupts are off until `:72`.
* More than one hart: `plicinithart` panics on any but hart 0, which `Boot` has.
* `panic` returning: `sbi_shutdown` is taken not to return.
* `virtio_disk_rw` of the reference driver: the `acquire` at `virtio_disk.cpp:160` is
  commented out while `:228` sleeps with that lock and `:234` releases it, and what those do
  to a lock that is not held is for a kernel that is not here.
* The register writes of `virtio_disk_init`, a handshake like that of `MMIO.cpp`
  without read-back; `VirtioDisk` starts after it.

## 6. Plan

In the order of importance; 1 to 11 are done.

1. `PhysMem`, `Pmm`, `PageAllocator` and their proofs: everything stands on them.
2. `Vmm` with `AddressSpace`; `Process` on top of it.
3. `VirtioInit` and `VirtioQueue`: the one place with real concurrency in what is built.
4. `Boot`, `KString`.
5. `VirtioDisk` with `DiskService`: the reference driver.
6. `Kernel`, the composition of boot and handshake, and its proofs.
7. `KPrint`.
8. Proofs about `Vmm`, from an invariant that says which page is at which level of the
   tables, with the refinement of `AddressSpace`; on top of them, the loader.
9. Proofs about `VirtioQueue`.
10. Proofs about `VirtioDisk`, with the refinement of `DiskService`.
11. Proofs about `KString` and `KPrint`: what their loops leave in memory and print, for blocks,
    strings, formats and numbers of any size.
12. The uncalled `free_desc_chain` of `MMIO.cpp` as an operation a client may use: the second
    descriptor has no NEXT flag, so a chain given back returns two of its three.
