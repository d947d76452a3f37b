----------------------------- MODULE VirtioQueue -----------------------------
(***************************************************************************)
(* Submission of disk requests (os/src/FS/MMIO.cpp): the kernel fills      *)
(* descriptors and the available ring in RAM, advances avail.idx and       *)
(* writes QUEUE_NOTIFY; the device follows the ring at its own pace and    *)
(* interrupts.  Stores reach RAM late and, between two fences, in any      *)
(* order; the fence of memory_barrier is "fence w, w", which does not      *)
(* order stores to RAM with a store to a device register.  The queue is    *)
(* the one virtio_blk_init leaves behind, and the device reads the rings   *)
(* where the driver writes them; VirtioInit is about whether it does.      *)
(***************************************************************************)
EXTENDS Integers, Sequences

CONSTANTS
  Requests,            \* requests the kernel submits, each once
  None,                \* no request
  VIRTIO_QUEUE_SIZE    \* descriptors, 8 in the code

ASSUME QueueAssumption ==
  /\ VIRTIO_QUEUE_SIZE \in 1 .. 65535   \* indices are uint16, 0xFFFF is not one
  /\ None \notin Requests

VARIABLES
  free_desc_head,   \* vq.free_desc_head
  next,             \* desc[i].next as the kernel reads it
  avail_idx,        \* vq.avail->idx as the kernel reads it
  pc,               \* where the kernel is
  pending,          \* stores not yet in RAM: segments a fence separates
  ram,              \* what the device reads
  device,           \* the device's own state; ordered: the machine itself delivers
                    \* stores to RAM before a later store to its registers
  log               \* the requests submitted, in order, and their heads

kernel == <<free_desc_head, next, avail_idx, pc, log>>
vars   == <<kernel, pending, ram, device>>

-----------------------------------------------------------------------------
Indices == 0 .. VIRTIO_QUEUE_SIZE - 1
NIL     == 65535       \* 0xFFFF
IdxMod  == 65536       \* avail.idx is a uint16

(* A descriptor: what its address points to, and its flags. *)
Desc(what, req, flags, nx) == [what |-> what, req |-> req, flags |-> flags, next |-> nx]
NoDesc == Desc("nothing", None, {}, 0)

(* The stack slot of hdr once the frame is gone and reused. *)
Junk == None

Store(at, i, val) == [at |-> at, i |-> i, val |-> val]

(* Mutant: one descriptor fewer is taken off the list. *)
alloc_desc_chain_OneShort(h) ==
  LET h1 == IF h = NIL THEN NIL ELSE next[h]
      h2 == IF h1 = NIL THEN NIL ELSE next[h1]
  IN  [ret |-> IF NIL \in {h, h1} THEN NIL ELSE h, rest |-> h2]

(* alloc_desc_chain(3): the head and what is left of the list.  When the   *)
(* list ends too soon, what was taken off it is not put back.              *)
alloc_desc_chain(h) ==
  LET h1 == IF h = NIL THEN NIL ELSE next[h]
      h2 == IF h1 = NIL THEN NIL ELSE next[h1]
  IN  [ret  |-> IF NIL \in {h, h1, h2} THEN NIL ELSE h,
       rest |-> IF h2 = NIL THEN NIL ELSE next[h2]]

(* The stores that describe request r at head: the header on the stack,    *)
(* the three descriptors, and the ring entry.  desc[head+1] gets no NEXT.  *)
Describe(r, head, write) ==
  {Store("hdr", 0, r),
   Store("desc", head, Desc("hdr", r, {"NEXT"}, head + 1)),
   Store("desc", head + 1, Desc("data", r, IF write THEN {} ELSE {"WRITE"}, next[head + 1])),
   Store("desc", head + 2, Desc("status", r, {"WRITE"}, 0)),
   Store("ring", avail_idx % VIRTIO_QUEUE_SIZE, head)}

(* Mutant: no fence between the description and the index. *)
Publish_NoFence(r, head, write) ==
  << Describe(r, head, write) \cup {Store("idx", 0, (avail_idx + 1) % IdxMod)} >>

(* The stores of a submission: the description, a fence, avail.idx.        *)
Publish(r, head, write) ==
  << Describe(r, head, write), {Store("idx", 0, (avail_idx + 1) % IdxMod)} >>

(* Mutant: the end of the list is looked for one too far. *)
FreeList_NoEnd == [i \in Indices |-> IF i = VIRTIO_QUEUE_SIZE THEN NIL ELSE i + 1]

(* The free list virtio_blk_init threads through the descriptors. *)
FreeList == [i \in Indices |-> IF i = VIRTIO_QUEUE_SIZE - 1 THEN NIL ELSE i + 1]

Init ==
  /\ free_desc_head = 0
  /\ next = FreeList
  /\ avail_idx = 0
  /\ pc = "idle"
  /\ pending = <<>>
  /\ ram = [idx  |-> [i \in {0} |-> 0],
            hdr  |-> [i \in {0} |-> Junk],
            ring |-> [i \in Indices |-> 0],
            desc |-> [i \in Indices |-> NoDesc]]
  /\ \E ordered \in BOOLEAN :
       device = [ordered |-> ordered, awake |-> FALSE, last |-> 0,
                 taken |-> <<>>, served |-> {}, irq |-> FALSE]
  /\ log = <<>>

Submitted == { log[i].req : i \in 1 .. Len(log) }

(* Mutant: no panic where three descriptors are not to be had; the call    *)
(* just returns.                                                           *)
virtio_submit_request_NoPanic(r, write) ==
  /\ pc = "idle"
  /\ r \notin Submitted
  /\ LET a == alloc_desc_chain(free_desc_head)
     IN  /\ free_desc_head' = a.rest
         /\ \/ /\ a.ret = NIL
               /\ UNCHANGED <<pc, next, avail_idx, pending, log>>
            \/ /\ a.ret # NIL
               /\ pc' = "notify"
               /\ next' = [next EXCEPT ![a.ret] = a.ret + 1, ![a.ret + 2] = 0]
               /\ avail_idx' = (avail_idx + 1) % IdxMod
               /\ pending' = pending \o Publish(r, a.ret, write)
               /\ log' = Append(log, [req |-> r, head |-> a.ret])
  /\ UNCHANGED <<ram, device>>

(* virtio_submit_request up to the last store before the notification.     *)
(* The fence of the previous request's write_mmio_32 starts a new segment. *)
virtio_submit_request(r, write) ==
  /\ pc = "idle"
  /\ r \notin Submitted
  /\ LET a == alloc_desc_chain(free_desc_head)
     IN  /\ free_desc_head' = a.rest
         /\ \/ /\ a.ret = NIL
               /\ pc' = "panic"
               /\ UNCHANGED <<next, avail_idx, pending, log>>
            \/ /\ a.ret # NIL
               /\ pc' = "notify"
               /\ next' = [next EXCEPT ![a.ret] = a.ret + 1, ![a.ret + 2] = 0]
               /\ avail_idx' = (avail_idx + 1) % IdxMod
               /\ pending' = pending \o Publish(r, a.ret, write)
               /\ log' = Append(log, [req |-> r, head |-> a.ret])
  /\ UNCHANGED <<ram, device>>

(* Mutant: the device is not told. *)
Notify_Dropped ==
  /\ pc = "notify"
  /\ pc' = "return"
  /\ UNCHANGED <<free_desc_head, next, avail_idx, log, pending, ram, device>>

(* The store to QUEUE_NOTIFY arrives; write_mmio_32 reads the register     *)
(* back, so the driver does not go on before it has.                       *)
Notify ==
  /\ pc = "notify"
  /\ device.ordered => pending = <<>>
  /\ pc' = "return"
  /\ device' = [device EXCEPT !.awake = TRUE]
  /\ UNCHANGED <<free_desc_head, next, avail_idx, log, pending, ram>>

(* The call returns, and what runs next may or may not reuse its frame.    *)
Return ==
  /\ pc = "return"
  /\ pc' = "idle"
  /\ \/ UNCHANGED pending
     \/ pending' = Append(pending, {Store("hdr", 0, Junk)})
  /\ UNCHANGED <<free_desc_head, next, avail_idx, log, ram, device>>

(* A trap of any kind: smode_trap_handler panics, the machine shuts down.  *)
smode_trap_handler ==
  /\ pc # "panic"
  /\ device.irq
  /\ pc' = "panic"
  /\ UNCHANGED <<free_desc_head, next, avail_idx, log, pending, ram, device>>

-----------------------------------------------------------------------------
On == pc # "panic"

(* A store of the first segment reaches RAM. *)
Drain ==
  /\ On
  /\ pending # <<>>
  /\ \E s \in Head(pending) :
       /\ ram' = [ram EXCEPT ![s.at][s.i] = s.val]
       /\ pending' = IF Head(pending) = {s} THEN Tail(pending)
                     ELSE [pending EXCEPT ![1] = @ \ {s}]
  /\ UNCHANGED <<kernel, device>>

(* The descriptors the device finds from a head on, following NEXT. *)
Follow(d) == IF "NEXT" \in d.flags THEN <<ram.desc[d.next]>> ELSE <<>>

Chain(head) ==
  LET first  == ram.desc[head]
      second == Follow(first)
      third  == IF second = <<>> THEN <<>> ELSE Follow(second[1])
  IN  <<first>> \o second \o third

DeviceTakes ==
  /\ On
  /\ device.awake /\ device.last # ram.idx[0]
  /\ LET head == ram.ring[device.last % VIRTIO_QUEUE_SIZE]
     IN  device' = [device EXCEPT !.last = (@ + 1) % IdxMod,
                                  !.taken = Append(@, [head |-> head, chain |-> Chain(head)])]
  /\ UNCHANGED <<kernel, pending, ram>>

DeviceSleeps ==
  /\ On
  /\ device.awake /\ device.last = ram.idx[0]
  /\ device' = [device EXCEPT !.awake = FALSE]
  /\ UNCHANGED <<kernel, pending, ram>>

(* The device reads the header of the i-th request it took, does what it   *)
(* says, and interrupts.                                                   *)
DeviceServes(i) ==
  /\ On
  /\ \A s \in device.served : s.i # i
  /\ device' = [device EXCEPT !.served = @ \cup {[i |-> i, hdr |-> ram.hdr[0]]}, !.irq = TRUE]
  /\ UNCHANGED <<kernel, pending, ram>>

Next ==
  \/ \E r \in Requests, write \in BOOLEAN : virtio_submit_request(r, write)
  \/ Notify \/ Return \/ smode_trap_handler
  \/ Drain
  \/ DeviceTakes \/ DeviceSleeps
  \/ \E i \in 1 .. Len(device.taken) : DeviceServes(i)

Spec == Init /\ [][Next]_vars

(* Stores reach RAM in finite time, a call that was begun goes on, and the *)
(* device looks at the ring while it is awake.                             *)
FairSpec ==
  /\ Spec
  /\ WF_vars(Drain) /\ WF_vars(Notify) /\ WF_vars(Return)
  /\ WF_vars(DeviceTakes) /\ WF_vars(DeviceSleeps)

-----------------------------------------------------------------------------
DescType == [what : {"nothing", "hdr", "data", "status"}, req : Requests \cup {None},
             flags : SUBSET {"NEXT", "WRITE"}, next : Indices \cup {NIL}]

(* Every index that is followed, by the kernel or by the device, is that   *)
(* of a descriptor or the end mark of the free list.                       *)
TypeOK ==
  /\ free_desc_head \in Indices \cup {NIL}
  /\ next \in [Indices -> Indices \cup {NIL}]
  /\ avail_idx \in 0 .. IdxMod - 1
  /\ pc \in {"idle", "notify", "return", "panic"}
  /\ ram \in [idx : [{0} -> 0 .. IdxMod - 1], hdr : [{0} -> Requests \cup {Junk}],
              ring : [Indices -> Indices], desc : [Indices -> DescType]]
  /\ log \in Seq([req : Requests, head : Indices])

(* The descriptors a submission writes to. *)
Chained(i) == log[i].head .. log[i].head + 2

(* A set of descriptors that has the head of the free list and, with each  *)
(* of its members, the one that comes after it.                            *)
HoldsList(D) ==
  /\ free_desc_head # NIL => free_desc_head \in D
  /\ \A i \in D : next[i] # NIL => next[i] \in D

(* The descriptors on the free list: those that no such set can do without. *)
FreeDescs == { i \in Indices : \A D \in SUBSET Indices : HoldsList(D) => i \in D }

(* Two requests never share a descriptor, no request uses one that is on   *)
(* the free list, and none is outside the table, although the driver takes *)
(* its descriptors from a list and then uses head, head + 1 and head + 2.  *)
ChainsAreAllocated ==
  \A i \in 1 .. Len(log) :
    /\ Chained(i) \subseteq Indices
    /\ FreeDescs \cap Chained(i) = {}
    /\ \A j \in 1 .. Len(log) : i # j => Chained(i) \cap Chained(j) = {}

(* While the machine runs every descriptor is in a request or on the list: *)
(* the two that alloc_desc_chain takes before it finds the list too short  *)
(* are never put back (MMIO.cpp:240), and only the panic of its caller     *)
(* keeps the driver from going on without them.                            *)
NoDescriptorLost ==
  pc # "panic" =>
    Indices \subseteq FreeDescs \cup UNION { Chained(i) : i \in 1 .. Len(log) }

(* The device takes the requests in the order they were submitted, each    *)
(* once, and finds in RAM what the driver wrote for it: neither late       *)
(* stores nor a kernel that runs ahead make it see a stale descriptor.     *)
TakenAsSubmitted ==
  /\ Len(device.taken) <= Len(log)
  /\ \A i \in 1 .. Len(device.taken) :
       /\ device.taken[i].head = log[i].head
       /\ Len(device.taken[i].chain) >= 2
       /\ \A k \in 1 .. Len(device.taken[i].chain) : device.taken[i].chain[k].req = log[i].req

(* "必须保持有效直到完成", MMIO.cpp:343: the header is valid until the request *)
(* is complete, so the device reads the header of the request it serves.   *)
HeaderValidUntilServed == \A s \in device.served : s.hdr = log[s.i].req

(* "内存屏障确保设备看到顺序正确的写入", MMIO.cpp:327: the device sees the     *)
(* writes in order, the notification included, so every submitted request  *)
(* comes to its notice, unless the machine stops first.                    *)
EventuallyTaken ==
  \A n \in 1 .. VIRTIO_QUEUE_SIZE :
    Len(log) >= n ~> Len(device.taken) >= n \/ pc = "panic"

(* The same on a machine that orders stores to RAM with the notification:  *)
(* what the driver itself does, to the last request, suffices there.       *)
TakenWhereOrdered == device.ordered => EventuallyTaken
=============================================================================
