----------------------------- MODULE VirtioDisk -----------------------------
(***************************************************************************)
(* The interrupt-driven disk driver the repository keeps as its reference  *)
(* (virtio_disk.cpp): processes that call virtio_disk_ext4_rw, the handler *)
(* virtio_disk_intr, and the device, which all share two rings and a table *)
(* of descriptors.  The lock and sleep/wakeup belong to another kernel and *)
(* are external: sleep gives the lock up as it falls asleep, and a process *)
(* that was woken takes it again.  Whether a request reads or writes, and  *)
(* when stores become visible, are left out (VirtioQueue has the latter).  *)
(***************************************************************************)
EXTENDS Integers, Sequences, FiniteSetsExt, SequencesExt

CONSTANTS
  Procs,    \* processes; each has a buffer of its own, which goes by its name
  None,     \* no process, no buffer
  Handler,  \* the interrupt handler as the holder of the lock
  NUM,      \* descriptors, 8 in the code
  IdxMod    \* where avail[1] and used->id wrap, 65536 in the code

ASSUME DiskAssumption ==
  /\ NUM \in Nat /\ NUM >= 3
  /\ IdxMod \in Nat /\ IdxMod >= NUM /\ IdxMod % NUM = 0
  /\ Handler \notin Procs /\ None \notin Procs /\ Handler # None

VARIABLES
  free,      \* disk.free
  desc,      \* disk.desc: what a descriptor points to, its NEXT flag, its next
  info,      \* disk.info: the buffer and the status byte of a chain, at its head
  avail,     \* disk.avail: idx is avail[1], ring is avail[2 ..]
  used,      \* disk.used: id, and the heads of elems
  used_idx,  \* disk.used_idx
  b_disk,    \* the field disk of each buffer
  proc,      \* each process: where it is, and its idx[3]
  lock,      \* disk.vdisk_lock: its holder, or None
  intr,      \* where the handler is
  device,    \* the device: what it has looked at, holds, and is about to signal; late
             \* is history: a completion it made between NoneLeft and Ack is unread
  machine    \* "up", "status": the handler's panic, "fault": any other end

driver == <<free, desc, info, used_idx, b_disk, proc, lock, intr>>
vars   == <<driver, avail, used, device, machine>>

-----------------------------------------------------------------------------
Indices == 0 .. NUM - 1
Gone    == NUM     \* a ring entry that has been read: nothing may read it again

Pointer(what, of)        == [what |-> what, of |-> of]
Desc(addr, NEXT, next)   == [addr |-> addr, NEXT |-> NEXT, next |-> next]
Null                     == Pointer("null", None)

(* disk.desc[i].addr = 0 in the descriptors D. *)
Cleared(D) == [i \in Indices |-> IF i \in D THEN [desc[i] EXCEPT !.addr = Null] ELSE desc[i]]

(* Mutant: the flag of a descriptor is not looked at. *)
Found_Unchecked == {0, 1, 2}

(* What three calls of alloc_desc find: the free descriptors of least      *)
(* index, fewer than three if there are no more.                           *)
Found == { i \in Indices : free[i] /\ Cardinality({ j \in 0 .. i - 1 : free[j] }) < 3 }

(* disk.free after these calls. *)
Marked == [i \in Indices |-> free[i] /\ i \notin Found]

(* Mutant: the loop that gives back ends one descriptor too early. *)
GivenBack_AllButLast == { i \in Found : \E j \in Found : i < j }

(* What alloc3_desc gives back when a call of alloc_desc fails. *)
GivenBack == Found

(* The chain from descriptor i on, as NEXT flags and next tell; a chain    *)
(* that runs in a circle is cut after NUM links and repeats a descriptor.  *)
Chain(i) ==
  LET c[links \in 0 .. NUM] ==
        [j \in Indices |->
          <<j>> \o IF desc[j].NEXT /\ links > 0 THEN c[links - 1][desc[j].next] ELSE <<>>]
  IN  c[NUM][i]

(* Three descriptors in the order in which they are found. *)
Ascending(S) == CHOOSE s \in [1 .. 3 -> S] : s[1] < s[2] /\ s[2] < s[3]

(* The processes in a call that has its descriptors, and the head of their *)
(* chains.                                                                 *)
InCall   == { p \in Procs : proc[p].at \in {"post", "asleep", "woken"} }
Head1(p) == proc[p].idx[1]

At(p, place)   == machine = "up" /\ proc[p].at = place
Goes(p, place) == proc' = [proc EXCEPT ![p].at = place]

-----------------------------------------------------------------------------
(* virtio_disk_init: zeroed pages, every descriptor free. *)
Init ==
  /\ free = [i \in Indices |-> TRUE]
  /\ desc = [i \in Indices |-> Desc(Null, FALSE, 0)]
  /\ info = [i \in Indices |-> [b |-> None, status |-> 0]]
  /\ avail = [idx |-> 0, ring |-> [i \in Indices |-> Gone]]
  /\ used = [id |-> 0, elems |-> [i \in Indices |-> Gone]]
  /\ used_idx = 0
  /\ b_disk = [p \in Procs |-> FALSE]
  /\ proc = [p \in Procs |-> [at |-> "idle", idx |-> <<>>]]
  /\ lock = None
  /\ intr = "off"
  /\ device = [awake |-> FALSE, last |-> 0, taken |-> {}, raising |-> FALSE, isr |-> FALSE,
              late |-> FALSE]
  /\ machine = "up"

(* virtio_disk_ext4_rw from acquire to the fence: the descriptors are      *)
(* found and described, the chain recorded and entered into the ring.      *)
Describe(p) ==
  /\ At(p, "idle")
  /\ lock = None
  /\ Cardinality(Found) = 3
  /\ LET idx == Ascending(Found)
     IN  /\ free' = Marked
         /\ desc' = [desc EXCEPT ![idx[1]] = Desc(Pointer("hdr", p), TRUE, idx[2]),
                                 ![idx[2]] = Desc(Pointer("data", p), TRUE, idx[3]),
                                 ![idx[3]] = Desc(Pointer("status", idx[1]), FALSE, 0)]
         /\ info' = [info EXCEPT ![idx[1]] = [b |-> p, status |-> 0]]
         /\ avail' = [avail EXCEPT !.ring[avail.idx % NUM] = idx[1]]
         /\ proc' = [proc EXCEPT ![p] = [at |-> "post", idx |-> idx]]
  /\ b_disk' = [b_disk EXCEPT ![p] = TRUE]
  /\ lock' = p
  /\ UNCHANGED <<used, used_idx, intr, device, machine>>

(* alloc3_desc finds too few and gives back what it took, with free_desc,  *)
(* which panics at a descriptor that is free already; then sleep on        *)
(* &disk.free[0].  free_desc's wakeup is commented out: nothing ends it.   *)
LackDescriptors(p) ==
  /\ At(p, "idle")
  /\ lock = None
  /\ Cardinality(Found) < 3
  /\ machine' = IF \E i \in GivenBack : Marked[i] THEN "fault" ELSE machine
  /\ free' = [i \in Indices |-> Marked[i] \/ i \in GivenBack]
  /\ desc' = Cleared(GivenBack)
  /\ Goes(p, "starved")
  /\ UNCHANGED <<info, used_idx, b_disk, lock, intr, avail, used, device>>

(* The store to avail[1] behind the fence, the notification, and           *)
(* while (b->disk == 1) sleep(b, &disk.vdisk_lock): the lock is held since *)
(* b->disk was set, so the process does sleep.                             *)
Post(p) ==
  /\ At(p, "post")
  /\ avail' = [avail EXCEPT !.idx = (@ + 1) % IdxMod]
  /\ device' = [device EXCEPT !.awake = TRUE]
  /\ lock' = None
  /\ Goes(p, "asleep")
  /\ UNCHANGED <<free, desc, info, used_idx, b_disk, intr, used, machine>>

(* free_chain: free_desc panics at a descriptor that is free already.      *)
free_chain(i) ==
  LET chain == Chain(i)
      members == ToSet(chain)
  IN  /\ machine' = IF IsInjective(chain) /\ \A j \in members : ~free[j]
                    THEN machine ELSE "fault"
      /\ free' = [j \in Indices |-> free[j] \/ j \in members]
      /\ desc' = Cleared(members)

(* Mutant: the call does not wait for its answer. *)
MayReturn_AtOnce(p) == At(p, "asleep") \/ At(p, "woken")

MayReturn(p) == At(p, "woken") /\ ~b_disk[p]

(* A process that was woken takes the lock and looks at b->disk again: if  *)
(* the request is finished it forgets the buffer, frees the chain and      *)
(* releases the lock.                                                      *)
Return(p) ==
  /\ MayReturn(p)
  /\ lock = None
  /\ info' = [info EXCEPT ![Head1(p)].b = None]
  /\ free_chain(Head1(p))
  /\ proc' = [proc EXCEPT ![p] = [at |-> "idle", idx |-> <<>>]]
  /\ UNCHANGED <<used_idx, b_disk, lock, intr, avail, used, device>>

-----------------------------------------------------------------------------
(* The interrupt line is high: virtio_disk_intr runs, once at a time, as   *)
(* soon as it gets the lock.                                               *)
Interrupt ==
  /\ machine = "up"
  /\ intr = "off" /\ device.isr
  /\ lock = None
  /\ lock' = Handler
  /\ intr' = "loop"
  /\ UNCHANGED <<free, desc, info, used_idx, b_disk, proc, avail, used, device, machine>>

Unread == used_idx % NUM # used.id % NUM

(* Mutant: nobody is woken. *)
wakeup_Nobody(b) == UNCHANGED proc

(* wakeup(b): whoever sleeps on the buffer. *)
wakeup(b) == proc' = [p \in Procs |-> IF p = b /\ proc[p].at = "asleep"
                                      THEN [proc[p] EXCEPT !.at = "woken"] ELSE proc[p]]

(* What the next element of the used ring names can be answered. *)
Answerable(id) == id \in Indices /\ info[id].status = 0 /\ info[id].b # None

(* Mutants: the index runs out of the ring, or stays where it is. *)
NextUsed_Unwrapped == used_idx + 1
NextUsed_Same      == used_idx

NextUsed == (used_idx + 1) % NUM

(* One round of the handler's loop. *)
AnswerOne ==
  /\ machine = "up"
  /\ intr = "loop" /\ Unread
  /\ LET id == used.elems[used_idx]
     IN  /\ Answerable(id)
         /\ b_disk' = [b_disk EXCEPT ![info[id].b] = FALSE]
         /\ wakeup(info[id].b)
  /\ used_idx' = NextUsed
  /\ used' = [used EXCEPT !.elems[used_idx] = Gone]
  /\ device' = [device EXCEPT !.late = FALSE]
  /\ UNCHANGED <<free, desc, info, lock, intr, avail, machine>>

(* The panic "virtio_disk_intr status", or a buffer that is not there.     *)
HandlerFails ==
  /\ machine = "up"
  /\ intr = "loop" /\ Unread
  /\ LET id == used.elems[used_idx]
     IN  /\ ~Answerable(id)
         /\ machine' = IF id \in Indices /\ info[id].status # 0 THEN "status" ELSE "fault"
  /\ UNCHANGED <<driver, avail, used, device>>

NoneLeft ==
  /\ machine = "up"
  /\ intr = "loop" /\ ~Unread
  /\ intr' = "ack"
  /\ UNCHANGED <<free, desc, info, used_idx, b_disk, proc, lock, avail, used, device, machine>>

(* INTERRUPT_ACK = INTERRUPT_STATUS & 3, and release.  The status read is  *)
(* set since the handler was called, so what is written clears it.         *)
Ack ==
  /\ machine = "up"
  /\ intr = "ack"
  /\ device' = [device EXCEPT !.isr = FALSE]
  /\ lock' = None
  /\ intr' = "off"
  /\ UNCHANGED <<free, desc, info, used_idx, b_disk, proc, avail, used, machine>>

-----------------------------------------------------------------------------
DeviceTakes ==
  /\ machine = "up"
  /\ device.awake /\ device.last # avail.idx
  /\ LET slot == device.last % NUM
     IN  /\ device' = [device EXCEPT !.last = (@ + 1) % IdxMod,
                                     !.taken = @ \cup {avail.ring[slot]}]
         /\ avail' = [avail EXCEPT !.ring[slot] = Gone]
  /\ UNCHANGED <<driver, used, machine>>

DeviceSleeps ==
  /\ machine = "up"
  /\ device.awake /\ device.last = avail.idx
  /\ device' = [device EXCEPT !.awake = FALSE]
  /\ UNCHANGED <<driver, avail, used, machine>>

(* The device has done what the chain at head says, in any order among the *)
(* chains it holds: status byte, element, id.                              *)
DeviceCompletes(head) ==
  /\ machine = "up"
  /\ head \in device.taken /\ head # Gone
  /\ LET of == desc[Last(Chain(head))].addr.of
     IN  \E status \in {0, 1} :
           info' = IF of \in Indices THEN [info EXCEPT ![of].status = status] ELSE info
  /\ used' = [id |-> (used.id + 1) % IdxMod, elems |-> [used.elems EXCEPT ![used.id % NUM] = head]]
  /\ device' = [device EXCEPT !.taken = @ \ {head}, !.raising = TRUE,
                             !.late = @ \/ intr = "ack"]
  /\ UNCHANGED <<free, desc, used_idx, b_disk, proc, lock, intr, avail, machine>>

DeviceInterrupts ==
  /\ machine = "up"
  /\ device.raising
  /\ device' = [device EXCEPT !.raising = FALSE, !.isr = TRUE]
  /\ UNCHANGED <<driver, avail, used, machine>>

Next ==
  \/ \E p \in Procs :
       \/ Describe(p) \/ LackDescriptors(p)
       \/ Post(p) \/ Return(p)
  \/ Interrupt \/ AnswerOne \/ HandlerFails \/ NoneLeft \/ Ack
  \/ DeviceTakes \/ DeviceSleeps \/ DeviceInterrupts
  \/ \E head \in Indices : DeviceCompletes(head)

Spec == Init /\ [][Next]_vars

(* A process that holds the lock goes on, the handler and the device do    *)
(* what they began, and nobody who waits for the lock is passed over for   *)
(* ever.  Nothing makes a process call.                                    *)
FairSpec ==
  /\ Spec
  /\ WF_vars(\E p \in Procs : Post(p))
  /\ \A p \in Procs : SF_vars(Return(p))
  /\ SF_vars(Interrupt)
  /\ WF_vars(AnswerOne \/ HandlerFails \/ NoneLeft \/ Ack)
  /\ WF_vars(DeviceTakes) /\ WF_vars(DeviceInterrupts)
  /\ \A p \in Procs : WF_vars(p \in InCall /\ DeviceCompletes(Head1(p)))

-----------------------------------------------------------------------------
Posted == { p \in InCall : proc[p].at # "post" }
Owned(p) == ToSet(proc[p].idx)

(* n slots of a ring from index i on. *)
Slots(i, n) == { (i + k) % NUM : k \in 0 .. n - 1 }
Queued == Slots(device.last, (avail.idx - device.last) % IdxMod)
Served == Slots(used_idx, (used.id - used_idx) % NUM)

TypeOK ==
  /\ free \in [Indices -> BOOLEAN]
  /\ \A i \in Indices : desc[i].NEXT \in BOOLEAN /\ desc[i].next \in Indices
  /\ info \in [Indices -> [b : Procs \cup {None}, status : {0, 1}]]
  /\ avail \in [idx : 0 .. IdxMod - 1, ring : [Indices -> 0 .. NUM]]
  /\ used \in [id : 0 .. IdxMod - 1, elems : [Indices -> 0 .. NUM]]
  /\ used_idx \in Indices
  /\ b_disk \in [Procs -> BOOLEAN]
  /\ lock \in Procs \cup {None, Handler}
  /\ device.taken \subseteq Indices

(* A descriptor is free or belongs to one call, never to two, and none is  *)
(* lost, also when an allocation finds only one or two.                    *)
DescriptorsAccounted ==
  machine # "fault" =>
    \A i \in Indices :
      Cardinality({ p \in InCall : i \in Owned(p) }) = IF free[i] THEN 0 ELSE 1

(* A call stays in virtio_disk_ext4_rw as long as the device may follow    *)
(* its chain: every head in the rings and in the device is that of one     *)
(* call, in one place until the handler has answered it and in none after. *)
OnePlaceEach ==
  /\ \A p \in Posted :
       LET h == Head1(p)
       IN  Cardinality({ s \in Queued : avail.ring[s] = h }) + Cardinality({h} \cap device.taken)
             + Cardinality({ s \in Served : used.elems[s] = h }) = IF b_disk[p] THEN 1 ELSE 0
  /\ { avail.ring[s] : s \in Queued } \cup device.taken \cup { used.elems[s] : s \in Served }
       \subseteq { Head1(p) : p \in Posted }

(* What the device and the handler find at the head of a call is what the  *)
(* call put there: its header, its buffer, its own status byte, its b.     *)
ChainsUndisturbed ==
  \A p \in InCall :
    /\ Chain(Head1(p)) = proc[p].idx
    /\ [k \in 1 .. 3 |-> desc[proc[p].idx[k]].addr] =
         <<Pointer("hdr", p), Pointer("data", p), Pointer("status", Head1(p))>>
    /\ info[Head1(p)].b = p

(* The driver's other panics and its NULL pointers are out of reach: the   *)
(* only way it stops the machine is a request the device reports failed.   *)
NeverFaults == machine # "fault"

(* A completion nobody will look at: no interrupt stands or is to come.    *)
Stranded == Unread /\ intr = "off" /\ ~device.isr /\ ~device.raising

(* The call of p that sleeps returns, whatever others call, unless a       *)
(* request fails or the device completes one between the handler's last    *)
(* look at the ring and its acknowledgement, which then clears that        *)
(* interrupt too.                                                          *)
SleeperReturns(p) ==
  proc[p].at = "asleep" ~> \/ proc[p].at = "idle"
                           \/ machine # "up"
                           \/ Stranded /\ device.late

(* "Wait for virtio_disk_intr() to say request has finished",              *)
(* virtio_disk.cpp:308: of every request that the device has finished      *)
(* virtio_disk_intr comes to say so, unless a request has failed.          *)
FinishedIsSaid ==
  \A p \in Procs :
    (p \in Posted /\ \E s \in Served : used.elems[s] = Head1(p)) ~>
      ~b_disk[p] \/ machine # "up"

(* The driver implements DiskService: no call returns before the device    *)
(* has served it, and none is served or answered twice.                    *)
Phase(p) ==
  CASE p \notin Posted                                  -> "none"
    [] p \in Posted /\ ~b_disk[p]                       -> "answered"
    [] p \in Posted /\ b_disk[p] /\ (\E s \in Served : used.elems[s] = Head1(p)) -> "served"
    [] OTHER                                            -> "queued"

Service == INSTANCE DiskService WITH phase <- [p \in Procs |-> Phase(p)]
ImplementsDiskService == Service!Spec
=============================================================================
