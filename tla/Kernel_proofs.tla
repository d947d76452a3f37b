---------------------------- MODULE Kernel_proofs ----------------------------
(***************************************************************************)
(* For every set of interrupt sources, harts, priorities and enable words  *)
(* the firmware may leave, every offer, queue size and page of a disk, and *)
(* whichever registers read back: the boot takes interrupts only at its    *)
(* own vector and from sources it knows, and a disk it has brought live is *)
(* configured, heard, and left alone.                                      *)
(*                                                                         *)
(* None of these is inductive.  What holds at a call of s_start holds      *)
(* because of the calls before it, and what holds of a register because    *)
(* of the writes before: the invariant says, for each place in the boot    *)
(* and each position in the handshake, what has been set up by then.       *)
(***************************************************************************)
EXTENDS Kernel, Sequences, TLAPS

-----------------------------------------------------------------------------
(* Which calls come after which. *)
VectorSet    == at # "stvec"
MaskOpen     == VectorSet /\ at # "sstatus"
EnabledInSie == MaskOpen /\ at # "sie"
DiskPriority == EnabledInSie /\ at # "plicinit"
UartPriority == DiskPriority /\ at # "plicinit 2"
WordWritten  == UartPriority /\ at # "plicinithart"
InOrAfterDisk == at \in {"virtio_blk_init", "panic"}

Places ==
  {"stvec", "sstatus", "sie", "plicinit", "plicinit 2", "plicinithart", "plicinithart 2",
   "plic_priority_init", "plic_enable_interrupt", "plic_threshold_init",
   "virtio_blk_init", "panic"}

Plics == [priority  : [IRQs -> 0 .. 7],
          enable    : [{"M", "S"} -> SUBSET IRQs],
          threshold : [{"M", "S"} -> 0 .. 7],
          pending   : SUBSET IRQs]

BootTyped ==
  /\ mode \in {"running", "trapped", "off"}
  /\ csr \in [stvec : {"firmware", "smode_trap_handler"}, SIE : BOOLEAN, SEIE : BOOLEAN]
  /\ plic \in Plics
  /\ at \in Places

(* Interrupts are let in after the vector is in place. *)
VectorFirst ==
  /\ VectorSet => csr.stvec = "smode_trap_handler"
  /\ csr.SIE <=> MaskOpen
  /\ EnabledInSie => csr.SEIE
  /\ mode = "trapped" => csr.SIE

(* What has been stored to the controller stays there; a hart other than 0 *)
(* does not get past its store to the enable word.                         *)
ControllerAsStored ==
  /\ DiskPriority => plic.priority[DISK_IRQ] = 1
  /\ UartPriority => plic.priority[UART_IRQ] = 1
  /\ WordWritten /\ mode # "off" => plic.enable["S"] \cap FirstWord = {UART_IRQ, DISK_IRQ}
  /\ ControllerSet => /\ plic.enable["S"] \cap FirstWord = {UART_IRQ, DISK_IRQ}
                      /\ plic.threshold["S"] = 0

(* What the first writes of the handshake, as many as were made, have left *)
(* in the device.                                                          *)
RegistersAsWritten ==
  /\ step \in 0 .. 10
  /\ step > 0 => InOrAfterDisk
  /\ reg = [r \in Disk!Registers |-> reg[r]]
  /\ Disk!Live => step = 10
  /\ step >= 3 => reg["DRIVER_FEATURES"] = dev.features \ Disk!Refused
  /\ step >= 4 => reg["GUEST_PAGE_SIZE"] = PGSIZE
  /\ step >= 6 => reg["QUEUE_NUM"] = 8 /\ dev.num_max >= 8
  /\ step >= 7 => reg["QUEUE_PFN"] = DescPage
  /\ step >= 9 => reg["QUEUE_READY"] = 1

IInv == BootTyped /\ VectorFirst /\ ControllerAsStored /\ RegistersAsWritten

-----------------------------------------------------------------------------
(* The handshake, write by write. *)
LEMMA HandshakeWrites ==
  /\ Len(Disk!Handshake) = 10
  /\ Disk!Handshake[1] = Disk!Write("STATUS", {})
  /\ Disk!Handshake[2] = Disk!Write("STATUS", {"ACKNOWLEDGE", "DRIVER"})
  /\ Disk!Handshake[3] = Disk!Write("DRIVER_FEATURES", dev.features \ Disk!Refused)
  /\ Disk!Handshake[4] = Disk!Write("GUEST_PAGE_SIZE", PGSIZE)
  /\ Disk!Handshake[5] = Disk!Write("QUEUE_SEL", 0)
  /\ Disk!Handshake[6] = Disk!Write("QUEUE_NUM", 8)
  /\ Disk!Handshake[7] = Disk!Write("QUEUE_PFN", DescPage)
  /\ Disk!Handshake[8] = Disk!Write("QUEUE_READY", 0)
  /\ Disk!Handshake[9] = Disk!Write("QUEUE_READY", 1)
  /\ Disk!Handshake[10] = Disk!Write("STATUS", Disk!DriverOk)
  BY DEF Disk!Handshake, Disk!Greeting, Disk!Features, Disk!QueueSize,
     Disk!QueueAddress, Disk!Activate, Disk!GoLive

(* A write puts its value in its register, or resets them all. *)
LEMMA WriteEffect ==
  ASSUME NEW r \in Disk!Registers, NEW v,
         reg = [q \in Disk!Registers |-> reg[q]],
         Disk!write_mmio_32(Disk!Write(r, v))
  PROVE  /\ r # "STATUS" => /\ reg'[r] = v
                            /\ \A q \in Disk!Registers \ {r} : reg'[q] = reg[q]
         /\ r = "STATUS" /\ v # {} =>
              reg'[r] = v /\ \A q \in Disk!Registers \ {r} : reg'[q] = reg[q]
         /\ r = "STATUS" /\ v = {} => reg' = Disk!Reset
         /\ reg' = [q \in Disk!Registers |-> reg'[q]]
  <1> DEFINE w == Disk!Write(r, v)
  <1>1. w.reg = r /\ w.val = v /\ (w = Disk!Write("STATUS", {}) <=> r = "STATUS" /\ v = {})
    BY DEF Disk!Write
  <1>2. CASE r = "STATUS" /\ v = {}
    BY <1>1, <1>2 DEF Disk!write_mmio_32, Disk!Reset
  <1>3. CASE ~(r = "STATUS" /\ v = {})
    <2>1. reg' = [reg EXCEPT ![r] = v]
      BY <1>1, <1>3 DEF Disk!write_mmio_32
    <2>2. QED
      BY <1>3, <2>1
  <1>4. QED
    BY <1>2, <1>3

(* The boot starts with nothing set up and nothing promised. *)
LEMMA InitInv == KernelInit => IInv
  <1> SUFFICES ASSUME KernelInit PROVE IInv
    OBVIOUS
  <1>1. BootTyped
    <2>1. PICK pr \in Priorities, th \in Priorities, en \in Enabled :
            plic = [priority  |-> [i \in IRQs |-> pr],
                    enable    |-> [ctx \in {"M", "S"} |-> en],
                    threshold |-> [ctx \in {"M", "S"} |-> th],
                    pending   |-> {}]
      BY DEF KernelInit, Init
    <2>2. pr \in 0 .. 7 /\ th \in 0 .. 7 /\ en \in SUBSET IRQs
      BY SourcesAssumption
    <2>3. plic \in Plics
      BY <2>1, <2>2 DEF Plics
    <2>4. QED
      BY <2>3 DEF KernelInit, Init, BootTyped, Places
  <1>2. VectorFirst
    BY DEF KernelInit, Init, VectorFirst, VectorSet, MaskOpen, EnabledInSie
  <1>3. ControllerAsStored
    BY DEF KernelInit, Init, ControllerAsStored, ControllerSet, WordWritten, UartPriority,
       DiskPriority, EnabledInSie, MaskOpen, VectorSet
  <1>4. reg = Disk!Reset /\ step = 0
    BY DEF KernelInit, Disk!Init
  <1>5. RegistersAsWritten
    BY <1>4 DEF RegistersAsWritten, Disk!Live, Disk!Reset, Disk!Registers, Disk!Zero
  <1>6. QED
    BY <1>1, <1>2, <1>3, <1>5 DEF IInv

-----------------------------------------------------------------------------
(* A store to the controller changes one word of it. *)
LEMMA PriorityStore ==
  ASSUME plic \in Plics, NEW irq \in IRQs, NEW k \in 0 .. 7,
         plic' = [plic EXCEPT !.priority[irq] = k]
  PROVE  /\ plic' \in Plics
         /\ plic'.priority[irq] = k
         /\ \A other \in IRQs \ {irq} : plic'.priority[other] = plic.priority[other]
         /\ plic'.enable = plic.enable /\ plic'.threshold = plic.threshold
  <1>1. /\ plic'.priority = [plic.priority EXCEPT ![irq] = k]
        /\ plic'.enable = plic.enable /\ plic'.threshold = plic.threshold
        /\ plic'.pending = plic.pending
    BY DEF Plics
  <1>2. plic'.priority \in [IRQs -> 0 .. 7]
    BY <1>1 DEF Plics
  <1>3. plic' = [priority |-> plic'.priority, enable |-> plic.enable,
                 threshold |-> plic.threshold, pending |-> plic.pending]
    BY <1>1 DEF Plics
  <1>4. plic' \in Plics
    BY <1>2, <1>3 DEF Plics
  <1>5. QED
    BY <1>1, <1>4 DEF Plics

(* The same for a store to an enable word. *)
LEMMA EnableStore ==
  ASSUME plic \in Plics, NEW ctx \in {"M", "S"}, NEW E \in SUBSET IRQs,
         plic' = [plic EXCEPT !.enable[ctx] = E]
  PROVE  /\ plic' \in Plics
         /\ plic'.enable[ctx] = E
         /\ \A other \in {"M", "S"} \ {ctx} : plic'.enable[other] = plic.enable[other]
         /\ plic'.priority = plic.priority /\ plic'.threshold = plic.threshold
  <1>1. /\ plic'.enable = [plic.enable EXCEPT ![ctx] = E]
        /\ plic'.priority = plic.priority /\ plic'.threshold = plic.threshold
        /\ plic'.pending = plic.pending
    BY DEF Plics
  <1>2. plic'.enable \in [{"M", "S"} -> SUBSET IRQs]
    BY <1>1 DEF Plics
  <1>3. plic' = [priority |-> plic.priority, enable |-> plic'.enable,
                 threshold |-> plic.threshold, pending |-> plic.pending]
    BY <1>1 DEF Plics
  <1>4. plic' \in Plics
    BY <1>2, <1>3 DEF Plics
  <1>5. QED
    BY <1>1, <1>4 DEF Plics

(* The same for the zero stored to a threshold. *)
LEMMA ThresholdStore ==
  ASSUME plic \in Plics, NEW ctx \in {"M", "S"},
         plic' = [plic EXCEPT !.threshold[ctx] = 0]
  PROVE  /\ plic' \in Plics
         /\ plic'.threshold[ctx] = 0
         /\ \A other \in {"M", "S"} \ {ctx} : plic'.threshold[other] = plic.threshold[other]
         /\ plic'.priority = plic.priority /\ plic'.enable = plic.enable
  <1>1. /\ plic'.threshold = [plic.threshold EXCEPT ![ctx] = 0]
        /\ plic'.priority = plic.priority /\ plic'.enable = plic.enable
        /\ plic'.pending = plic.pending
    BY DEF Plics
  <1>2. plic'.threshold \in [{"M", "S"} -> 0 .. 7]
    BY <1>1 DEF Plics
  <1>3. plic' = [priority |-> plic.priority, enable |-> plic.enable,
                 threshold |-> plic'.threshold, pending |-> plic.pending]
    BY <1>1 DEF Plics
  <1>4. plic' \in Plics
    BY <1>2, <1>3 DEF Plics
  <1>5. QED
    BY <1>1, <1>4 DEF Plics

(* The steps of the boot, call by call of s_start.                         *)
LEMMA BootSteps ==
  ASSUME IInv, Next
  PROVE  BootTyped' /\ VectorFirst' /\ ControllerAsStored' /\ (InOrAfterDisk => InOrAfterDisk')
  <1>0. /\ plic \in Plics /\ 1 \in 0 .. 7 /\ 7 \in 0 .. 7
        /\ UART_IRQ \in IRQs /\ DISK_IRQ \in IRQs /\ UART_IRQ # DISK_IRQ
        /\ 8 \in IRQs \ {UART_IRQ, DISK_IRQ}
    BY SourcesAssumption DEF IInv, BootTyped, UART_IRQ, DISK_IRQ
  <1> USE DEF Places, VectorSet, MaskOpen, EnabledInSie, DiskPriority, UartPriority,
              WordWritten, InOrAfterDisk, ControllerSet
  <1>1. CASE s_start /\ UNCHANGED <<plic, mode>>
    BY <1>1 DEF IInv, s_start, Call, BootTyped, VectorFirst, ControllerAsStored
  <1>2. CASE plicinit /\ UNCHANGED <<csr, mode>>
    <2>1. CASE at = "plicinit"
      <3>1. plic' = [plic EXCEPT !.priority[DISK_IRQ] = 1] /\ at' = "plicinit 2"
        BY <1>2, <2>1 DEF plicinit, Call
      <3>2. /\ plic' \in Plics /\ plic'.priority[DISK_IRQ] = 1
            /\ plic'.enable = plic.enable /\ plic'.threshold = plic.threshold
        BY <1>0, <3>1, PriorityStore
      <3>3. QED
        BY <1>2, <2>1, <3>1, <3>2 DEF IInv, BootTyped, VectorFirst, ControllerAsStored
    <2>2. CASE at = "plicinit 2"
      <3>1. plic' = [plic EXCEPT !.priority[UART_IRQ] = 1] /\ at' = "plicinithart"
        BY <1>2, <2>2 DEF plicinit, Call
      <3>2. /\ plic' \in Plics /\ plic'.priority[UART_IRQ] = 1
            /\ plic'.priority[DISK_IRQ] = plic.priority[DISK_IRQ]
            /\ plic'.enable = plic.enable /\ plic'.threshold = plic.threshold
        BY <1>0, <3>1, PriorityStore, ZenonT(40)
      <3>3. QED
        BY <1>2, <2>2, <3>1, <3>2 DEF IInv, BootTyped, VectorFirst, ControllerAsStored
    <2>3. QED
      BY <1>2, <2>1, <2>2 DEF plicinit, Call
  <1>3. CASE plicinithart /\ UNCHANGED csr
    <2>1. CASE at = "plicinithart" /\ hart = 0
      <3> DEFINE E == (plic.enable["S"] \ FirstWord) \cup {UART_IRQ, DISK_IRQ}
      <3>1. /\ plic' = [plic EXCEPT !.enable["S"] = E]
            /\ at' = "plicinithart 2" /\ mode' = mode
        BY <1>3, <2>1 DEF plicinithart, Call, IInv, BootTyped, Plics
      <3>2. E \in SUBSET IRQs /\ E \cap FirstWord = {UART_IRQ, DISK_IRQ}
        BY <1>0 DEF FirstWord, UART_IRQ, DISK_IRQ, Plics
      <3> HIDE DEF E
      <3>3. plic' \in Plics /\ plic'.enable["S"] = E /\ plic'.priority = plic.priority
        BY <1>0, <3>1, <3>2, EnableStore
      <3>4. QED
        BY <1>3, <2>1, <3>1, <3>2, <3>3 DEF IInv, BootTyped, VectorFirst, ControllerAsStored
    <2>2. CASE at = "plicinithart" /\ hart # 0
      BY <1>3, <2>2 DEF plicinithart, Call, IInv, BootTyped, VectorFirst, ControllerAsStored
    <2>3. CASE at = "plicinithart 2"
      <3>1. /\ plic' = [plic EXCEPT !.threshold["S"] = 0]
            /\ mode = "running" /\ at' = "plic_priority_init" /\ mode' = mode
        BY <1>3, <2>3 DEF plicinithart, Call
      <3>2. QED
        BY <1>3, <2>3, <3>1, ThresholdStore
           DEF IInv, BootTyped, VectorFirst, ControllerAsStored
    <2>4. QED
      BY <1>3, <2>1, <2>2, <2>3 DEF plicinithart, Call
  <1>4. CASE plic_priority_init /\ UNCHANGED <<csr, mode>>
    <2>1. /\ plic' = [plic EXCEPT !.priority[8] = 7]
          /\ at = "plic_priority_init" /\ at' = "plic_enable_interrupt"
      BY <1>4 DEF plic_priority_init, Call
    <2>2. /\ plic' \in Plics
          /\ \A irq \in {UART_IRQ, DISK_IRQ} : plic'.priority[irq] = plic.priority[irq]
          /\ plic'.enable = plic.enable /\ plic'.threshold = plic.threshold
      BY <1>0, <2>1, PriorityStore, ZenonT(40)
    <2>3. QED
      BY <1>4, <2>1, <2>2 DEF IInv, BootTyped, VectorFirst, ControllerAsStored
  <1>5. CASE plic_enable_interrupt /\ UNCHANGED <<csr, mode>>
    <2> DEFINE E == plic.enable["M"] \cup {8}
    <2>1. /\ plic' = [plic EXCEPT !.enable["M"] = E]
          /\ at = "plic_enable_interrupt" /\ at' = "plic_threshold_init"
      BY <1>5 DEF plic_enable_interrupt, Call, IInv, BootTyped, Plics
    <2>2. E \in SUBSET IRQs
      BY <1>0 DEF Plics
    <2> HIDE DEF E
    <2>3. /\ plic' \in Plics /\ plic'.enable["S"] = plic.enable["S"]
          /\ plic'.priority = plic.priority /\ plic'.threshold = plic.threshold
      BY <1>0, <2>1, <2>2, EnableStore
    <2>4. QED
      BY <1>5, <2>1, <2>3 DEF IInv, BootTyped, VectorFirst, ControllerAsStored
  <1>6. CASE plic_threshold_init /\ UNCHANGED <<csr, mode>>
    <2>1. /\ plic' = [plic EXCEPT !.threshold["M"] = 0]
          /\ at = "plic_threshold_init" /\ at' = "virtio_blk_init"
      BY <1>6 DEF plic_threshold_init, Call
    <2>2. QED
      BY <1>6, <2>1, ThresholdStore DEF IInv, BootTyped, VectorFirst, ControllerAsStored
  <1>7. CASE Finish /\ UNCHANGED <<csr, plic>>
    BY <1>7 DEF IInv, Finish, Call, BootTyped, VectorFirst, ControllerAsStored
  <1>8. CASE smode_trap_handler
    BY <1>8 DEF IInv, smode_trap_handler, BootTyped, VectorFirst, ControllerAsStored
  <1>9. ASSUME NEW irq \in IRQs, Raise(irq)
        PROVE  BootTyped' /\ VectorFirst' /\ ControllerAsStored' /\ (InOrAfterDisk => InOrAfterDisk')
    <2>1. plic' \in Plics
      BY <1>9 DEF IInv, Raise, BootTyped, Plics
    <2>2. QED
      BY <1>9, <2>1 DEF IInv, Raise, BootTyped, VectorFirst, ControllerAsStored, Plics
  <1>10. CASE TakeInterrupt
    BY <1>10 DEF IInv, TakeInterrupt, BootTyped, VectorFirst, ControllerAsStored
  <1>11. QED
    BY <1>1, <1>2, <1>3, <1>4, <1>5, <1>6, <1>7, <1>8, <1>9, <1>10 DEF Next

(* A step of the boot leaves the disk alone and never goes back to before  *)
(* its handshake.                                                          *)
LEMMA BootStepInv == IInv /\ BootStep => IInv'
  <1> SUFFICES ASSUME IInv, BootStep PROVE IInv'
    OBVIOUS
  <1>1. BootTyped' /\ VectorFirst' /\ ControllerAsStored' /\ (InOrAfterDisk => InOrAfterDisk')
    BY BootSteps DEF BootStep
  <1>2. RegistersAsWritten'
    BY <1>1 DEF IInv, BootStep, disk_vars, RegistersAsWritten, Disk!Live
  <1>3. QED
    BY <1>1, <1>2 DEF IInv

-----------------------------------------------------------------------------
(* One write of the handshake: what it adds and what it leaves.            *)
LEMMA WriteInv ==
  ASSUME RegistersAsWritten, InDiskInit, Disk!NextWrite, UNCHANGED at
  PROVE  RegistersAsWritten' /\ ~Disk!Live
  <1> DEFINE n == step + 1
  <1>1. /\ step \in 0 .. 9 /\ step' = n /\ dev' = dev
        /\ Disk!write_mmio_32(Disk!Handshake[n])
        /\ Disk!Acceptable(n)
        /\ reg = [q \in Disk!Registers |-> reg[q]]
    BY HandshakeWrites DEF Disk!NextWrite, RegistersAsWritten
  <1>2. ~Disk!Live
    BY <1>1 DEF RegistersAsWritten
  <1>3. InOrAfterDisk'
    BY DEF InDiskInit, InOrAfterDisk
  <1>4. CASE n \in {1, 2}
    <2>1. "DRIVER_OK" \notin reg'["STATUS"] /\ reg' = [q \in Disk!Registers |-> reg'[q]]
      <3>1. CASE n = 1
        BY <1>1, <3>1, HandshakeWrites, WriteEffect DEF Disk!Registers, Disk!Reset, Disk!Zero
      <3>2. CASE n = 2
        <4>1. {"ACKNOWLEDGE", "DRIVER"} # {}
          OBVIOUS
        <4>2. QED
          BY <1>1, <3>2, <4>1, HandshakeWrites, WriteEffect DEF Disk!Registers
      <3>3. QED
        BY <1>4, <3>1, <3>2
    <2>2. QED
      BY <1>1, <1>3, <1>4, <2>1 DEF RegistersAsWritten, Disk!Live
  <1>5. CASE n \in 3 .. 9
    <2> DEFINE r == IF n = 3 THEN "DRIVER_FEATURES" ELSE IF n = 4 THEN "GUEST_PAGE_SIZE"
                    ELSE IF n = 5 THEN "QUEUE_SEL" ELSE IF n = 6 THEN "QUEUE_NUM"
                    ELSE IF n = 7 THEN "QUEUE_PFN" ELSE "QUEUE_READY"
    <2> DEFINE v == Disk!Handshake[n].val
    <2>1. Disk!Handshake[n] = Disk!Write(r, v)
      BY <1>5, HandshakeWrites DEF Disk!Write
    <2>2. r \in Disk!Registers /\ r # "STATUS"
      BY DEF Disk!Registers
    <2> HIDE DEF r, v
    <2>3. /\ reg'[r] = v
          /\ \A q \in Disk!Registers \ {r} : reg'[q] = reg[q]
          /\ reg' = [q \in Disk!Registers |-> reg'[q]]
      BY <1>1, <2>1, <2>2, WriteEffect
    <2>4. ~Disk!Live'
      BY <1>2, <2>2, <2>3 DEF Disk!Live, Disk!Registers
    <2>5. n = 6 => dev.num_max >= 8
      BY <1>1, HandshakeWrites DEF Disk!Acceptable, Disk!Write
    <2>6. /\ n = 3 => v = dev.features \ Disk!Refused
          /\ n = 4 => v = PGSIZE
          /\ n = 6 => v = 8
          /\ n = 7 => v = DescPage
          /\ n = 9 => v = 1
      BY HandshakeWrites DEF v, Disk!Write
    <2>7. /\ n >= 3 => reg'["DRIVER_FEATURES"] = dev.features \ Disk!Refused
          /\ n >= 4 => reg'["GUEST_PAGE_SIZE"] = PGSIZE
          /\ n >= 6 => reg'["QUEUE_NUM"] = 8 /\ dev.num_max >= 8
          /\ n >= 7 => reg'["QUEUE_PFN"] = DescPage
          /\ n >= 9 => reg'["QUEUE_READY"] = 1
      BY <1>1, <1>5, <2>3, <2>5, <2>6 DEF RegistersAsWritten, Disk!Registers, r
    <2>8. QED
      BY <1>1, <1>2, <1>3, <1>5, <2>3, <2>4, <2>7 DEF RegistersAsWritten
  <1>6. CASE n = 10
    <2>1. Disk!DriverOk # {}
      BY DEF Disk!DriverOk
    <2>2. /\ \A q \in Disk!Registers \ {"STATUS"} : reg'[q] = reg[q]
          /\ reg' = [q \in Disk!Registers |-> reg'[q]]
      BY <1>1, <1>6, <2>1, HandshakeWrites, WriteEffect DEF Disk!Registers
    <2>3. QED
      BY <1>1, <1>2, <1>3, <1>6, <2>2 DEF RegistersAsWritten, Disk!Registers
  <1>7. QED
    BY <1>1, <1>2, <1>4, <1>5, <1>6

(* A step of the handshake leaves the boot alone, and a live disk too.     *)
LEMMA DiskStepInv == IInv /\ virtio_blk_init => IInv' /\ (Disk!Live => UNCHANGED reg)
  <1> SUFFICES ASSUME IInv, virtio_blk_init
               PROVE  IInv' /\ (Disk!Live => UNCHANGED reg)
    OBVIOUS
  <1>1. UNCHANGED <<hart, csr, plic, at, mode>> /\ InDiskInit
    BY DEF virtio_blk_init, vars
  <1>2. BootTyped' /\ VectorFirst' /\ ControllerAsStored'
    BY <1>1 DEF IInv, BootTyped, VectorFirst, ControllerAsStored, VectorSet, MaskOpen,
       EnabledInSie, DiskPriority, UartPriority, WordWritten, ControllerSet
  <1>3. RegistersAsWritten' /\ (Disk!Live => UNCHANGED reg)
    <2>1. CASE Disk!NextWrite
      BY <1>1, <2>1, WriteInv DEF IInv
    <2>2. CASE Disk!Unacceptable \/ Disk!Finish
      BY <1>1, <2>2 DEF IInv, RegistersAsWritten, Disk!Live, Disk!Unacceptable, Disk!Finish,
         InOrAfterDisk
    <2>3. QED
      BY <2>1, <2>2 DEF virtio_blk_init, Disk!Next
  <1>4. QED
    BY <1>2, <1>3 DEF IInv

(* The invariant is inductive. *)
LEMMA StepInv == IInv /\ [KernelNext]_kernel_vars => IInv'
  <1> SUFFICES ASSUME IInv, [KernelNext]_kernel_vars PROVE IInv'
    OBVIOUS
  <1>1. CASE UNCHANGED kernel_vars
    <2>1. UNCHANGED vars /\ UNCHANGED disk_vars
      BY <1>1 DEF kernel_vars
    <2>2. BootTyped' /\ VectorFirst' /\ ControllerAsStored'
      BY <2>1 DEF vars, IInv, BootTyped, VectorFirst, ControllerAsStored, VectorSet, MaskOpen,
         EnabledInSie, DiskPriority, UartPriority, WordWritten, ControllerSet
    <2>3. RegistersAsWritten'
      BY <2>1 DEF vars, disk_vars, IInv, RegistersAsWritten, InOrAfterDisk, Disk!Live
    <2>4. QED
      BY <2>2, <2>3 DEF IInv
  <1>2. QED
    BY <1>1, BootStepInv, DiskStepInv DEF KernelNext

(* The invariant of the boot as a whole, on which all that follows rests.  *)
THEOREM Invariance == KernelSpec => []IInv
  BY InitInv, StepInv, PTL DEF KernelSpec

-----------------------------------------------------------------------------
(* TrapsAreVectored: wherever in the boot an interrupt comes, the hart is  *)
(* already told where the kernel's handler is.                             *)
THEOREM TrapsReachTheKernel == KernelSpec => []TrapsAreVectored
  <1>1. IInv => TrapsAreVectored
    BY DEF IInv, BootTyped, VectorFirst, TrapsAreVectored, MaskOpen, VectorSet
  <1>2. QED
    BY <1>1, Invariance, PTL

(* OnlyKnownSources: once plicinithart has replaced the enable word of     *)
(* sources 1 to 31, none of these but the disk and the UART stops the      *)
(* boot, whichever of the 1023 sources the firmware left enabled.          *)
THEOREM UnknownSourcesAreOut == KernelSpec => []OnlyKnownSources
  <1>1. IInv => OnlyKnownSources
    BY DEF IInv, ControllerAsStored, OnlyKnownSources, Deliverable
  <1>2. QED
    BY <1>1, Invariance, PTL

(* Either of the two sources is let through when it is the one pending.    *)
LEMMA Heard ==
  ASSUME IInv, ControllerSet, NEW irq \in {UART_IRQ, DISK_IRQ}
  PROVE  irq \in Deliverable([plic EXCEPT !.pending = {irq}], "S")
  <1> DEFINE p == [plic EXCEPT !.pending = {irq}]
  <1>1. /\ p.pending = {irq} /\ p.enable = plic.enable
        /\ p.priority = plic.priority /\ p.threshold = plic.threshold
    BY DEF IInv, BootTyped, Plics
  <1>2. plic.priority[irq] = 1 /\ plic.threshold["S"] = 0 /\ irq \in plic.enable["S"]
    BY DEF IInv, ControllerAsStored, ControllerSet, DiskPriority, UartPriority, EnabledInSie,
       MaskOpen, VectorSet
  <1> HIDE DEF p
  <1>3. irq \in Deliverable(p, "S")
    BY <1>1, <1>2 DEF Deliverable
  <1>4. QED
    BY <1>3 DEF p

(* SourcesArmed: disk and UART are let through from plicinithart on,       *)
(* whatever priorities and thresholds the firmware left.                   *)
THEOREM KnownSourcesAreIn == KernelSpec => []SourcesArmed
  <1>1. IInv => SourcesArmed
    BY Heard DEF SourcesArmed
  <1>2. QED
    BY <1>1, Invariance, PTL

(* LiveMeansConfigured: a device told DRIVER_OK has every register of its  *)
(* queue as the driver wants it.                                           *)
THEOREM LiveDiskIsConfigured == KernelSpec => []LiveMeansConfigured
  <1>1. IInv => LiveMeansConfigured
    BY DEF IInv, RegistersAsWritten, LiveMeansConfigured, Disk!LiveMeansConfigured
  <1>2. QED
    BY <1>1, Invariance, PTL

(* LiveDiskIsHeard: from DRIVER_OK on the disk's interrupt reaches the     *)
(* kernel's vector.                                                        *)
THEOREM LiveDiskReachesTheKernel == KernelSpec => []LiveDiskIsHeard
  <1>1. ASSUME IInv, Disk!Live
        PROVE  /\ csr = [stvec |-> "smode_trap_handler", SIE |-> TRUE, SEIE |-> TRUE]
               /\ DISK_IRQ \in Deliverable([plic EXCEPT !.pending = {DISK_IRQ}], "S")
    <2>1. InOrAfterDisk
      BY <1>1 DEF IInv, RegistersAsWritten
    <2>2. ControllerSet
      BY <2>1 DEF InOrAfterDisk, ControllerSet
    <2>3. csr.stvec = "smode_trap_handler" /\ csr.SIE = TRUE /\ csr.SEIE = TRUE
      BY <1>1, <2>1 DEF IInv, BootTyped, VectorFirst, InOrAfterDisk, EnabledInSie, MaskOpen,
         VectorSet
    <2>4. QED
      BY <1>1, <2>2, <2>3, Heard DEF IInv, BootTyped
  <1>2. IInv => LiveDiskIsHeard
    BY <1>1 DEF LiveDiskIsHeard
  <1>3. QED
    BY <1>2, Invariance, PTL

(* SetUpPrecedesLive: no write of the handshake reaches a live device.     *)
THEOREM LiveDiskIsLeftAlone == KernelSpec => SetUpPrecedesLive
  <1>1. IInv /\ [KernelNext]_kernel_vars => [Disk!Live => UNCHANGED reg]_(Disk!vars)
    <2> SUFFICES ASSUME IInv, [KernelNext]_kernel_vars
                 PROVE  [Disk!Live => UNCHANGED reg]_(Disk!vars)
      OBVIOUS
    <2>1. CASE virtio_blk_init
      BY <2>1, DiskStepInv
    <2>2. CASE BootStep \/ UNCHANGED kernel_vars
      BY <2>2 DEF BootStep, kernel_vars, disk_vars
    <2>3. QED
      BY <2>1, <2>2 DEF KernelNext
  <1>2. QED
    BY <1>1, Invariance, PTL DEF KernelSpec, SetUpPrecedesLive, Disk!SetUpPrecedesLive
=============================================================================
