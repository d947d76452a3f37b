-------------------------------- MODULE Kernel --------------------------------
(***************************************************************************)
(* The boot as a whole (os/src/s_start.cpp): Boot with the handshake of    *)
(* VirtioInit in the place of its call of virtio_blk_init.  The handshake  *)
(* runs with interrupts on: a trap may end it between any two accesses.    *)
(***************************************************************************)
EXTENDS Boot

CONSTANTS Readable, Offers, NumMaxes, PGSIZE, DescPage   \* as in VirtioInit

ASSUME LayoutAssumption == {PGSIZE, DescPage} \subseteq Nat \ {0}

VARIABLES dev, reg, step, pc                             \* as in VirtioInit

Disk == INSTANCE VirtioInit

disk_vars   == <<dev, reg, step, pc>>
kernel_vars == <<vars, disk_vars>>

KernelInit == Init /\ Disk!Init

(* Mutant: the disk is set up before the controller is. *)
InDiskInit_Early == mode = "running" /\ at \in {"plicinithart", "virtio_blk_init"}

(* s_start is in virtio_blk_init. *)
InDiskInit == mode = "running" /\ at = "virtio_blk_init"

virtio_blk_init ==
  /\ InDiskInit
  /\ Disk!Next
  /\ UNCHANGED vars

(* virtio_blk_init returns when it is done, and its panic is the end.      *)
AsTheDiskSays ==
  at = "virtio_blk_init" /\ at' = "panic" =>
    \/ pc = "done" /\ mode' = "running"
    \/ pc = "panic" /\ mode' = "off"

BootStep ==
  /\ Next
  /\ AsTheDiskSays
  /\ UNCHANGED disk_vars

KernelNext == BootStep \/ virtio_blk_init

(* The hart goes on with what it executes; devices need not interrupt.     *)
KernelSpec ==
  /\ KernelInit /\ [][KernelNext]_kernel_vars
  /\ WF_kernel_vars(virtio_blk_init)
  /\ WF_kernel_vars(BootStep /\ (at' # at \/ mode' # mode))

-----------------------------------------------------------------------------
LiveMeansConfigured == Disk!LiveMeansConfigured
SetUpPrecedesLive   == Disk!SetUpPrecedesLive

(* A device that may interrupt is heard: from DRIVER_OK on, whatever the   *)
(* firmware left, its interrupt reaches the kernel's vector, unmasked by   *)
(* priority, threshold, enable bit, SIE or SEIE.                           *)
LiveDiskIsHeard ==
  Disk!Live =>
    /\ csr = [stvec |-> "smode_trap_handler", SIE |-> TRUE, SEIE |-> TRUE]
    /\ DISK_IRQ \in Deliverable([plic EXCEPT !.pending = {DISK_IRQ}], "S")

(* "到这就算胜利" (s_start.cpp:86), getting here is victory: s_start gets    *)
(* past virtio_blk_init on hart 0 with the disk the driver was written     *)
(* for, unless a trap stops it first, and on no other machine.             *)
Victory == at = "panic" /\ pc = "done"

VictoryUnlessTrapped ==
  <>(IF hart = 0 /\ Disk!Suitable /\ dev.num_max >= 8
     THEN Victory \/ mode = "trapped"
     ELSE ~Victory /\ mode = "off")
=============================================================================
