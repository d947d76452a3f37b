----------------------------- MODULE VirtioInit -----------------------------
(***************************************************************************)
(* virtio_blk_init (os/src/FS/MMIO.cpp): the register handshake that turns *)
(* a legacy virtio block device on.  Every write goes through              *)
(* write_mmio_32, which reads the register back and panics if it does not  *)
(* find the value there.                                                   *)
(***************************************************************************)
EXTENDS Integers, Sequences

CONSTANTS
  Readable,    \* writable registers that read back as written; others read zero
  Offers,      \* sets of features a device may offer
  NumMaxes,    \* QUEUE_NUM_MAX of the devices considered
  PGSIZE,
  DescPage     \* page the linker gives vq_desc

VARIABLES
  dev,    \* what the device is: read-only registers
  reg,    \* what the device holds in the registers the driver writes
  step,   \* writes done
  pc      \* "init", "done" or "panic"

vars == <<dev, reg, step, pc>>

-----------------------------------------------------------------------------
Refused == {"RO", "SCSI", "CONFIG_WCE", "MQ", "ANY_LAYOUT", "EVENT_IDX", "INDIRECT_DESC"}

Write(r, val) == [reg |-> r, val |-> val]

Zero(r) == IF r \in {"STATUS", "DRIVER_FEATURES"} THEN {} ELSE 0

Registers == {"STATUS", "DRIVER_FEATURES", "GUEST_PAGE_SIZE", "QUEUE_SEL", "QUEUE_NUM",
              "QUEUE_PFN", "QUEUE_READY"}

Reset == [r \in Registers |-> Zero(r)]

DriverOk == {"ACKNOWLEDGE", "DRIVER", "FEATURES_OK", "DRIVER_OK"}

Greeting == << Write("STATUS", {}), Write("STATUS", {"ACKNOWLEDGE", "DRIVER"}) >>

(* Mutant: the offer is taken as it is. *)
Features_AsOffered == << Write("DRIVER_FEATURES", dev.features) >>

Features == << Write("DRIVER_FEATURES", dev.features \ Refused) >>

QueueSize ==
  << Write("GUEST_PAGE_SIZE", PGSIZE), Write("QUEUE_SEL", 0), Write("QUEUE_NUM", 8) >>

(* write_mmio_64 is two writes: the high half, zero, goes to the register  *)
(* behind QUEUE_PFN, which is QUEUE_READY.                                 *)
QueueAddress == << Write("QUEUE_PFN", DescPage), Write("QUEUE_READY", 0) >>

Activate == << Write("QUEUE_READY", 1) >>

GoLive == << Write("STATUS", DriverOk) >>

(* Mutant: the driver reports itself ready before the queue is set up. *)
Handshake_LiveEarly == Greeting \o Features \o GoLive \o QueueSize \o QueueAddress \o Activate

(* Mutant: the queue is activated before its address is written. *)
Handshake_AddressLate == Greeting \o Features \o QueueSize \o Activate \o QueueAddress \o GoLive

(* The writes in their order. *)
Handshake == Greeting \o Features \o QueueSize \o QueueAddress \o Activate \o GoLive

Suitable == dev.magic /\ dev.version = 1 /\ dev.id = 2 /\ dev.vendor

QueueReady == "QUEUE_READY" \in Readable /\ reg["QUEUE_READY"] = 1

(* The reads that precede the n-th write find what the driver needs.       *)
Acceptable(n) ==
  /\ n = 1 => Suitable
  /\ Handshake[n].reg = "QUEUE_NUM" => dev.num_max >= 8
  /\ n = Len(Handshake) => QueueReady

Devices == [magic : BOOLEAN, version : {1, 2}, id : {0, 2}, vendor : BOOLEAN,
            features : Offers, num_max : NumMaxes]

Init ==
  /\ dev \in Devices
  /\ reg = Reset
  /\ step = 0
  /\ pc = "init"

(* The write reaches the device, a zero status resets it; then the         *)
(* register is read back.                                                  *)
write_mmio_32(w) ==
  /\ reg' = IF w = Write("STATUS", {}) THEN Reset ELSE [reg EXCEPT ![w.reg] = w.val]
  /\ pc' = IF w.reg \in Readable \/ w.val = Zero(w.reg) THEN "init" ELSE "panic"

NextWrite ==
  /\ pc = "init"
  /\ step < Len(Handshake)
  /\ Acceptable(step + 1)
  /\ write_mmio_32(Handshake[step + 1])
  /\ step' = step + 1
  /\ UNCHANGED dev

Unacceptable ==
  /\ pc = "init"
  /\ step < Len(Handshake)
  /\ ~Acceptable(step + 1)
  /\ pc' = "panic"
  /\ UNCHANGED <<dev, reg, step>>

(* QUEUE_READY is read a second time. *)
Finish ==
  /\ pc = "init"
  /\ step = Len(Handshake)
  /\ pc' = IF QueueReady THEN "done" ELSE "panic"
  /\ UNCHANGED <<dev, reg, step>>

Next == NextWrite \/ Unacceptable \/ Finish

Spec == Init /\ [][Next]_vars /\ WF_vars(Next)

-----------------------------------------------------------------------------
Live == "DRIVER_OK" \in reg["STATUS"]

(* A device that has been told DRIVER_OK has a complete queue: a feature   *)
(* set the driver can serve, a page size, eight descriptors it can hold,   *)
(* the table's page, and the ready bit, whatever write went before.        *)
LiveMeansConfigured ==
  Live =>
    /\ reg["DRIVER_FEATURES"] = dev.features \ Refused
    /\ reg["GUEST_PAGE_SIZE"] = PGSIZE
    /\ reg["QUEUE_NUM"] = 8 /\ dev.num_max >= 8
    /\ reg["QUEUE_PFN"] = DescPage
    /\ reg["QUEUE_READY"] = 1

(* Once the device is live the driver leaves its set-up alone. *)
SetUpPrecedesLive == [][Live => UNCHANGED reg]_vars

(* Initialisation ends, and it ends well exactly on the devices the driver *)
(* was written for.  The last line s_start reaches is panic("到这就算胜利"), *)
(* "getting here is victory" (s_start.cpp:86), right after this call.      *)
VictoryOnSuitable ==
  <>(pc = IF Suitable /\ dev.num_max >= 8 THEN "done" ELSE "panic")
=============================================================================
