--------------------------------- MODULE Boot ---------------------------------
(***************************************************************************)
(* s_start (os/src/s_start.cpp) from the trap vector to its final panic,   *)
(* the interrupt controller it programs on the way (os/src/PLIC.cpp), and  *)
(* the trap handler (os/src/strap.cpp).  Devices raise their lines and the *)
(* hart takes what it may at any point in between; the firmware leaves the *)
(* controller as it likes.                                                 *)
(***************************************************************************)
EXTENDS Integers, FiniteSets

CONSTANTS
  IRQs,         \* interrupt sources that may be raised
  Harts,        \* harts the firmware may boot
  Priorities,   \* priorities and thresholds the firmware may leave
  Enabled       \* sets of sources the firmware may leave enabled

UART_IRQ == 10
DISK_IRQ == 1

ASSUME SourcesAssumption ==
  /\ {DISK_IRQ, UART_IRQ, 8} \subseteq IRQs /\ IRQs \subseteq 1 .. 1023
  /\ Priorities \subseteq 0 .. 7
  /\ Enabled \subseteq SUBSET IRQs

VARIABLES
  hart,   \* read_tp(): the boot hart
  csr,    \* stvec, sstatus.SIE and sie.SEIE
  plic,   \* the controller, for this hart's two contexts "M" and "S"
  at,     \* the next call of s_start
  mode    \* "running", "trapped" or "off"

vars == <<hart, csr, plic, at, mode>>

-----------------------------------------------------------------------------
(* The sources a context is interrupted by. *)
Deliverable(p, ctx) ==
  { i \in p.pending \cap p.enable[ctx] : p.priority[i] > p.threshold[ctx] }

Init ==
  /\ hart \in Harts
  /\ csr \in [stvec : {"firmware"}, SIE : {FALSE}, SEIE : BOOLEAN]
  /\ \E pr, th \in Priorities, en \in Enabled :
       plic = [priority  |-> [i \in IRQs |-> pr],
               enable    |-> [ctx \in {"M", "S"} |-> en],
               threshold |-> [ctx \in {"M", "S"} |-> th],
               pending   |-> {}]
  /\ at = "stvec"
  /\ mode = "running"

(* s_start does one call and goes on to the next.  Before "stvec" it has   *)
(* left its guard against a second entry and hello, which runs pmm_init,   *)
(* with interrupts off.                                                    *)
Call(this, then) ==
  /\ mode = "running"
  /\ at = this
  /\ at' = then
  /\ UNCHANGED hart

(* Mutant: interrupts are let in before there is a place for them to go. *)
s_start_VectorLast ==
  \/ Call("stvec", "sstatus") /\ csr' = [csr EXCEPT !.SIE = TRUE]
  \/ Call("sstatus", "sie") /\ csr' = [csr EXCEPT !.SEIE = TRUE]
  \/ Call("sie", "plicinit") /\ csr' = [csr EXCEPT !.stvec = "smode_trap_handler"]

(* write_csr(stvec), set_csr(sstatus, 1 << 1), set_csr(sie, 1 << 9) *)
s_start ==
  \/ Call("stvec", "sstatus") /\ csr' = [csr EXCEPT !.stvec = "smode_trap_handler"]
  \/ Call("sstatus", "sie") /\ csr' = [csr EXCEPT !.SIE = TRUE]
  \/ Call("sie", "plicinit") /\ csr' = [csr EXCEPT !.SEIE = TRUE]

(* Two stores, and an interrupt may come between them. *)
plicinit ==
  \/ Call("plicinit", "plicinit 2") /\ plic' = [plic EXCEPT !.priority[DISK_IRQ] = 1]
  \/ Call("plicinit 2", "plicinithart") /\ plic' = [plic EXCEPT !.priority[UART_IRQ] = 1]

(* The sources whose enable bits are in the word at PLIC_SENABLE(hart). *)
FirstWord == { i \in IRQs : i < 32 }

(* Mutant: the enable bits are added to those that are set. *)
plicinithart_Adds ==
  \/ /\ Call("plicinithart", "plicinithart 2")
     /\ hart = 0
     /\ plic' = [plic EXCEPT !.enable["S"] = @ \cup {UART_IRQ, DISK_IRQ}]
     /\ UNCHANGED mode
  \/ /\ Call("plicinithart 2", "plic_priority_init")
     /\ plic' = [plic EXCEPT !.threshold["S"] = 0]
     /\ UNCHANGED mode

(* Mutant: the threshold is left as it is. *)
plicinithart_NoThreshold ==
  \/ /\ Call("plicinithart", "plicinithart 2")
     /\ hart = 0
     /\ plic' = [plic EXCEPT !.enable["S"] = (@ \ FirstWord) \cup {UART_IRQ, DISK_IRQ}]
     /\ UNCHANGED mode
  \/ /\ Call("plicinithart 2", "plic_priority_init")
     /\ UNCHANGED <<plic, mode>>

(* The store to PLIC_SENABLE(hart) replaces the word of sources 1 to 31;   *)
(* the words of the other sources stay as the firmware left them.          *)
plicinithart ==
  \/ /\ Call("plicinithart", "plicinithart 2")
     /\ IF hart = 0
        THEN /\ plic' = [plic EXCEPT !.enable["S"] = (@ \ FirstWord) \cup {UART_IRQ, DISK_IRQ}]
             /\ UNCHANGED mode
        ELSE /\ mode' = "off"
             /\ UNCHANGED plic
  \/ /\ Call("plicinithart 2", "plic_priority_init")
     /\ plic' = [plic EXCEPT !.threshold["S"] = 0]
     /\ UNCHANGED mode

plic_priority_init ==
  /\ Call("plic_priority_init", "plic_enable_interrupt")
  /\ plic' = [plic EXCEPT !.priority[8] = 7]

(* PLIC_ENABLE_BASE is PLIC_MENABLE(0), the enable word of the M context. *)
plic_enable_interrupt ==
  /\ Call("plic_enable_interrupt", "plic_threshold_init")
  /\ plic' = [plic EXCEPT !.enable["M"] = @ \cup {8}]

(* PLIC_THRESHOLD_BASE is PLIC_MPRIORITY(0). *)
plic_threshold_init ==
  /\ Call("plic_threshold_init", "virtio_blk_init")
  /\ plic' = [plic EXCEPT !.threshold["M"] = 0]

(* virtio_blk_init returns or panics, and s_start panics after it. *)
Finish ==
  \/ /\ Call("virtio_blk_init", "panic")
     /\ mode' \in {"running", "off"}
  \/ /\ Call("panic", "panic")
     /\ mode' = "off"

(* The handler's first statement is a panic. *)
smode_trap_handler ==
  /\ mode = "trapped"
  /\ mode' = "off"
  /\ UNCHANGED <<hart, csr, plic, at>>

-----------------------------------------------------------------------------
(* A device raises its line. *)
Raise(irq) ==
  /\ mode = "running"
  /\ plic' = [plic EXCEPT !.pending = @ \cup {irq}]
  /\ UNCHANGED <<hart, csr, at, mode>>

(* The hart takes an external interrupt. *)
TakeInterrupt ==
  /\ mode = "running"
  /\ csr.SIE /\ csr.SEIE
  /\ Deliverable(plic, "S") # {}
  /\ mode' = "trapped"
  /\ UNCHANGED <<hart, csr, plic, at>>

Next ==
  \/ s_start /\ UNCHANGED <<plic, mode>>
  \/ plicinit /\ UNCHANGED <<csr, mode>>
  \/ plicinithart /\ UNCHANGED csr
  \/ plic_priority_init /\ UNCHANGED <<csr, mode>>
  \/ plic_enable_interrupt /\ UNCHANGED <<csr, mode>>
  \/ plic_threshold_init /\ UNCHANGED <<csr, mode>>
  \/ Finish /\ UNCHANGED <<csr, plic>>
  \/ smode_trap_handler
  \/ \E irq \in IRQs : Raise(irq)
  \/ TakeInterrupt

Spec == Init /\ [][Next]_vars

-----------------------------------------------------------------------------
(* The calls of s_start after both stores of plicinithart. *)
ControllerSet ==
  at \in {"plic_priority_init", "plic_enable_interrupt", "plic_threshold_init",
          "virtio_blk_init", "panic"}

(* Wherever in the boot an interrupt comes, and whatever the firmware left *)
(* enabled, the hart goes to the kernel's handler and not the firmware's.  *)
TrapsAreVectored == mode = "trapped" => csr.stvec = "smode_trap_handler"

(* Of the sources 1 to 31, one that the kernel does not know but that the  *)
(* firmware left enabled stops the boot only before plicinithart has       *)
(* replaced their enable word.  Sources from 32 on (the PCIe interrupts of *)
(* the virt machine) are not in that word (PLIC.cpp:49): one that is left  *)
(* enabled can stop the boot after it as well, and nothing is claimed of   *)
(* them.                                                                   *)
OnlyKnownSources ==
  mode = "trapped" /\ ControllerSet =>
    Deliverable(plic, "S") \cap FirstWord \subseteq {UART_IRQ, DISK_IRQ}

(* When virtio_blk_init starts to talk to the disk, an interrupt of the    *)
(* disk or the UART would be delivered, whatever priorities and thresholds *)
(* the firmware left.                                                      *)
SourcesArmed ==
  ControllerSet /\ csr.SIE /\ csr.SEIE =>
    \A irq \in {UART_IRQ, DISK_IRQ} :
      irq \in Deliverable([plic EXCEPT !.pending = {irq}], "S")
=============================================================================
