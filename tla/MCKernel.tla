------------------------------- MODULE MCKernel -------------------------------
(***************************************************************************)
(* Kernel with the disk, the UART, source 8 and two the kernel never heard *)
(* of, one in each of the first two enable words, on either of two harts;  *)
(* the firmware leaves these two or all sources enabled, at priorities and *)
(* thresholds that let nothing or anything pass.  The disk offers nothing, *)
(* or two features the driver refuses and one it keeps, with a queue too   *)
(* small or just large enough.                                             *)
(***************************************************************************)
EXTENDS Kernel

MCIRQs    == {DISK_IRQ, UART_IRQ, 3, 8, 33}
MCEnabled == {{3, 33}, MCIRQs}
MCOffers  == {{}, {"RO", "FLUSH", "EVENT_IDX"}}

(* Every register the driver writes. *)
MCReadable == {"STATUS", "DRIVER_FEATURES", "GUEST_PAGE_SIZE", "QUEUE_SEL", "QUEUE_NUM",
               "QUEUE_PFN", "QUEUE_READY"}
=============================================================================
