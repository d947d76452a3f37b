---------------------------- MODULE MCVirtioInit ----------------------------
(***************************************************************************)
(* VirtioInit on devices that offer any of two features the driver refuses *)
(* and one it keeps, and whose queue is absent, too small, just large      *)
(* enough or larger.                                                       *)
(***************************************************************************)
EXTENDS VirtioInit

MCOffers == SUBSET {"RO", "FLUSH", "EVENT_IDX"}

(* The registers MMIO.hpp does not call write-only. *)
NotWriteOnly == {"STATUS", "DRIVER_FEATURES", "QUEUE_PFN", "QUEUE_READY"}
=============================================================================
