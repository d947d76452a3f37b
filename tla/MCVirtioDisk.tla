---------------------------- MODULE MCVirtioDisk ----------------------------
(***************************************************************************)
(* VirtioDisk with the eight descriptors of the code and three processes:  *)
(* two requests at the device and one process that finds too few           *)
(* descriptors.  Ring indices wrap at 16 instead of 65536: they go round   *)
(* the rings twice before they do.  Both are multiples of NUM, no more     *)
(* than two requests are outstanding, and so the differences of indices    *)
(* that the driver and the device look at are the same.                    *)
(***************************************************************************)
EXTENDS VirtioDisk

(* Nothing tells one process from another, so what one of them can be sure *)
(* of they all can: each sleeper returns as SleeperReturns says it does    *)
(* (virtio_disk.cpp:309-311, :325-332).                                    *)
SleepersReturn == SleeperReturns(CHOOSE p \in Procs : TRUE)
=============================================================================
