-------------------------------- MODULE MCVmm --------------------------------
(***************************************************************************)
(* Vmm with pages of two words (three levels of two entries) and two       *)
(* bytes, in an address space of 64: addresses below 8 and from 56 on are  *)
(* canonical.                                                              *)
(***************************************************************************)
EXTENDS Vmm, TLC

TableSymmetry == Permutations(Tables)

MCPerms == { permission_code(FALSE, TRUE, TRUE, TRUE, FALSE),
             permission_code(TRUE, TRUE, FALSE, TRUE, FALSE) }

OnePerm == { permission_code(TRUE, TRUE, FALSE, TRUE, FALSE) }

(* A cleared word and a valid entry that leads to the first page. *)
MCStores == { ZeroWord, PageTableEntry(KERNEL_END, {"V", "R", "W", "U"}) }
OneStore == { PageTableEntry(KERNEL_END, {"V", "R", "W", "U"}) }
ZeroStore == { ZeroWord }
=============================================================================
