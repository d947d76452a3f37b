-------------------------------- MODULE MCPmm --------------------------------
(***************************************************************************)
(* Pmm on a RAM of four pages of one word.  Clients store zero, the link   *)
(* of a page (a stale free list pointer), and a valid page table entry.    *)
(***************************************************************************)
EXTENDS Pmm

MCStores == {ZeroWord, Link(KERNEL_END), [pa |-> KERNEL_END + 1, flag |-> {"V"}]}
=============================================================================
