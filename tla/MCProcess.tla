------------------------------ MODULE MCProcess ------------------------------
(***************************************************************************)
(* Process with pages of two bytes: images of a code and a data segment    *)
(* that are close together, far apart, long, misaligned, empty or of an    *)
(* unknown kind, and one with too many segments.                           *)
(***************************************************************************)
EXTENDS Process

Segment(vaddr, memsz, flags) ==
  [load |-> TRUE, vaddr |-> vaddr, memsz |-> memsz, flags |-> flags]

Code(vaddr, memsz) == Segment(vaddr, memsz, {"R", "X"})
Data(vaddr, memsz) == Segment(vaddr, memsz, {"R", "W"})
Note == [load |-> FALSE, vaddr |-> 0, memsz |-> 0, flags |-> {"R"}]

MCImages ==
  { << Code(0, 2) >>,
    << Code(4, 2), Data(6, 1) >>,
    << Code(4, 2), Data(12, 3) >>,
    << Code(0, 8) >>,
    << Code(3, 4), Note >>,
    << Note, Data(8, 7) >>,
    << Segment(0, 2, {"R"}) >>,
    << Code(0, 2), Data(4, 0) >>,
    << Code(0, 2), Data(2, 2), Note >> }

MCPerms == { permission_code(FALSE, TRUE, TRUE, TRUE, FALSE),
             permission_code(TRUE, TRUE, FALSE, TRUE, FALSE) }

MCStores == { ZeroWord, PageTableEntry(KERNEL_END, {"V", "R", "W", "U"}) }
=============================================================================
