---------------------------- MODULE MCVirtioQueue ----------------------------
(***************************************************************************)
(* VirtioQueue with the eight descriptors of the code, and three requests: *)
(* as many as can be submitted, and one more.                              *)
(***************************************************************************)
EXTENDS VirtioQueue
=============================================================================
