---------------------------- MODULE AddressSpace ----------------------------
(***************************************************************************)
(* What vmm.hpp promises of a PageTable, with no tables: a partial map     *)
(* from pages of virtual addresses to entries, one map per PageTable       *)
(* object.  add refuses a key that is present, erase and lookup refuse one *)
(* that is absent, and no operation touches another key or another map.    *)
(***************************************************************************)
EXTENDS Integers

CONSTANTS
  Tables,    \* PageTable objects
  Keys,      \* pages of virtual addresses, as an Sv39 walk tells them apart
  Entries,   \* what add may map a key to: records with a field pa
  None       \* the entry of an absent key; lookup returns its pa

VARIABLES
  space,   \* the maps
  call,    \* the call the last step made and its result: <<op, t, k, result>>
  cpu      \* "halted" once the kernel has stopped

vars == <<space, call, cpu>>

NoCall == <<>>
Empty  == [k \in Keys |-> None]

Init ==
  /\ space = [t \in Tables |-> Empty]
  /\ call = NoCall
  /\ cpu = "running"

Add(t, k) ==
  \/ /\ space[t][k] = None
     /\ \E entry \in Entries : space' = [space EXCEPT ![t][k] = entry]
     /\ call' = <<"add", t, k, 0>>
  \/ /\ space[t][k] # None
     /\ call' = <<"add", t, k, -1>>
     /\ UNCHANGED space

Erase(t, k) ==
  \/ /\ space[t][k] # None
     /\ call' = <<"erase", t, k, 0>>
     /\ space' = [space EXCEPT ![t][k] = None]
  \/ /\ space[t][k] = None
     /\ call' = <<"erase", t, k, -1>>
     /\ UNCHANGED space

Lookup(t, k) ==
  /\ call' = <<"lookup", t, k, space[t][k].pa>>
  /\ UNCHANGED space

(* Steps that call none of the three: a map may be emptied by its end. *)
Destroy(t) ==
  /\ call' = NoCall
  /\ space' = [space EXCEPT ![t] = Empty]

Other ==
  /\ call' = NoCall
  /\ UNCHANGED space

(* The kernel has no memory left for a table and stops. *)
Halt ==
  /\ cpu' = "halted"
  /\ call' = NoCall
  /\ UNCHANGED space

Next ==
  /\ cpu = "running"
  /\ \/ /\ cpu' = "running"
        /\ \/ \E t \in Tables, k \in Keys : Add(t, k) \/ Erase(t, k) \/ Lookup(t, k)
           \/ \E t \in Tables : Destroy(t)
           \/ Other
     \/ Halt

Spec == Init /\ [][Next]_vars
=============================================================================
