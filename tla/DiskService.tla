----------------------------- MODULE DiskService -----------------------------
(***************************************************************************)
(* What a disk driver promises its callers: a call that has been queued is *)
(* served by the device, then answered, and only then returns, each once.  *)
(***************************************************************************)
CONSTANT Procs    \* processes, one call each at a time

VARIABLE phase    \* of each process's call

Phases == {"none", "queued", "served", "answered"}

Init == phase = [p \in Procs |-> "none"]

Goes(p, from, to) == phase[p] = from /\ phase' = [phase EXCEPT ![p] = to]

Queue(p)  == Goes(p, "none", "queued")
Serve(p)  == Goes(p, "queued", "served")
Answer(p) == Goes(p, "served", "answered")
Return(p) == Goes(p, "answered", "none")

Next == \E p \in Procs : Queue(p) \/ Serve(p) \/ Answer(p) \/ Return(p)

Spec == Init /\ [][Next]_phase
=============================================================================
