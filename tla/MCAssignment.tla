---------------------------- MODULE MCAssignment ----------------------------
(* Assignment with a few controllers and concurrent requests. *)
EXTENDS Assignment, TLC

CONSTANT r1

\* Both controllers register in one region.
MCRegionOf == [m \in Mc |-> r1]
\* Heartbeats of controllers that are well.
AllWell == {[health |-> "healthy", full |-> FALSE]}
Symmetry == Permutations(Task) \cup Permutations(Mc)
=============================================================================
