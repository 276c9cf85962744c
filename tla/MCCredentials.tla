--------------------------- MODULE MCCredentials ---------------------------
(* Credentials with two validations at a time, up to a time. *)
EXTENDS Credentials, TLC

CONSTANTS MaxTime, MaxKeys

\* A key that a starting replica adds is followed for one step: for the validators it is
\* like one that a rotation adds while it keeps the others.
Bounded ==
    /\ now <= MaxTime /\ Len(ring) <= MaxKeys
    /\ \A k \in 2..Len(ring) : ring[k].rotated

Symmetry == Permutations(Validation)
=============================================================================
