------------------------------ MODULE KeyTimes ------------------------------
(* The clock, and the times that bound the life of a signing key: what the      *)
(* auth controller's table (SigningKeys) and what it promises of it (KeyRing)   *)
(* have in common.                                                              *)
EXTENDS Integers

CONSTANTS
    Validity,    \* KEY_VALIDITY_DAYS: how long a key may be used
    MinForced,   \* minimum interval with admin.force-rotate-keys.ac, the shorter one
    TxMax,       \* request timeout, and bound on a start-up: how long a transaction lasts
    None

ASSUME KeyTimesAssumption ==
    /\ Validity \in Nat /\ MinForced \in Nat /\ TxMax \in Nat
    /\ None \notin Nat

VARIABLE now
=============================================================================
