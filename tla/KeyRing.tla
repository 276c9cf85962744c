------------------------------ MODULE KeyRing ------------------------------
(***************************************************************************)
(* What the auth controller promises the rest of the system about its      *)
(* signing keys, whatever its replicas and its database transactions do:   *)
(* keys are only added; a rotation adds one and retires, in the same step, *)
(* every key but those that a starting replica put in meanwhile; and two   *)
(* rotations are never closer than MinForced - TxMax.                      *)
(*                                                                         *)
(* SigningKeys implements this module; Credentials builds on it.           *)
(***************************************************************************)
EXTENDS KeyTimes, Sequences

VARIABLE ring   \* the keys in the order they were committed

\* A key: the start of its validity, when it was retired (None while it is
\* active) and whether a rotation made it.
Key == [from: Nat, retired: Nat \cup {None}, rotated: BOOLEAN]

\* The key may sign, and the JWKS endpoint lists it.
CurrentAt(k, t) == k.retired = None /\ k.from <= t /\ t < k.from + Validity

\* get_jwks: the keys the endpoint lists.
Jwks == {k \in DOMAIN ring : CurrentAt(ring[k], now)}

\* Mutant: the oldest key signs, retired or not.
SigningOldest == {k \in DOMAIN ring : \A j \in DOMAIN ring : k <= j}
\* The keys that sign: those with the latest start.
Signing == {k \in Jwks : \A j \in Jwks : ring[j].from <= ring[k].from}

\* When a key that is committed now was stamped.
Stamp == {t \in (now - TxMax)..now : t >= 0}

RingInit == now = 0 /\ ring = <<>>

\* A starting replica that found no current key adds one.
Add(from) ==
    /\ from \in Stamp
    /\ ring' = Append(ring, [from |-> from, retired |-> None, rotated |-> FALSE])
    /\ UNCHANGED now

\* A rotation: kept are the keys added while its transaction ran.
Rotate(from, kept) ==
    /\ from \in Stamp
    /\ \A k \in DOMAIN ring : ring[k].rotated => from >= ring[k].from + MinForced - TxMax
    /\ \A k \in kept : ~ring[k].rotated
    /\ ring' = Append(
           [k \in DOMAIN ring |->
               IF ring[k].retired = None /\ k \notin kept
               THEN [ring[k] EXCEPT !.retired = now] ELSE ring[k]],
           [from |-> from, retired |-> None, rotated |-> TRUE])
    /\ UNCHANGED now

Pass ==
    /\ now' = now + 1
    /\ UNCHANGED ring

RingNext ==
    \/ \E from \in Stamp : Add(from)
    \/ \E from \in Stamp, kept \in SUBSET DOMAIN ring : Rotate(from, kept)
    \/ Pass

RingSpec == RingInit /\ [][RingNext]_<<now, ring>>
=============================================================================
