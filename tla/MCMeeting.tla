------------------------------ MODULE MCMeeting ------------------------------
(***************************************************************************)
(* Instances of Meeting for TLC.                                           *)
(***************************************************************************)
EXTENDS Meeting, TLC

CONSTANTS p1, p2, c1, c2, c3

TwoPids    == {p1, p2}
ThreeConns == {c1, c2, c3}
HostP1 == {p1}
OnlyP2 == {p2}

\* Connection ids are interchangeable, and so are participants that are not hosts.
ConnSymmetry == Permutations(Conn)

\* Bound: a meeting ends when nobody in it is muted.
EndsUnmuted ==
    cancelled => \A p \in Pid : participants[p] # None =>
                    ~participants[p].selfMuted /\ ~participants[p].hostMuted
=============================================================================
