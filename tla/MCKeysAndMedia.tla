--------------------------- MODULE MCKeysAndMedia ---------------------------
(* Two parts that share no state, so each behaviour runs one of them:          *)
(* SigningKeys with two replicas and a few requests, up to a time, and          *)
(* MediaSession of one meeting on one media handler.  While the keys change the *)
(* media handler rests in a state in which no fair action is enabled.           *)
EXTENDS SigningKeys, MediaSession, TLC

CONSTANTS MaxTime, MaxKeys, p1, p2, c1, c2, m1, m2

VARIABLE part
partVars == <<part, vars, mediaVars>>

\* Every participant has one connection.
MCPartOf == [c \in Conn |-> IF c = c1 THEN p1 ELSE p2]

\* Every connection to the media handler has been refused.
MediaRests ==
    /\ registered = NoMc /\ active = {} /\ pending = {} /\ woken = {} /\ notices = {}
    /\ phase = [c \in Conn |-> "refused"]
    /\ calls = [m \in Mc |-> 0] /\ registry = [m \in Mc |-> {}] /\ known = [c \in Conn |-> NoMc]

PartsInit ==
    /\ part \in {"keys", "media"}
    /\ Init
    /\ IF part = "media" THEN MediaInit ELSE MediaRests
PartsNext ==
    /\ UNCHANGED part
    /\ \/ part = "keys" /\ Next /\ UNCHANGED mediaVars
       \/ part = "media" /\ MediaNext /\ UNCHANGED vars
PartsSpec == PartsInit /\ [][PartsNext]_partVars /\ MediaFairness

Bounded == now <= MaxTime /\ Len(keys) <= MaxKeys

\* Replicas and requests are in no state of the media part, to which alone the fairness
\* and the liveness property belong: there every permutation is the identity.
Symmetry == Permutations(Ac) \cup Permutations(Request)
=============================================================================
