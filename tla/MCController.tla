---------------------------- MODULE MCController ----------------------------
(* Two parts that share no state, so each behaviour runs one of them: a       *)
(* meeting controller process with a few calls, meetings and clients, and     *)
(* concurrent calls of the fenced Redis clients of several controllers.       *)
EXTENDS Controller, FencedRedis, TLC

CONSTANTS r1, r2, k1, k2, m1, m2, c1, c2, c3, f1

VARIABLE part
partVars == <<part, mcVars, vars>>

PartsInit == part \in {"controller", "redis"} /\ CtlInit /\ Init
PartsNext ==
    /\ UNCHANGED part
    /\ \/ part = "controller" /\ CtlNext /\ UNCHANGED vars
       \/ part = "redis" /\ Next /\ UNCHANGED mcVars
PartsSpec == PartsInit /\ [][PartsNext]_partVars

OneHandler == <<"mh1">>
Symmetry == UNION {Permutations(S) : S \in {Rpc, Client, MeetingId}}
=============================================================================
