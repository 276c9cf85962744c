---------------------------- MODULE MCLifecycle -----------------------------
(* Lifecycle, with time limits in the order of the code's, and Registration of *)
(* one server (servers share nothing but the clock): each behaviour runs one of *)
(* the two.  The other rests in a state in which no fair action is enabled, so  *)
(* that the fairness of both can be asked of every behaviour.                   *)
EXTENDS Lifecycle, Registration, TLC

CONSTANT s1

VARIABLE part
partVars == <<part, lifeVars, vars>>

\* All services are up and nothing is under way: only a trouble could change that.
LifeRests ==
    /\ up = {"db", "redis"} /\ troubles = 0
    /\ at = [n \in Process |-> "serving"]
    /\ open = [ac |-> {"http"}, gc |-> {"http", "grpc"}, mc |-> {"http", "grpc", "wt"},
               mh |-> {"http", "grpc", "wt"}]
    /\ binding = {} /\ deaf = {} /\ ready = Backend /\ checkers = Checker /\ cancelled = {}
    /\ task = [n \in Backend |-> "beating"]
    /\ age = [n \in Process |-> 0] /\ req = [n \in Front |-> Idle]

\* At first the server of Registration is down, and nothing makes it start.
PartsInit ==
    /\ part \in {"life", "registration"}
    /\ IF part = "life" THEN LifeInit ELSE LifeRests
    /\ Init
PartsNext ==
    /\ UNCHANGED part
    /\ \/ part = "life" /\ LifeNext /\ UNCHANGED vars
       \/ part = "registration" /\ Next /\ UNCHANGED lifeVars
PartsSpec == PartsInit /\ [][PartsNext]_partVars /\ LifeFairness /\ Fairness
=============================================================================
