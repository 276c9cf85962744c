----------------------------- MODULE Lifecycle ------------------------------
(***************************************************************************)
(* The four processes from start to exit: main of the auth controller, the *)
(* global controller, a meeting controller and a media handler, with the   *)
(* readiness their probes report and their shutdown after SIGTERM.         *)
(*                                                                         *)
(* Kubernetes, PostgreSQL and Redis are outside: a process that has ended  *)
(* is started again, and one that has not ended by the end of its grace    *)
(* period is killed.  Loading and checking of the settings is in Settings, *)
(* heartbeats are in Registration, the first signing key in SigningKeys.   *)
(***************************************************************************)
EXTENDS Naturals, Sequences, FiniteSets

CONSTANTS
    Drain,      \* AC_DRAIN_SECONDS, GC_DRAIN_SECONDS
    Request,    \* TimeoutLayer of the HTTP routes
    Window,     \* the sleep of MC and MH after cancelling
    Grace,      \* terminationGracePeriodSeconds
    Idle,       \* no request is in flight
    MaxTroubles \* bound: outages, crashes, failed binds and signals together

ASSUME GraceAssumption ==
    /\ {Drain, Request, Window, Grace} \subseteq Nat
    /\ Request <= Drain /\ Drain < Grace /\ Window < Grace

Process == {"ac", "gc", "mc", "mh"}
Backend == {"mc", "mh"}
Front   == {"ac", "gc"}

VARIABLES
    up,       \* which of PostgreSQL and Redis answer
    at,       \* how far main is: a step of Steps, or after them; "down" without process
    open,     \* [Process -> SUBSET {"http", "grpc", "wt"}] what accepts connections
    binding,  \* servers whose spawned gRPC task has not bound yet
    deaf,     \* servers whose gRPC task could not bind
    ready,    \* servers with HealthState.ready
    task,     \* [Backend -> "none", "registering", "beating", "ended"]: run_gc_task
    checkers, \* the GC's background tasks that run
    cancelled,\* processes whose cancellation token is cancelled
    age,      \* [Process -> Nat] time since SIGTERM
    req,      \* [Front -> a request in flight: the time it has left, and whether it came before SIGTERM]
    troubles

lifeVars == <<up, at, open, binding, deaf, ready, task, checkers, cancelled, age, req, troubles>>

\* The background tasks of the GC: start_health_checker, start_mh_health_checker
\* and start_assignment_cleanup.
Checker == {"controllers", "handlers", "assignments"}

AcSteps == <<"db", "key", "http">>
GcSteps == <<"db", "token", "checkers", "http", "serve">>
McSteps == <<"redis", "token", "http", "grpc", "connect", "register", "wt">>
\* Mutant: the handler registers before it can accept clients.
MhStepsLate == <<"token", "http", "grpc", "connect", "register", "wt">>
MhSteps == <<"token", "http", "grpc", "wt", "connect", "register">>
Steps == [ac |-> AcSteps, gc |-> GcSteps, mc |-> McSteps, mh |-> MhSteps]

After(n) ==
    LET i == CHOOSE j \in DOMAIN Steps[n] : Steps[n][j] = at[n]
    IN IF i = Len(Steps[n]) THEN "serving" ELSE Steps[n][i + 1]

LifeInit ==
    /\ up = {"db", "redis"} /\ troubles = 0
    /\ at = [n \in Process |-> "down"] /\ open = [n \in Process |-> {}]
    /\ binding = {} /\ deaf = {} /\ ready = {} /\ checkers = {} /\ cancelled = {}
    /\ task = [n \in Backend |-> "none"]
    /\ age = [n \in Process |-> 0] /\ req = [n \in Front |-> Idle]

Trouble == troubles < MaxTroubles /\ troubles' = troubles + 1

\* The process is gone, and with it all it had.
Gone(n) ==
    /\ at' = [at EXCEPT ![n] = "down"]
    /\ open' = [open EXCEPT ![n] = {}]
    /\ binding' = binding \ {n} /\ deaf' = deaf \ {n} /\ ready' = ready \ {n}
    /\ cancelled' = cancelled \ {n}
    /\ age' = [age EXCEPT ![n] = 0]
    /\ task' = IF n \in Backend THEN [task EXCEPT ![n] = "none"] ELSE task
    /\ checkers' = IF n = "gc" THEN {} ELSE checkers
    /\ req' = IF n \in Front THEN [req EXCEPT ![n] = Idle] ELSE req
    /\ UNCHANGED up

-----------------------------------------------------------------------------
(* Kubernetes and the databases. *)

Begin(n) ==
    /\ at[n] = "down"
    /\ at' = [at EXCEPT ![n] = Steps[n][1]]
    /\ UNCHANGED <<up, open, binding, deaf, ready, task, checkers, cancelled, age, req, troubles>>

Crashes(n) == at[n] # "down" /\ Trouble /\ Gone(n)

Killed(n) == age[n] = Grace /\ Gone(n) /\ UNCHANGED troubles

Outage(d) ==
    /\ d \in up /\ Trouble /\ up' = up \ {d}
    /\ UNCHANGED <<at, open, binding, deaf, ready, task, checkers, cancelled, age, req>>
Repair(d) ==
    /\ d \notin up /\ up' = up \cup {d}
    /\ UNCHANGED <<at, open, binding, deaf, ready, task, checkers, cancelled, age, req, troubles>>

-----------------------------------------------------------------------------
(* Start-up. *)

\* issue_service_token and the GC's gRPC services answer.
AcAnswers == "http" \in open["ac"] /\ "db" \in up
GcAnswers == "grpc" \in open["gc"]

\* What a step needs from others: the pool connects eagerly, and so do the Redis
\* client and the GC client; the token manager has 30 seconds for its first token.
Needs(step) ==
    CASE step \in {"db", "key"} -> "db" \in up
      [] step = "redis"         -> "redis" \in up
      [] step = "token"         -> AcAnswers
      [] step = "connect"       -> GcAnswers
      [] OTHER                  -> TRUE

\* A socket that main binds itself is open when the step is done.
Opens(n, step) ==
    open' = [open EXCEPT ![n] = @ \cup (CASE step \in {"http", "wt"} -> {step}
                                          [] step = "serve"          -> {"grpc"}
                                          [] OTHER                   -> {})]

\* One step of main succeeds.  "grpc", "checkers" and "register" spawn tasks.
Pass(n) ==
    /\ \E i \in DOMAIN Steps[n] : Steps[n][i] = at[n]
    /\ Needs(at[n])
    /\ Opens(n, at[n])
    /\ binding' = IF at[n] = "grpc" THEN binding \cup {n} ELSE binding
    /\ task' = IF at[n] = "register" THEN [task EXCEPT ![n] = "registering"] ELSE task
    /\ checkers' = IF at[n] = "checkers" THEN Checker ELSE checkers
    /\ at' = [at EXCEPT ![n] = After(n)]
    /\ UNCHANGED <<up, deaf, ready, cancelled, age, req, troubles>>

\* A step that needs somebody fails or times out, and main returns the error.
Refused(n) ==
    /\ \/ at[n] \in {"db", "key", "redis", "connect"} /\ ~Needs(at[n])
       \/ at[n] = "token"
    /\ Gone(n) /\ UNCHANGED troubles

\* An address cannot be bound: main returns the error.
BindFails(n) == at[n] \in {"http", "wt", "serve"} /\ Trouble /\ Gone(n)

\* The spawned gRPC server binds, or logs that it could not.
GrpcUp(n) ==
    /\ n \in binding
    /\ binding' = binding \ {n}
    /\ open' = [open EXCEPT ![n] = @ \cup {"grpc"}]
    /\ UNCHANGED <<up, at, deaf, ready, task, checkers, cancelled, age, req, troubles>>
GrpcFails(n) ==
    /\ n \in binding /\ Trouble
    /\ binding' = binding \ {n} /\ deaf' = deaf \cup {n}
    /\ UNCHANGED <<up, at, open, ready, task, checkers, cancelled, age, req>>

\* run_gc_task, the initial registration: only success or cancellation end it.
RegisterOk(n) ==
    /\ task[n] = "registering" /\ GcAnswers
    /\ task' = [task EXCEPT ![n] = "beating"]
    /\ ready' = ready \cup {n}
    /\ UNCHANGED <<up, at, open, binding, deaf, checkers, cancelled, age, req, troubles>>
\* Mutant: the task gives up with the first failure.
TryAgainNever(n) ==
    /\ task[n] = "registering" /\ ~GcAnswers
    /\ task' = [task EXCEPT ![n] = "ended"]
    /\ UNCHANGED <<up, at, open, binding, deaf, ready, checkers, cancelled, age, req, troubles>>
TryAgain(n) ==
    /\ task[n] = "registering" /\ ~GcAnswers
    /\ UNCHANGED lifeVars

-----------------------------------------------------------------------------
(* Requests over HTTP to the AC and the GC: before SIGTERM they come and go, so only *)
(* the one that is under way then is kept.                                           *)

Come(n) ==
    /\ at[n] = "draining" /\ req[n] = Idle
    /\ req' = [req EXCEPT ![n] = [left |-> Request, early |-> FALSE]]
    /\ UNCHANGED <<up, at, open, binding, deaf, ready, task, checkers, cancelled, age, troubles>>
Answered(n) ==
    /\ req[n] # Idle
    /\ req' = [req EXCEPT ![n] = Idle]
    /\ UNCHANGED <<up, at, open, binding, deaf, ready, task, checkers, cancelled, age, troubles>>

-----------------------------------------------------------------------------
(* Shutdown. *)

\* AC and GC: the drain period is part of the future that axum's shutdown waits for,
\* so they go on accepting; the GC has cancelled its background tasks by then.
Sigterm(n) ==
    /\ at[n] = "serving" /\ Trouble
    /\ at' = [at EXCEPT ![n] = IF n \in Front THEN "draining" ELSE "notready"]
    /\ cancelled' = IF n = "gc" THEN cancelled \cup {n} ELSE cancelled
    /\ \/ UNCHANGED req
       \/ n \in Front /\ req' = [req EXCEPT ![n] = [left |-> Request, early |-> TRUE]]
    /\ UNCHANGED <<up, open, binding, deaf, ready, task, checkers, age>>

\* Front: the drain period is over, and axum stops accepting.
DrainEnds(n) ==
    /\ n \in Front /\ at[n] = "draining" /\ age[n] >= Drain
    /\ at' = [at EXCEPT ![n] = "closing"]
    /\ open' = [open EXCEPT ![n] = @ \ {"http"}]
    /\ UNCHANGED <<up, binding, deaf, ready, task, checkers, cancelled, age, req, troubles>>

\* A round of a background task of the GC (Assignment and Registration have what it
\* does), and its end between two rounds.
Round(c) == c \in checkers /\ UNCHANGED lifeVars
CheckerEnds(c) ==
    /\ "gc" \in cancelled /\ c \in checkers
    /\ checkers' = checkers \ {c}
    /\ UNCHANGED <<up, at, open, binding, deaf, ready, task, cancelled, age, req, troubles>>

\* MC and MH: set_not_ready, then cancel, then the wait.
NotReady(n) ==
    /\ n \in Backend /\ at[n] = "notready"
    /\ ready' = ready \ {n}
    /\ at' = [at EXCEPT ![n] = "cancel"]
    /\ UNCHANGED <<up, open, binding, deaf, task, checkers, cancelled, age, req, troubles>>
CancelAll(n) ==
    /\ n \in Backend /\ at[n] = "cancel"
    /\ cancelled' = cancelled \cup {n}
    /\ at' = [at EXCEPT ![n] = "draining"]
    /\ UNCHANGED <<up, open, binding, deaf, ready, task, checkers, age, req, troubles>>

\* The servers of a cancelled process stop accepting, and run_gc_task ends.
Closes(n, s) ==
    /\ n \in Backend \cap cancelled /\ s \in open[n]
    /\ open' = [open EXCEPT ![n] = @ \ {s}]
    /\ UNCHANGED <<up, at, binding, deaf, ready, task, checkers, cancelled, age, req, troubles>>
TaskEnds(n) ==
    /\ n \in cancelled /\ task[n] \in {"registering", "beating"}
    /\ task' = [task EXCEPT ![n] = "ended"]
    /\ UNCHANGED <<up, at, open, binding, deaf, ready, checkers, cancelled, age, req, troubles>>

\* MC: controller_handle.shutdown waits for the answer of the controller actor, for as
\* long as that takes: the deadline it sends along is not looked at.
StopActors ==
    /\ at["mc"] = "draining" /\ age["mc"] >= Window
    /\ at' = [at EXCEPT !["mc"] = "actors"]
    /\ UNCHANGED <<up, open, binding, deaf, ready, task, checkers, cancelled, age, req, troubles>>

\* main returns.
Returns(n) ==
    /\ CASE n = "ac" -> at[n] = "closing" /\ req[n] = Idle
         [] n = "gc" -> at[n] = "closing" /\ req[n] = Idle /\ checkers = {}
         [] n = "mc" -> at[n] = "actors"
         [] n = "mh" -> at[n] = "draining" /\ age[n] >= Window
    /\ Gone(n) /\ UNCHANGED troubles

\* Mutant: without the TimeoutLayer a request may take longer.
TimedOutNever(n) == FALSE
\* The TimeoutLayer answers.
TimedOut(n) == req[n] # Idle /\ req[n].left = 0

Stopping(n) == at[n] \in {"draining", "notready", "cancel", "closing", "actors"}

\* What does not wait for anybody happens before time passes.
Urgent(n) ==
    \/ n \in Front /\ TimedOut(n)
    \/ n \in Front /\ at[n] = "draining" /\ age[n] >= Drain
    \/ n \in Front /\ at[n] = "closing" /\ req[n] = Idle
    \/ at[n] \in {"notready", "cancel"}
    \/ n \in Backend /\ at[n] = "draining" /\ age[n] >= Window
    \/ age[n] = Grace

LifeTick ==
    /\ \E n \in Process : Stopping(n)
    /\ \A n \in Process : ~Urgent(n)
    /\ age' = [n \in Process |-> IF Stopping(n) THEN age[n] + 1 ELSE 0]
    /\ req' = [n \in Front |-> IF req[n] = Idle THEN req[n]
                               ELSE [req[n] EXCEPT !.left = IF @ > 0 THEN @ - 1 ELSE @]]
    /\ UNCHANGED <<up, at, open, binding, deaf, ready, task, checkers, cancelled, troubles>>

-----------------------------------------------------------------------------
LifeNext ==
    \/ \E n \in Process :
        \/ Begin(n) \/ Crashes(n) \/ Killed(n) \/ Pass(n) \/ Refused(n) \/ BindFails(n)
        \/ Sigterm(n) \/ Returns(n)
    \/ \E n \in Backend :
        \/ GrpcUp(n) \/ GrpcFails(n) \/ RegisterOk(n) \/ TryAgain(n) \/ NotReady(n) \/ CancelAll(n)
        \/ TaskEnds(n) \/ \E s \in {"http", "grpc", "wt"} : Closes(n, s)
    \/ \E n \in Front : Come(n) \/ Answered(n) \/ DrainEnds(n)
    \/ \E c \in Checker : Round(c) \/ CheckerEnds(c)
    \/ \E d \in {"db", "redis"} : Outage(d) \/ Repair(d)
    \/ StopActors
    \/ LifeTick

\* Processes run, are started again and get an answer some time if somebody gives one;
\* requests are answered and outages end.  A first token that takes too long ends the
\* process, so that strong fairness is needed for it to come in time.
Runs(n) ==
    \/ Begin(n) \/ Pass(n) \/ Returns(n) \/ Killed(n)
    \/ n \in Backend /\ (GrpcUp(n) \/ RegisterOk(n) \/ NotReady(n) \/ CancelAll(n))
    \/ n \in Front /\ DrainEnds(n)
    \/ n = "gc" /\ \E c \in Checker : CheckerEnds(c)
    \/ n = "mc" /\ StopActors
LifeFairness ==
    /\ \A n \in Process : WF_lifeVars(Runs(n))
    /\ \A n \in {"gc", "mc", "mh"} : SF_lifeVars(at[n] = "token" /\ Pass(n))
    /\ \A n \in Front : WF_lifeVars(Answered(n))
    /\ \A d \in {"db", "redis"} : WF_lifeVars(Repair(d))
    /\ WF_lifeVars(LifeTick)
LifeSpec == LifeInit /\ [][LifeNext]_lifeVars /\ LifeFairness

-----------------------------------------------------------------------------
\* readiness_check of the AC (a signing key exists since main's step "key", see
\* SigningKeys) and of the GC, and readiness_handler of MC and MH.
AcReady == "http" \in open["ac"] /\ "db" \in up
GcReady == "http" \in open["gc"] /\ "db" \in up
McReady == "http" \in open["mc"] /\ "mc" \in ready
MhReady == "http" \in open["mh"] /\ "mh" \in ready
Ready == [ac |-> AcReady, gc |-> GcReady, mc |-> McReady, mh |-> MhReady]

(* A request that came before SIGTERM is answered: none is left when the grace period
   is over, although the drain period and the requests have timeouts of their own. *)
EarlyServed == \A n \in Front : req[n] # Idle /\ req[n].early => age[n] < Grace

(* A media handler takes clients from the moment the GC may send any, and one that
   stops is done before its grace period is over.  Only an MC may be killed, and only
   while it waits for its actors: by then it has cancelled everything else. *)
ServersInTime ==
    /\ task["mh"] \in {"registering", "beating"} /\ "mh" \notin cancelled => "wt" \in open["mh"]
    /\ age["mh"] < Grace
    /\ age["mc"] = Grace => at["mc"] = "actors" /\ "mc" \in cancelled

LifeCorrect == EarlyServed /\ ServersInTime

(* In whatever order the processes start, and after any outage, crash or restart, all
   of them become ready, and stay it: none waits for one that waits for it, and none
   gives up.  Only a gRPC server that could not bind stays closed. *)
AllServe == \A n \in Process : Ready[n] /\ (n = "ac" \/ n \in deaf \/ "grpc" \in open[n])
ComesUp == <>[]AllServe
=============================================================================
