---------------------------- MODULE Registration ----------------------------
(***************************************************************************)
(* How meeting controllers and media handlers register with the global     *)
(* controller (GC), keep their row alive with heartbeats, and get lost and *)
(* found.  Both kinds of server run the same task (run_gc_task over their  *)
(* GcClient), and the GC keeps both in tables of the same shape, so a      *)
(* server here is either.                                                  *)
(*                                                                         *)
(* Time passes in ticks.  A timer that is due holds time back until it has *)
(* fired: tasks are assumed to run promptly.  A call that the server has   *)
(* given up may still be handled, at any later time.                       *)
(*                                                                         *)
(* Heartbeats always say healthy, as the code's do, and the GC accepts     *)
(* every registration, as its handlers do.  The load they report and the   *)
(* intervals the GC sends back are left out, and so is the readiness flag, *)
(* which nothing here reads.  A server has at most one given-up call of    *)
(* each kind under way.                                                    *)
(***************************************************************************)
EXTENDS Naturals

CONSTANTS
    Server,       \* meeting controllers and media handlers
    None,
    Interval,     \* ticks between heartbeats
    RpcTimeout,   \* GC_RPC_TIMEOUT
    Staleness,    \* the age at which a row is still fresh
    Tolerated     \* heartbeats in a row that may fail

Row == [health: {"pending", "healthy", "unhealthy"}, age: 0..Staleness + 1]

ASSUME TimingAssumption ==
    /\ Interval \in Nat /\ RpcTimeout \in Nat /\ Staleness \in Nat /\ Tolerated \in Nat
    /\ None \notin Row
    /\ RpcTimeout <= Interval
    /\ (Tolerated + 1) * Interval + RpcTimeout <= Staleness

VARIABLES
    row,     \* the server's row in the GC's table
    pc,      \* where the server's GC task is
    timer,   \* ticks since it last called
    late,    \* calls that were given up and may still be handled
    missed   \* history: heartbeats in a row that failed, counted up to Tolerated + 1

vars == <<row, pc, timer, late, missed>>

\* "silent" is the heartbeat loop with is_registered cleared.
Place == {"down", "starting", "registering", "idle", "beating", "reregistering", "silent"}
Kind == {"register", "heartbeat"}

TypeOK ==
    /\ row \in [Server -> Row \cup {None}]
    /\ pc \in [Server -> Place]
    /\ timer \in [Server -> 0..Interval]
    /\ late \subseteq Server \X Kind
    /\ missed \in [Server -> 0..Tolerated + 1]

Init ==
    /\ row = [s \in Server |-> None]
    /\ pc = [s \in Server |-> "down"]
    /\ timer = [s \in Server |-> 0]
    /\ late = {}
    /\ missed = [s \in Server |-> 0]

-----------------------------------------------------------------------------
(* The GC's tables. *)

\* INSERT ... ON CONFLICT DO UPDATE of a registration: pending in every case.
Registered == [health |-> "pending", age |-> 0]

\* Mutant: the health field is left at its default.
DefaultReported == "pending"
\* The health of a heartbeat, HealthStatus::from_proto of what the servers send.
Reported == "healthy"

\* UPDATE ... WHERE id: a heartbeat makes no row, and brings back one that went stale.
Beaten(r) == IF r = None THEN None ELSE [health |-> Reported, age |-> 0]

\* Mutant: a row is stale when it has reached the threshold.
StaleTooEarly(r) == r.age >= Staleness
\* last_heartbeat_at is more than the threshold ago.
Stale(r) == r.age > Staleness

\* mark_stale_controllers_unhealthy, mark_stale_handlers_unhealthy, every few seconds.
HealthCheck ==
    /\ row' = [s \in Server |->
                IF row[s] # None /\ Stale(row[s]) THEN [row[s] EXCEPT !.health = "unhealthy"] ELSE row[s]]
    /\ UNCHANGED <<pc, timer, late, missed>>

\* get_candidate_mhs and the candidate query for MCs: what meetings are placed on.
Candidate(s) == row[s] # None /\ row[s].health = "healthy" /\ row[s].age < Staleness

\* The GC comes back with a database that does not have the row.
LoseRow(s) ==
    /\ row' = [row EXCEPT ![s] = None]
    /\ UNCHANGED <<pc, timer, late, missed>>

-----------------------------------------------------------------------------
(* The server's task: run_gc_task. *)

\* The call under way, if any, is no longer waited for.
GiveUp(s, kind) == late' = late \cup {<<s, kind>>}

Start(s) ==
    /\ pc[s] = "down"
    /\ pc' = [pc EXCEPT ![s] = "starting"]
    /\ UNCHANGED <<row, timer, late, missed>>

\* The process ends, with what it has under way.
Stop(s) ==
    /\ pc[s] # "down"
    /\ pc' = [pc EXCEPT ![s] = "down"]
    /\ timer' = [timer EXCEPT ![s] = 0]
    /\ \/ pc[s] \in {"registering", "reregistering"} /\ GiveUp(s, "register")
       \/ pc[s] = "beating" /\ GiveUp(s, "heartbeat")
       \/ pc[s] \notin {"registering", "reregistering", "beating"} /\ UNCHANGED late
    /\ UNCHANGED <<row, missed>>

\* register: one attempt of many.
SendRegister(s) ==
    /\ pc[s] = "starting"
    /\ pc' = [pc EXCEPT ![s] = "registering"]
    /\ timer' = [timer EXCEPT ![s] = 0]
    /\ UNCHANGED <<row, late, missed>>

\* register_mc, register_mh, and the answer.  The first heartbeat is due at once, and
\* after a new registration the next one by its interval.
HandleRegister(s) ==
    /\ pc[s] \in {"registering", "reregistering"}
    /\ row' = [row EXCEPT ![s] = Registered]
    /\ pc' = [pc EXCEPT ![s] = "idle"]
    /\ timer' = IF pc[s] = "registering" THEN [timer EXCEPT ![s] = Interval] ELSE timer
    /\ missed' = [missed EXCEPT ![s] = 0]
    /\ UNCHANGED late

\* Mutant: the task gives up with the attempt.
RegisterFailsForGood(s) ==
    /\ pc[s] = "registering"
    /\ pc' = [pc EXCEPT ![s] = "silent"]
    /\ timer' = [timer EXCEPT ![s] = 0]
    /\ GiveUp(s, "register")
    /\ UNCHANGED <<row, missed>>
\* The attempt fails or times out: register tries again after its backoff, and when it
\* has used up its attempts run_gc_task calls it again.
RegisterFails(s) ==
    /\ pc[s] = "registering"
    /\ pc' = [pc EXCEPT ![s] = "starting"]
    /\ timer' = [timer EXCEPT ![s] = 0]
    /\ GiveUp(s, "register")
    /\ UNCHANGED <<row, missed>>

\* One of the tickers fires.
SendHeartbeat(s) ==
    /\ pc[s] = "idle"
    /\ pc' = [pc EXCEPT ![s] = "beating"]
    /\ timer' = [timer EXCEPT ![s] = 0]
    /\ UNCHANGED <<row, late, missed>>

\* fast_heartbeat, comprehensive_heartbeat and send_load_report of the GC.
HandleHeartbeat(s) ==
    /\ pc[s] = "beating"
    /\ row[s] # None
    /\ row' = [row EXCEPT ![s] = Beaten(row[s])]
    /\ pc' = [pc EXCEPT ![s] = "idle"]
    /\ missed' = [missed EXCEPT ![s] = 0]
    /\ UNCHANGED <<timer, late>>

\* Mutant: NOT_FOUND is an error like the others.
NotFoundIgnored(s) ==
    /\ pc[s] = "beating"
    /\ row[s] = None
    /\ pc' = [pc EXCEPT ![s] = "idle"]
    /\ UNCHANGED <<row, timer, late, missed>>
\* NOT_FOUND: is_registered is cleared, and attempt_reregistration calls at once.
HeartbeatNotFound(s) ==
    /\ pc[s] = "beating"
    /\ row[s] = None
    /\ pc' = [pc EXCEPT ![s] = "reregistering"]
    /\ timer' = [timer EXCEPT ![s] = 0]
    /\ UNCHANGED <<row, late, missed>>

\* The heartbeat fails otherwise or times out.
HeartbeatFails(s) ==
    /\ pc[s] = "beating"
    /\ pc' = [pc EXCEPT ![s] = "idle"]
    /\ GiveUp(s, "heartbeat")
    /\ missed' = [missed EXCEPT ![s] = IF @ > Tolerated THEN @ ELSE @ + 1]
    /\ UNCHANGED <<row, timer>>

\* The one attempt to register again fails: every later heartbeat is skipped, because
\* is_registered is false, and none of them tries to register.
ReregisterFails(s) ==
    /\ pc[s] = "reregistering"
    /\ pc' = [pc EXCEPT ![s] = "silent"]
    /\ timer' = [timer EXCEPT ![s] = 0]
    /\ GiveUp(s, "register")
    /\ UNCHANGED <<row, missed>>

\* The GC handles a call that was given up.
HandleLate(s, kind) ==
    /\ <<s, kind>> \in late
    /\ late' = late \ {<<s, kind>>}
    /\ row' = [row EXCEPT ![s] = IF kind = "register" THEN Registered ELSE Beaten(@)]
    /\ UNCHANGED <<pc, timer, missed>>

LoseLate(s, kind) ==
    /\ <<s, kind>> \in late
    /\ late' = late \ {<<s, kind>>}
    /\ UNCHANGED <<row, pc, timer, missed>>

\* A timer that is due: the ticker of the heartbeats, the timeout of a call.
Due(s) ==
    \/ pc[s] = "idle" /\ timer[s] >= Interval
    \/ pc[s] \in {"registering", "beating", "reregistering"} /\ timer[s] >= RpcTimeout

Tick ==
    /\ \A s \in Server : ~Due(s)
    /\ row' = [s \in Server |-> IF row[s] = None \/ row[s].age > Staleness THEN row[s]
                                ELSE [row[s] EXCEPT !.age = @ + 1]]
    /\ timer' = [s \in Server |->
                    IF pc[s] \in {"down", "starting", "silent"} THEN timer[s] ELSE timer[s] + 1]
    /\ UNCHANGED <<pc, late, missed>>

-----------------------------------------------------------------------------
Next ==
    \/ \E s \in Server :
        \/ Start(s) \/ Stop(s) \/ LoseRow(s)
        \/ SendRegister(s) \/ HandleRegister(s) \/ RegisterFails(s)
        \/ SendHeartbeat(s) \/ HandleHeartbeat(s) \/ HeartbeatNotFound(s) \/ HeartbeatFails(s)
        \/ ReregisterFails(s)
        \/ \E kind \in Kind : HandleLate(s, kind) \/ LoseLate(s, kind)
    \/ HealthCheck
    \/ Tick

Spec == Init /\ [][Next]_vars

\* The tasks run, and a call that is made again and again is answered some time.
\* Nothing is assumed of starts, stops, lost rows and late calls.
Fairness ==
    \A s \in Server :
        /\ WF_vars(SendRegister(s)) /\ WF_vars(SendHeartbeat(s))
        /\ WF_vars(RegisterFails(s)) /\ WF_vars(HeartbeatFails(s)) /\ WF_vars(ReregisterFails(s))
        /\ SF_vars(HandleRegister(s)) /\ SF_vars(HandleHeartbeat(s)) /\ SF_vars(HeartbeatNotFound(s))
FairSpec == Spec /\ Fairness

-----------------------------------------------------------------------------
(* Properties. *)

\* A server that is up and has lost no more heartbeats in a row than are tolerated is
\* not taken for dead, whatever its calls take and however late ones are handled: the
\* interval, the timeout of calls and the staleness threshold fit together.
KeptAlive ==
    \A s \in Server :
        (pc[s] \in {"idle", "beating"} /\ missed[s] <= Tolerated /\ row[s] # None)
            => ~Stale(row[s]) /\ row[s].health # "unhealthy"

\* A server that starts is registered some time, whatever the GC is doing meanwhile.
StartRegisters ==
    \A s \in Server : pc[s] = "starting" ~> pc[s] \in {"idle", "down"}

\* A row that is lost under a running server is noticed by its heartbeats: the server
\* has a row again or knows that it has none.
LossIsNoticed ==
    \A s \in Server : (pc[s] = "idle" /\ row[s] = None)
                          ~> (row[s] # None \/ pc[s] \in {"reregistering", "down"})

\* A registered server is offered for meetings, also after it was taken for dead: only
\* the loss of its row or its own end stop that.
BackInService ==
    \A s \in Server : pc[s] = "idle"
                          ~> (Candidate(s) \/ row[s] = None \/ pc[s] \in {"silent", "down"})

\* Whatever happens to its calls, its row and its process, a server is registered, is
\* offered for meetings, and learns when its row is gone.
Recovers == StartRegisters /\ LossIsNoticed /\ BackInService
=============================================================================
