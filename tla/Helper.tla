------------------------------- MODULE Helper -------------------------------
(***************************************************************************)
(* The devloop helper: a thread per connection, one write at a time, and a *)
(* cancel that stops the write in flight.  A write runs its commands in a  *)
(* process group of their own; the writer streams their output, polls the  *)
(* cancel token and the shutdown flag until both readers have ended, and   *)
(* then waits for the leader.  A reader ends with its pipe, which processes *)
(* that write elsewhere do not hold, or at a line that it cannot read.     *)
(*                                                                         *)
(* Abstractions: time is left out, so the grace period of a SIGTERM may    *)
(* end at any moment; a group is its leader, one descendant that shares    *)
(* its pipes and one port-forward that does not (setup.sh starts these in  *)
(* the background, with their output discarded); a status                  *)
(* request changes nothing.  The port registry is module Ports.            *)
(***************************************************************************)
EXTENDS Naturals, FiniteSets

CONSTANTS
    Conn,         \* bound: connections, each with one request
    MaxConns,     \* MAX_CONCURRENT_CONNECTIONS
    MaxCommands,  \* bound: commands of a setup or a rebuild
    Nobody

ASSUME HelperAssumption ==
    IsFiniteSet(Conn) /\ Nobody \notin Conn /\ MaxConns \in Nat \ {0} /\ MaxCommands \in Nat \ {0}

VARIABLES
    helper,   \* "up", "stopping" (the shutdown flag is set) or "down"
    conns,    \* [Conn -> thread of the connection]
    count,    \* conn_count
    slot,     \* write_state.in_flight: the write, or Nobody
    token,    \* writes whose cancel token is set
    group,    \* [Conn -> live processes of its current command]
    strays,   \* processes that outlived their command
    unread,   \* a reader has ended before its pipe
    left,     \* clients that are gone
    named     \* writes that a cancel found in flight

procVars == <<group, strays, unread>>
helperVars == <<helper, conns, count, slot, token, procVars, left, named>>

\* "apply" is a setup, a rebuild, a rebuild of all or a deploy.
WriteOp == {"apply", "teardown"}
Process == {"leader", "descendant", "forward"}
\* The processes that a command may consist of.
GroupOf(op) ==
    {{"leader"}, {"leader", "descendant"}} \cup (IF op = "teardown" THEN {} ELSE {Process})
CommandsOf(op) == IF op = "teardown" THEN {1} ELSE 1..MaxCommands

Blank == [at |-> "new", op |-> "none", todo |-> 0, target |-> Nobody, good |-> TRUE,
          termed |-> FALSE, killed |-> FALSE, deaf |-> FALSE, cut |-> FALSE, freed |-> FALSE, res |-> "none"]
Thread == [at: {"new", "open", "asked", "store", "ready", "run", "ending", "done", "closed", "dead"},
           op: WriteOp \cup {"cancel", "none"}, todo: 0..MaxCommands, target: Conn \cup {Nobody},
           good: BOOLEAN, termed: BOOLEAN, killed: BOOLEAN, deaf: BOOLEAN, cut: BOOLEAN,
           freed: BOOLEAN,
           res: {"none", "ok", "failed", "cancelled", "busy"}]

HelperTypeOK ==
    /\ helper \in {"up", "stopping", "down"}
    /\ conns \in [Conn -> Thread]
    /\ count \in 0..MaxConns
    /\ slot \in Conn \cup {Nobody}
    /\ group \in [Conn -> SUBSET Process] /\ strays \subseteq Process /\ unread \in BOOLEAN
    /\ token \subseteq Conn /\ left \subseteq Conn /\ named \subseteq Conn

HelperInit ==
    /\ helper = "up" /\ conns = [c \in Conn |-> Blank] /\ count = 0 /\ slot = Nobody
    /\ group = [c \in Conn |-> {}] /\ strays = {} /\ unread = FALSE
    /\ token = {} /\ left = {} /\ named = {}

Live   == helper # "down"
Is(c, at) == Live /\ conns[c].at = at
Has(c, at) == conns' = [conns EXCEPT ![c].at = at]
EndsWith(c, at, r) == conns' = [conns EXCEPT ![c].at = at, ![c].res = r]

-----------------------------------------------------------------------------
(* The accept loop and handle_connection *)

\* Mutant: a rejected connection stays counted.
AcceptKept(c) ==
    /\ helper = "up" /\ conns[c].at = "new"
    /\ count' = count + 1
    /\ Has(c, IF count >= MaxConns THEN "closed" ELSE "open")
    /\ UNCHANGED <<helper, slot, token, procVars, left, named>>
\* The slot is claimed by fetch_add and rolled back past the cap.
Accept(c) ==
    /\ helper = "up" /\ conns[c].at = "new"
    /\ count' = IF count >= MaxConns THEN count ELSE count + 1
    /\ Has(c, IF count >= MaxConns THEN "closed" ELSE "open")
    /\ UNCHANGED <<helper, slot, token, procVars, left, named>>

\* A request that cannot be parsed or has no valid token is answered with an error.
Ask(c, op) ==
    /\ Is(c, "open")
    /\ conns' = [conns EXCEPT ![c].at = IF op = "none" THEN "done" ELSE "asked", ![c].op = op]
    /\ UNCHANGED <<helper, count, slot, token, procVars, left, named>>

\* The answer and the audit entry are written and the thread ends: ConnGuard.
Close(c) ==
    /\ Is(c, "done") /\ count' = count - 1
    /\ conns' = [conns EXCEPT ![c] = [Blank EXCEPT !.at = "closed"]]
    /\ left' = left \ {c}
    /\ UNCHANGED <<helper, slot, token, procVars, named>>

\* The client of a write goes away.
Leave(c) ==
    /\ Live /\ c \notin left /\ conns[c].at \in {"ready", "run"}
    /\ left' = left \cup {c}
    /\ UNCHANGED <<helper, conns, count, slot, token, procVars, named>>

-----------------------------------------------------------------------------
(* cmd_cancel *)

\* The token of the write in flight is taken under the lock ...
CancelFind(c) ==
    /\ Is(c, "asked") /\ conns[c].op = "cancel"
    /\ named' = named \cup ({slot} \ {Nobody})
    /\ conns' = [conns EXCEPT ![c].at = IF slot = Nobody THEN "done" ELSE "store", ![c].target = slot]
    /\ UNCHANGED <<helper, count, slot, token, procVars, left>>

\* Mutant: the token is that of whatever write is in flight by now.
CancelStoreNow(c) ==
    /\ Is(c, "store") /\ Has(c, "done")
    /\ token' = token \cup ({slot} \ {Nobody})
    /\ UNCHANGED <<helper, count, slot, procVars, left, named>>
\* ... and set after it, when that write may have ended and another begun.
CancelStore(c) ==
    /\ Is(c, "store") /\ Has(c, "done")
    /\ token' = token \cup {conns[c].target}
    /\ UNCHANGED <<helper, count, slot, procVars, left, named>>

-----------------------------------------------------------------------------
(* run_with_write_slot *)

Claim(c) ==
    /\ Is(c, "asked") /\ conns[c].op \in WriteOp
    /\ \/ slot # Nobody /\ EndsWith(c, "done", "busy") /\ UNCHANGED slot
       \/ slot = Nobody /\ slot' = c
          /\ \E n \in CommandsOf(conns[c].op) :
                conns' = [conns EXCEPT ![c].at = "ready", ![c].todo = n]
    /\ UNCHANGED <<helper, count, token, procVars, left, named>>

\* Mutant: an error leaves the function without the guard.
ReleaseOnOk(c) ==
    /\ Is(c, "ending") /\ Has(c, "done")
    /\ slot' = IF conns[c].res = "ok" THEN Nobody ELSE slot
    /\ UNCHANGED <<helper, count, token, procVars, left, named>>
\* WriteSlotGuard: the slot is freed on every way out.
Release(c) ==
    /\ Is(c, "ending") /\ Has(c, "done") /\ slot' = Nobody
    /\ UNCHANGED <<helper, count, token, procVars, left, named>>

\* The last map_err: an error of a cancelled write is "cancelled".
Mapped(c, r) == IF r # "ok" /\ c \in token THEN "cancelled" ELSE r

\* What a write does with the outcome of a command.  A teardown goes on to
\* release its ports unless it was cancelled; the others stop at an error.
Proceed(c, r) ==
    LET w == [conns[c] EXCEPT !.good = TRUE, !.killed = FALSE, !.deaf = FALSE] IN
    conns' = [conns EXCEPT ![c] =
        IF w.op = "teardown" /\ r # "cancelled"
        THEN [w EXCEPT !.at = "ending", !.res = "ok", !.freed = TRUE]
        ELSE IF r = "ok" /\ w.todo > 0
        THEN [w EXCEPT !.at = "ready"]
        ELSE [w EXCEPT !.at = "ending", !.res = Mapped(c, r)]]

\* A step of the write that is no command fails: ports, files, kubeconfig.
StepFails(c) ==
    /\ Is(c, "ready") /\ conns[c].op # "teardown"
    /\ EndsWith(c, "ending", Mapped(c, "failed"))
    /\ UNCHANGED <<helper, count, slot, token, procVars, left, named>>

-----------------------------------------------------------------------------
(* run_command_streaming *)

\* The command becomes the leader of a new group; it may fail to start.
Spawn(c, ps) ==
    /\ Is(c, "ready")
    /\ IF ps = {}
       THEN Proceed(c, "failed") /\ UNCHANGED group
       ELSE /\ group' = [group EXCEPT ![c] = ps]
            /\ conns' = [conns EXCEPT ![c].at = "run", ![c].todo = @ - 1]
    /\ UNCHANGED <<helper, count, slot, token, strays, unread, left, named>>

\* A process ends by itself or by the SIGTERM, well or badly; it need not.
ProcessEnds(c, p, good) ==
    /\ p \in group[c]
    /\ group' = [group EXCEPT ![c] = @ \ {p}]
    /\ conns' = IF p = "leader" THEN [conns EXCEPT ![c].good = good] ELSE conns
    /\ UNCHANGED <<helper, count, slot, token, strays, unread, left, named>>
StrayEnds(p) ==
    /\ p \in strays /\ strays' = strays \ {p}
    /\ UNCHANGED <<helper, conns, count, slot, token, group, unread, left, named>>

\* SIGKILL reaches the whole group.
KillGroup(c) == group' = [group EXCEPT ![c] = {}]
Polls(c) == Is(c, "run") /\ ~conns[c].deaf /\ ~conns[c].killed

\* The readers end at a line that is not text: the loop is over, and with it the
\* polling of the token and of the shutdown flag.
ReadFails(c) ==
    /\ Is(c, "run") /\ ~conns[c].deaf /\ group[c] # {}
    /\ conns' = [conns EXCEPT ![c].deaf = TRUE]
    /\ unread' = TRUE
    /\ UNCHANGED <<helper, count, slot, token, group, strays, left, named>>

\* A line cannot be sent: the client is gone.  The first time kills the group.
LineFails(c) ==
    /\ Is(c, "run") /\ ~conns[c].deaf /\ c \in left /\ ~conns[c].cut
    /\ IF conns[c].killed
       THEN conns' = [conns EXCEPT ![c].cut = TRUE] /\ UNCHANGED group
       ELSE /\ KillGroup(c)
            /\ conns' = [conns EXCEPT ![c].cut = TRUE, ![c].killed = TRUE,
                                      ![c].good = @ /\ "leader" \notin group[c]]
    /\ UNCHANGED <<helper, count, slot, token, strays, unread, left, named>>

SendTerm(c) ==
    /\ Polls(c) /\ c \in token /\ ~conns[c].termed
    /\ conns' = [conns EXCEPT ![c].termed = TRUE]
    /\ UNCHANGED <<helper, count, slot, token, procVars, left, named>>

\* try_wait: a leader that ended stops the polling, descendants or not; one
\* that outlived the grace period takes the group with it.
Escalate(c) ==
    /\ Polls(c) /\ conns[c].termed
    /\ conns' = [conns EXCEPT ![c].killed = TRUE, ![c].good = @ /\ "leader" \notin group[c]]
    /\ IF "leader" \in group[c] THEN KillGroup(c) ELSE UNCHANGED group
    /\ UNCHANGED <<helper, count, slot, token, strays, unread, left, named>>

ShutdownKill(c) ==
    /\ Polls(c) /\ helper = "stopping" /\ c \notin token /\ ~conns[c].termed
    /\ conns' = [conns EXCEPT ![c].killed = TRUE, ![c].good = @ /\ "leader" \notin group[c]]
    /\ KillGroup(c)
    /\ UNCHANGED <<helper, count, slot, token, strays, unread, left, named>>

\* Mutant: the token is not looked at after the command ended.
OutcomeUncancelled(c) == IF conns[c].cut \/ ~conns[c].good THEN "failed" ELSE "ok"
Outcome(c) ==
    IF conns[c].cut THEN "failed"
    ELSE IF c \in token THEN "cancelled"
    ELSE IF conns[c].good THEN "ok" ELSE "failed"

\* Mutant: the end of the leader ends the command.
PipesClosedEarly(c) == "leader" \notin group[c]
\* No process holds the pipes.
PipesClosed(c) == group[c] \cap {"leader", "descendant"} = {}

\* Mutant: the leader is not waited for.
CommandEndsUnwaited(c) ==
    /\ Is(c, "run") /\ (conns[c].deaf \/ PipesClosed(c))
    /\ Proceed(c, Outcome(c))
    /\ group' = [group EXCEPT ![c] = {}] /\ strays' = strays \cup group[c]
    /\ UNCHANGED <<helper, count, slot, token, unread, left, named>>
\* Both readers have ended and child.wait returns; the rest of the group lives on.
CommandEnds(c) ==
    /\ Is(c, "run") /\ "leader" \notin group[c] /\ (conns[c].deaf \/ PipesClosed(c))
    /\ Proceed(c, Outcome(c))
    /\ group' = [group EXCEPT ![c] = {}] /\ strays' = strays \cup group[c]
    /\ UNCHANGED <<helper, count, slot, token, unread, left, named>>

-----------------------------------------------------------------------------
(* The process *)

Sigterm ==
    /\ helper = "up" /\ helper' = "stopping"
    /\ UNCHANGED <<conns, count, slot, token, procVars, left, named>>

\* The accept loop sees the flag and run returns: the process ends with all
\* of its threads, wherever they are.  What they spawned lives on.
Exit ==
    /\ helper = "stopping" /\ helper' = "down"
    /\ conns' = [c \in Conn |-> IF conns[c].at \in {"new", "closed"} THEN conns[c]
                                ELSE [Blank EXCEPT !.at = "dead"]]
    /\ left' = {}
    /\ UNCHANGED <<count, slot, token, procVars, named>>

Restart ==
    /\ helper = "down" /\ helper' = "up" /\ count' = 0 /\ slot' = Nobody
    /\ UNCHANGED <<conns, token, procVars, left, named>>

HelperNext ==
    \/ \E c \in Conn :
        \/ \E op \in WriteOp \cup {"cancel", "none"} : Ask(c, op)
        \/ \E ps \in {{}} \cup GroupOf(conns[c].op) : Spawn(c, ps)
        \/ \E p \in Process, good \in BOOLEAN : ProcessEnds(c, p, good)
        \/ Accept(c) \/ Close(c) \/ Leave(c) \/ CancelFind(c) \/ CancelStore(c)
        \/ Claim(c) \/ Release(c) \/ StepFails(c)
        \/ LineFails(c) \/ ReadFails(c) \/ SendTerm(c) \/ Escalate(c) \/ ShutdownKill(c) \/ CommandEnds(c)
    \/ \E p \in Process : StrayEnds(p)
    \/ Sigterm \/ Exit \/ Restart

HelperSpec == HelperInit /\ [][HelperNext]_helperVars

-----------------------------------------------------------------------------
(* The commands of two writes never run at once, however a write ends: unless
   one was left behind by a helper that exited, which does not wait for its
   writer to kill it (run).  What outlives its command is never its leader, and
   only a port-forward unless output could not be read (run_command_streaming). *)
WritesApart ==
    /\ \A c, d \in Conn : c # d /\ group[c] # {} /\ group[d] # {} =>
          "dead" \in {conns[c].at, conns[d].at}
    /\ "leader" \notin strays
    /\ "descendant" \in strays => unread

(* A cancel stops the write that it found in flight and no later one, though
   it sets the token after the lock is released: cmd_cancel. *)
CancelNamed == token \subseteq named

(* The slot is held by a write that is still running, so a write is refused
   as busy only while there is one: WriteSlotGuard. *)
SlotHasWriter == Live /\ slot # Nobody => conns[slot].at \in {"ready", "run", "ending"}

(* A write whose command was told to stop is not reported as done, and a
   teardown does not go on to release its ports, unless its client has left
   too: the failed line hides the cancel (propagate_teardown_kind_result). *)
StoppedIsCancelled ==
    \A c \in Conn : conns[c].termed /\ (conns[c].res = "ok" \/ conns[c].freed) =>
        conns[c].op = "teardown" /\ conns[c].cut

(* One write at a time, stopped only by its own cancel, and reported as it ended. *)
HelperCorrect ==
    HelperTypeOK /\ WritesApart /\ CancelNamed /\ SlotHasWriter /\ StoppedIsCancelled
=============================================================================
