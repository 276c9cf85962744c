----------------------------- MODULE Controller -----------------------------
(***************************************************************************)
(* One meeting controller process (mc-service) from start to exit: main's  *)
(* start-up and shutdown, the assignment RPC that the global controller    *)
(* calls, the MeetingControllerActor, the WebTransport accept loop, and    *)
(* the task of each client connection with the RegisterMeeting task that   *)
(* the first participant of a meeting sets off.                            *)
(*                                                                         *)
(* The controller actor handles one message at a time, so each handler is  *)
(* one step.  An RPC or connection task is cut at its awaits: what it read *)
(* before one may be out of date after it.                                 *)
(*                                                                         *)
(* Abstractions:                                                           *)
(*  - an MH assignment in Redis is named by the RPC that stored it (its    *)
(*    contents are Handlers in every case); FencedRedis has the client;    *)
(*  - a meeting actor is running or finished (Meeting has its inside); a   *)
(*    participant is named by its connection;                              *)
(*  - everything that can end a connection before it asks to join (the     *)
(*    session, the stream, the first message, its name, its token) is one  *)
(*    failure;                                                             *)
(*  - a join that reaches a meeting actor already cancelled is refused.    *)
(***************************************************************************)
EXTENDS Naturals, Sequences, FiniteSets

CONSTANTS
    MeetingId,         \* meeting ids
    Rpc,               \* bound: the AssignMeetingWithMh calls of the run
    Client,            \* bound: the client connections of the run
    Handlers,          \* the media handlers of an assignment, in order
    MaxMeetings,       \* max_meetings
    MaxParticipants,   \* max_participants, also max_connections
    Estimated,         \* ESTIMATED_PARTICIPANTS_PER_MEETING
    Attempts,          \* MAX_REGISTER_ATTEMPTS
    Nil

RpcState  == {"idle", "checked", "stored", "created", "failed",
              "accepted", "refused", "undone", "dropped"}
ConnState == {"none", "open", "asked", "joined", "answering", "bridged",
              "closed", "unanswered", "leaked"}
ActorState == {"none", "running", "cancelled", "ended", "gone"}

ASSUME ControllerAssumption ==
    /\ IsFiniteSet(Rpc) /\ IsFiniteSet(Client) /\ IsFiniteSet(MeetingId)
    /\ MaxMeetings \in Nat \ {0} /\ MaxParticipants \in Nat /\ Estimated \in Nat
    /\ Attempts \in Nat \ {0}
    /\ Handlers \in Seq(STRING) /\ Handlers # <<>>
    /\ Nil \notin Rpc /\ Nil \notin MeetingId

VARIABLES
    life,         \* how far main() is: see Life
    grpc,         \* the spawned gRPC server: "off", "binding", "up" or "failed"
    acceptingNew, \* MeetingControllerActor.accepting_new
    ctl,          \* the controller actor: "running", "halted" (token cancelled), "stopped"
    meetings,     \* [MeetingId -> "none", "running", "finished"]: the managed meetings
    gauge,        \* ActorMetrics.active_meetings
    rpc,          \* [Rpc -> [st, meeting]]
    currentMeetings, \* McAssignmentService.current_meetings
    redis,        \* [MeetingId -> Rpc or Nil]: the MH assignment stored
    conn,         \* [Client -> [st, meeting, first, actor]]
    activeConnections, \* WebTransportServer.active_connections
    todo,         \* [Client -> Seq]: handlers the RegisterMeeting task has left
    tries         \* [Client -> attempts made for Head(todo)]

procVars == <<life, grpc>>
ctlVars  == <<acceptingNew, ctl, meetings, gauge>>
rpcVars  == <<rpc, currentMeetings, redis>>
connVars == <<conn, activeConnections>>
regVars  == <<todo, tries>>
mcVars == <<procVars, ctlVars, rpcVars, connVars, regVars>>

Life == {"booting", "grpc", "gc", "serving", "signalled", "stopping", "exited"}

Running  == life # "exited"
\* The shutdown token, a child of the controller's: its tasks stop.
Shutdown == life \in {"signalled", "stopping"}
Managed  == {m \in MeetingId : meetings[m] # "none"}
Present(m) == {c \in Client : conn[c].meeting = m /\ conn[c].actor \in {"running", "cancelled", "ended"}}
InHandler(c) == conn[c].st \notin {"none", "closed", "unanswered", "leaked"}
NoConn == [st |-> "none", meeting |-> Nil, first |-> FALSE, actor |-> "none"]

CtlTypeOK ==
    /\ life \in Life
    /\ grpc \in {"off", "binding", "up", "failed"}
    /\ acceptingNew \in BOOLEAN
    /\ ctl \in {"running", "halted", "stopped"}
    /\ meetings \in [MeetingId -> {"none", "running", "finished"}]
    /\ gauge \in Nat
    /\ rpc \in [Rpc -> [st: RpcState, meeting: MeetingId \cup {Nil}]]
    /\ currentMeetings \in Nat
    /\ redis \in [MeetingId -> Rpc \cup {Nil}]
    /\ conn \in [Client -> [st: ConnState, meeting: MeetingId \cup {Nil},
                            first: BOOLEAN, actor: ActorState]]
    /\ activeConnections \in Nat
    /\ todo \in [Client -> Seq(STRING)]
    /\ tries \in [Client -> 0..Attempts]

CtlInit ==
    /\ life = "booting" /\ grpc = "off"
    /\ acceptingNew = TRUE /\ ctl = "running"
    /\ meetings = [m \in MeetingId |-> "none"] /\ gauge = 0
    /\ rpc = [r \in Rpc |-> [st |-> "idle", meeting |-> Nil]]
    /\ currentMeetings = 0
    /\ redis = [m \in MeetingId |-> Nil]
    /\ conn = [c \in Client |-> NoConn] /\ activeConnections = 0
    /\ todo = [c \in Client |-> <<>>] /\ tries = [c \in Client |-> 0]

-----------------------------------------------------------------------------
(* main(): start-up, signal, shutdown. *)

\* Configuration, Redis, the first token, the secret and the health listener
\* are there; the gRPC server is spawned and binds in its own task.
SpawnGrpc ==
    /\ life = "booting"
    /\ life' = "grpc" /\ grpc' = "binding"
    /\ UNCHANGED <<ctlVars, rpcVars, connVars, regVars>>

\* The server task binds, or logs that it could not and ends.
GrpcBinds(ok) ==
    /\ Running /\ grpc = "binding"
    /\ grpc' = IF ok THEN "up" ELSE "failed"
    /\ UNCHANGED <<life, ctlVars, rpcVars, connVars, regVars>>

\* The GC client is connected and its task spawned; Registration has it.
SpawnGcTask ==
    /\ life = "grpc"
    /\ life' = "gc"
    /\ UNCHANGED <<grpc, ctlVars, rpcVars, connVars, regVars>>

\* The WebTransport endpoint is bound and the accept loop spawned.
SpawnAcceptLoop ==
    /\ life = "gc"
    /\ life' = "serving"
    /\ UNCHANGED <<grpc, ctlVars, rpcVars, connVars, regVars>>

\* Any step of the start-up fails: main returns its error.
StartFails ==
    /\ life \in {"booting", "grpc", "gc"}
    /\ life' = "exited"
    /\ UNCHANGED <<grpc, ctlVars, rpcVars, connVars, regVars>>

\* SIGTERM: the shutdown token is cancelled.
Signal ==
    /\ life = "serving"
    /\ life' = "signalled"
    /\ UNCHANGED <<grpc, ctlVars, rpcVars, connVars, regVars>>

\* Two seconds later the controller handles Shutdown (initiate_shutdown): its
\* token, the parent of every meeting's and participant's, is cancelled.
InitiateShutdown ==
    /\ life = "signalled"
    /\ life' = "stopping" /\ acceptingNew' = FALSE /\ ctl' = "halted"
    /\ UNCHANGED <<grpc, meetings, gauge, rpcVars, connVars, regVars>>

\* main returns as soon as Shutdown is answered; graceful_shutdown may be cut.
Exit ==
    /\ life = "stopping"
    /\ life' = "exited"
    /\ UNCHANGED <<grpc, ctlVars, rpcVars, connVars, regVars>>

-----------------------------------------------------------------------------
(* AssignMeetingWithMh. *)

\* can_accept_meeting.  current_participants and is_draining keep the values
\* they are created with: nothing in the process sets them.
CanAccept == currentMeetings < MaxMeetings /\ Estimated <= MaxParticipants

\* A call for meeting m comes in and is checked.
AssignChecked(r, m) ==
    /\ Running /\ grpc = "up" /\ ~Shutdown
    /\ rpc[r].st = "idle"
    /\ rpc' = [rpc EXCEPT ![r] = [st |-> IF CanAccept THEN "checked" ELSE "refused",
                                  meeting |-> m]]
    /\ UNCHANGED <<procVars, ctlVars, currentMeetings, redis, connVars, regVars>>

\* Mutant: the error of the store is logged and the call goes on.
AssignStoredRegardless(r, ok) ==
    /\ Running
    /\ rpc[r].st = "checked"
    /\ rpc' = [rpc EXCEPT ![r].st = "stored"]
    /\ redis' = IF ok THEN [redis EXCEPT ![rpc[r].meeting] = r] ELSE redis
    /\ UNCHANGED <<procVars, ctlVars, currentMeetings, connVars, regVars>>
\* What a command to Redis leaves if its answer is not waited for or is lost: it was
\* carried out or it was not.
MayWrite(r, value) == redis' \in {redis, [redis EXCEPT ![rpc[r].meeting] = value]}

\* store_mh_assignments: fails on an empty list, an empty endpoint, a Redis
\* error or a fence; the call is then refused as unhealthy.
AssignStored(r, ok) ==
    /\ Running
    /\ rpc[r].st = "checked"
    /\ rpc' = [rpc EXCEPT ![r].st = IF ok THEN "stored" ELSE "refused"]
    /\ IF ok THEN redis' = [redis EXCEPT ![rpc[r].meeting] = r] ELSE MayWrite(r, r)
    /\ UNCHANGED <<procVars, ctlVars, currentMeetings, connVars, regVars>>

\* create_meeting's two refusals: draining, and a meeting that exists.
Creatable(m) == acceptingNew /\ meetings[m] = "none"

\* The controller handles CreateMeeting for the call.
CreateMeeting(r) ==
    /\ Running
    /\ rpc[r].st = "stored"
    /\ LET m == rpc[r].meeting IN
        /\ rpc' = [rpc EXCEPT ![r].st = IF Creatable(m) THEN "created" ELSE "failed"]
        /\ meetings' = IF Creatable(m) THEN [meetings EXCEPT ![m] = "running"] ELSE meetings
        /\ gauge' = IF Creatable(m) THEN gauge + 1 ELSE gauge
    /\ UNCHANGED <<procVars, acceptingNew, ctl, currentMeetings, redis, connVars, regVars>>

\* Mutant: the accepted meeting is not counted.
AssignAcceptedUncounted(r) ==
    /\ Running
    /\ rpc[r].st = "created"
    /\ rpc' = [rpc EXCEPT ![r].st = "accepted"]
    /\ UNCHANGED <<procVars, ctlVars, redis, connVars, regVars, currentMeetings>>
\* The call resumes: the meeting is counted and the answer is "accepted".
AssignAccepted(r) ==
    /\ Running
    /\ rpc[r].st = "created"
    /\ rpc' = [rpc EXCEPT ![r].st = "accepted"]
    /\ currentMeetings' = currentMeetings + 1
    /\ UNCHANGED <<procVars, ctlVars, redis, connVars, regVars>>

\* The call resumes after a refusal: delete_mh_assignment for the meeting, whatever
\* becomes of it, and the answer "unhealthy".
AssignCleanedUp(r) ==
    /\ Running
    /\ rpc[r].st = "failed"
    /\ rpc' = [rpc EXCEPT ![r].st = "undone"]
    /\ MayWrite(r, Nil)
    /\ UNCHANGED <<procVars, ctlVars, currentMeetings, connVars, regVars>>

\* The caller gives up (its own timeout): the handler is dropped at an await.  A store
\* or a deletion that it awaited may have been carried out.
AssignDropped(r) ==
    /\ Running
    /\ \/ rpc[r].st = "checked" /\ MayWrite(r, r)
       \/ rpc[r].st \in {"stored", "created"} /\ UNCHANGED redis
       \/ rpc[r].st = "failed" /\ MayWrite(r, Nil)
    /\ rpc' = [rpc EXCEPT ![r].st = IF @ = "failed" THEN "undone" ELSE "dropped"]
    /\ UNCHANGED <<procVars, ctlVars, currentMeetings, connVars, regVars>>

-----------------------------------------------------------------------------
(* The meetings of the controller. *)

\* The participants of meeting m lose their actor's token; a join that has
\* not been answered will be refused.
Dismissed(m) ==
    [c \in Client |->
        IF conn[c].meeting # m THEN conn[c]
        ELSE IF conn[c].st = "asked" THEN [conn[c] EXCEPT !.meeting = Nil]
        ELSE IF conn[c].actor = "running" THEN [conn[c] EXCEPT !.actor = "cancelled"]
        ELSE conn[c]]

\* The meeting actor's task ends: by itself, by a panic or by its token.
MeetingFinishes(m) ==
    /\ Running
    /\ meetings[m] = "running"
    /\ meetings' = [meetings EXCEPT ![m] = "finished"]
    /\ conn' = Dismissed(m)
    /\ UNCHANGED <<procVars, acceptingNew, ctl, gauge, rpcVars, activeConnections, regVars>>

\* Mutant: the gauge is brought down for a removal on request only.
HealthGaugeForgotten == gauge
HealthGauge == gauge - 1

\* check_meeting_health, at the top of the loop, for a task that has finished.
CheckMeetingHealth(m) ==
    /\ Running
    /\ meetings[m] = "finished"
    /\ meetings' = [meetings EXCEPT ![m] = "none"]
    /\ gauge' = HealthGauge
    /\ UNCHANGED <<procVars, acceptingNew, ctl, rpcVars, connVars, regVars>>

\* remove_meeting.
RemoveMeeting(m) ==
    /\ Running
    /\ meetings[m] # "none"
    /\ meetings' = [meetings EXCEPT ![m] = "none"]
    /\ gauge' = gauge - 1
    /\ conn' = Dismissed(m)
    /\ UNCHANGED <<procVars, acceptingNew, ctl, rpcVars, activeConnections, regVars>>

\* graceful_shutdown: every meeting is cancelled and drained from the map, at
\* most 30 s each, and the actor is gone.  The gauge is not brought down.
GracefulShutdown ==
    /\ Running
    /\ ctl = "halted"
    /\ ctl' = "stopped"
    /\ meetings' = [m \in MeetingId |-> "none"]
    /\ UNCHANGED <<procVars, acceptingNew, gauge, rpcVars, connVars, regVars>>

-----------------------------------------------------------------------------
(* A client connection: accept_loop and handle_connection. *)

\* The accept loop: at capacity the session is dropped unseen.
Accept(c) ==
    /\ life = "serving" /\ ~Shutdown
    /\ conn[c].st = "none"
    /\ activeConnections < MaxParticipants
    /\ conn' = [conn EXCEPT ![c].st = "open"]
    /\ activeConnections' = activeConnections + 1
    /\ UNCHANGED <<procVars, ctlVars, rpcVars, regVars>>

\* handle_connection returns and the task gives its slot back.
Closing(c, st, actor) ==
    /\ conn' = [conn EXCEPT ![c].st = st, ![c].actor = actor]
    /\ activeConnections' = activeConnections - 1

\* The handshake fails, or the meeting is not managed here.
JoinImpossible(c) ==
    /\ Running
    /\ conn[c].st = "open"
    /\ Closing(c, "closed", "none")
    /\ UNCHANGED <<procVars, ctlVars, rpcVars, regVars>>

\* The controller handles JoinConnection: it hands the request to the meeting
\* in a task of its own.
AskToJoin(c, m) ==
    /\ Running
    /\ conn[c].st = "open"
    /\ meetings[m] # "none"
    /\ conn' = [conn EXCEPT ![c].st = "asked",
                            ![c].meeting = IF meetings[m] = "running" THEN m ELSE Nil]
    /\ UNCHANGED <<procVars, ctlVars, rpcVars, activeConnections, regVars>>

\* The meeting actor is gone, or refuses because it is ending.
JoinRefused(c) ==
    /\ Running
    /\ conn[c].st = "asked"
    /\ conn[c].meeting = Nil \/ ctl # "running"
    /\ Closing(c, "closed", "none")
    /\ UNCHANGED <<procVars, ctlVars, rpcVars, regVars>>

\* The meeting actor takes the participant in; the result says who was there.
JoinGranted(c) ==
    /\ Running /\ ctl = "running"
    /\ conn[c].st = "asked"
    /\ conn[c].meeting # Nil
    /\ conn' = [conn EXCEPT ![c].st = "joined", ![c].actor = "running",
                            ![c].first = (Present(conn[c].meeting) = {})]
    /\ UNCHANGED <<procVars, ctlVars, rpcVars, activeConnections, regVars>>

\* The participant's handle is cancelled, unless its actor has ended already.
CancelHandle(c) == IF conn[c].actor = "running" THEN "cancelled" ELSE conn[c].actor

\* build_join_response reads the MH assignment; without one (or without Redis)
\* the participant is cancelled and the client told.
BuildJoinResponse(c, ok) ==
    /\ Running
    /\ conn[c].st = "joined"
    /\ IF ok /\ redis[conn[c].meeting] # Nil
       THEN /\ conn' = [conn EXCEPT ![c].st = "answering"]
            /\ UNCHANGED activeConnections
       ELSE Closing(c, "closed", CancelHandle(c))
    /\ UNCHANGED <<procVars, ctlVars, rpcVars, regVars>>

\* The JoinResponse is written; the first participant of the meeting sets off
\* the RegisterMeeting task, and the bridge loop starts.
JoinAnswered(c) ==
    /\ Running
    /\ conn[c].st = "answering"
    /\ conn' = [conn EXCEPT ![c].st = "bridged"]
    /\ todo' = IF conn[c].first THEN [todo EXCEPT ![c] = Handlers] ELSE todo
    /\ UNCHANGED <<procVars, ctlVars, rpcVars, activeConnections, tries>>

\* The JoinResponse cannot be written: the handler returns, and leaves the
\* participant actor running without a stream.
AnswerFails(c) ==
    /\ Running
    /\ conn[c].st = "answering"
    /\ Closing(c, "unanswered", conn[c].actor)
    /\ UNCHANGED <<procVars, ctlVars, rpcVars, regVars>>

\* Mutant: the slot is kept by a connection that ends normally.
BridgeEndsKeepSlot(c) ==
    /\ Running
    /\ conn[c].st = "bridged"
    /\ conn' = [conn EXCEPT ![c].st = "closed", ![c].actor = CancelHandle(c)]
    /\ UNCHANGED <<procVars, ctlVars, rpcVars, regVars, activeConnections>>
\* Mutant: the participant's handle is not cancelled.
BridgeEndsNoCancel(c) ==
    /\ Running
    /\ conn[c].st = "bridged"
    /\ Closing(c, "closed", conn[c].actor)
    /\ UNCHANGED <<procVars, ctlVars, rpcVars, regVars>>
\* run_bridge_loop ends: the client went away, a write failed, the shutdown
\* token was cancelled or the participant actor dropped its stream.
BridgeEnds(c) ==
    /\ Running
    /\ conn[c].st = "bridged"
    /\ Closing(c, "closed", CancelHandle(c))
    /\ UNCHANGED <<procVars, ctlVars, rpcVars, regVars>>

\* The connection's task panics: the counter is not decremented.
ConnectionPanics(c) ==
    /\ Running
    /\ InHandler(c)
    /\ conn' = [conn EXCEPT ![c].st = "leaked"]
    /\ UNCHANGED <<procVars, ctlVars, rpcVars, activeConnections, regVars>>

\* The participant actor ends once its token or the controller's is cancelled.
ActorEnds(c) ==
    /\ Running
    /\ conn[c].actor = "cancelled" \/ (conn[c].actor = "running" /\ ctl # "running")
    /\ conn' = [conn EXCEPT ![c].actor = "ended"]
    /\ UNCHANGED <<procVars, ctlVars, rpcVars, activeConnections, regVars>>

\* The grace period of the participant is over.
ParticipantRemoved(c) ==
    /\ Running
    /\ conn[c].actor = "ended"
    /\ conn' = [conn EXCEPT ![c].actor = "gone"]
    /\ UNCHANGED <<procVars, ctlVars, rpcVars, activeConnections, regVars>>

-----------------------------------------------------------------------------
(* register_meeting_with_handlers, spawned by the connection task of c. *)

\* The handlers after the one just dealt with.
NextHandler(c) ==
    /\ todo' = [todo EXCEPT ![c] = Tail(@)]
    /\ tries' = [tries EXCEPT ![c] = 0]

\* A media handler accepts the meeting.
RegisterSucceeds(c) ==
    /\ Running /\ ~Shutdown
    /\ todo[c] # <<>>
    /\ NextHandler(c)
    /\ UNCHANGED <<procVars, ctlVars, rpcVars, connVars>>

\* Mutant: the attempts are counted but never compared with their limit.
RegisterFailsNoLimit(c) ==
    /\ Running /\ ~Shutdown
    /\ todo[c] # <<>>
    /\ tries' = [tries EXCEPT ![c] = @ + 1]
    /\ UNCHANGED <<procVars, ctlVars, rpcVars, connVars, todo>>
\* The call fails: it is tried again after a delay, and after the last attempt
\* the next handler has its turn.
RegisterFails(c) ==
    /\ Running /\ ~Shutdown
    /\ todo[c] # <<>>
    /\ IF tries[c] + 1 < Attempts
       THEN tries' = [tries EXCEPT ![c] = @ + 1] /\ UNCHANGED todo
       ELSE NextHandler(c)
    /\ UNCHANGED <<procVars, ctlVars, rpcVars, connVars>>

\* The shutdown token is seen between two attempts.
RegisterCancelled(c) ==
    /\ Running /\ Shutdown
    /\ todo[c] # <<>>
    /\ todo' = [todo EXCEPT ![c] = <<>>]
    /\ UNCHANGED <<procVars, ctlVars, rpcVars, connVars, tries>>

-----------------------------------------------------------------------------
CtlNext ==
    \/ SpawnGrpc \/ SpawnGcTask \/ SpawnAcceptLoop \/ StartFails
    \/ Signal \/ InitiateShutdown \/ Exit
    \/ \E ok \in BOOLEAN : GrpcBinds(ok)
    \/ \E r \in Rpc, m \in MeetingId : AssignChecked(r, m)
    \/ \E r \in Rpc : \/ \E ok \in BOOLEAN : AssignStored(r, ok)
                      \/ CreateMeeting(r) \/ AssignAccepted(r) \/ AssignCleanedUp(r)
                      \/ AssignDropped(r)
    \/ \E m \in MeetingId : MeetingFinishes(m) \/ CheckMeetingHealth(m) \/ RemoveMeeting(m)
    \/ GracefulShutdown
    \/ \E c \in Client, m \in MeetingId : AskToJoin(c, m)
    \/ \E c \in Client, ok \in BOOLEAN : BuildJoinResponse(c, ok)
    \/ \E c \in Client :
        \/ Accept(c) \/ JoinImpossible(c) \/ JoinRefused(c) \/ JoinGranted(c)
        \/ JoinAnswered(c) \/ AnswerFails(c) \/ BridgeEnds(c) \/ ConnectionPanics(c)
        \/ ActorEnds(c) \/ ParticipantRemoved(c)
        \/ RegisterSucceeds(c) \/ RegisterFails(c) \/ RegisterCancelled(c)

CtlSpec == CtlInit /\ [][CtlNext]_mcVars

-----------------------------------------------------------------------------
(* Properties. *)

\* The count that the capacity check reads errs on the safe side: a meeting it
\* does not include is one whose call has not resumed yet or was dropped by its
\* caller before it could count.
CountCoversManaged ==
    ctl # "stopped" =>
        Cardinality(Managed) <= currentMeetings
            + Cardinality({r \in Rpc : rpc[r].st \in {"created", "dropped"}})

\* The gauge of meetings follows the map, whichever way a meeting leaves it.
GaugeExact == ctl # "stopped" => gauge = Cardinality(Managed)

\* Both counters of meetings are right at once, and the states are as declared.
MeetingsCounted == CtlTypeOK /\ CountCoversManaged /\ GaugeExact

\* A running meeting has a media handler assignment in Redis, unless the controller
\* refused another call for the same meeting: the clean-up of that call, answered or
\* dropped, deletes what the accepted one stored.  No other end of a call does: not a
\* refusal before the store, not a lost answer of Redis, not a caller that gives up.
AssignmentKept ==
    \A m \in MeetingId :
        (meetings[m] = "running" /\ redis[m] = Nil)
            => \E r \in Rpc : rpc[r].meeting = m /\ rpc[r].st = "undone"

\* Every connection slot is held by a connection task or was lost to a panic of
\* one; no way out of handle_connection loses or returns a slot twice.
SlotsExact ==
    activeConnections = Cardinality({c \in Client : InHandler(c) \/ conn[c].st = "leaked"})

\* A connection that has ended has told its participant actor to stop.  The
\* exceptions are a JoinResponse that could not be written and a panic.
ClosedIsCancelled ==
    \A c \in Client : conn[c].st = "closed" => conn[c].actor # "running"

\* No way out of a connection leaks its slot or leaves its participant running.
ConnectionsEnd == SlotsExact /\ ClosedIsCancelled
=============================================================================
