------------------------------- MODULE Meeting -------------------------------
(***************************************************************************)
(* One MeetingActor of the meeting controller (mc-service), the            *)
(* ParticipantActors it supervises, and the two shared gauges it updates.  *)
(*                                                                         *)
(* The meeting actor is a single task that owns its maps, so each handler  *)
(* is one step; the participant actors, the clients behind them and the    *)
(* clock interleave with it freely.  The actor's mailbox is FIFO.  Client  *)
(* requests can be enqueued at any time, so they are handled at any time;  *)
(* the mailbox variable keeps the notices of ended connections, whose      *)
(* order and delay relative to everything else is what matters.            *)
(*                                                                         *)
(* Abstractions:                                                           *)
(*  - a correlation id is named by the connection it was generated for     *)
(*    (each join and each reconnection makes exactly one of each);         *)
(*  - a binding token is valid iff the caller holds the token of the       *)
(*    binding stored under that correlation id (the HMAC is not modelled); *)
(*    a wrong token changes nothing and has no action;                     *)
(*  - Participant.status, .connection and .disconnected_at are always      *)
(*    written together: a participant is Disconnected iff conn = None;     *)
(*  - instants are ages that saturate just past the limit they are         *)
(*    compared with;                                                       *)
(*  - the audio and video flags of a mute are one flag;                    *)
(*  - of the broadcast updates only Joined and Left reach the client, and  *)
(*    roster[c] is the membership the actor of connection c has been told. *)
(***************************************************************************)
EXTENDS Naturals, Sequences, FiniteSets

CONSTANTS
    Pid,        \* participant ids (one is minted for every join)
    Conn,       \* connection ids (one per WebTransport session)
    Host,       \* the participants whose token carries the host role
    Muters,     \* bound: the participants whose mute flags are touched
    None,       \* Option::None
    Grace,      \* DISCONNECT_GRACE_PERIOD
    Ttl         \* BINDING_TOKEN_TTL

Participant == [conn: Conn \cup {None}, age: 0..Grace, corr: Conn,
                selfMuted: BOOLEAN, hostMuted: BOOLEAN]
Binding     == [pid: Pid, age: 0..(Ttl + 1)]
ActorState  == {"running", "cancelled", "notified", "finished"}
Actor       == [pid: Pid, st: ActorState]
Notice      == [conn: Conn, pid: Pid]

ASSUME MeetingAssumption ==
    /\ IsFiniteSet(Pid) /\ IsFiniteSet(Conn)
    /\ Host \subseteq Pid /\ Muters \subseteq Pid
    /\ Grace \in Nat \ {0} /\ Ttl \in Nat \ {0}
    /\ None \notin Pid /\ None \notin Conn
    /\ None \notin Participant /\ None \notin Binding /\ None \notin Actor

VARIABLES
    participants,      \* [Pid -> Participant or None]
    connections,       \* [Conn -> Pid or None]: the managed connections
    corrToPid,         \* correlation_to_participant
    bindings,          \* stored_bindings
    mailbox,           \* ConnectionDisconnected messages not yet received
    shuttingDown,      \* is_shutting_down
    cancelled,         \* the meeting's cancellation token
    stopped,           \* run() has returned and the actor is dropped
    participantCount,  \* ControllerMetrics.current_participants
    activeConnections, \* ActorMetrics.active_connections
    actors,            \* [Conn -> Actor or None]: the ParticipantActors
    roster             \* [Conn -> SUBSET Pid]: the members c was told of

meetingVars == <<participants, connections, corrToPid, bindings>>
lifeVars    == <<shuttingDown, cancelled, stopped>>
gaugeVars   == <<participantCount, activeConnections>>
vars == <<meetingVars, mailbox, lifeVars, gaugeVars, actors, roster>>

-----------------------------------------------------------------------------
Members        == {p \in Pid : participants[p] # None}
IsConnected(p)    == participants[p] # None /\ participants[p].conn # None
IsDisconnected(p) == participants[p] # None /\ participants[p].conn = None
Managed        == {c \in Conn : connections[c] # None}

\* Some actor of p has not ended.
HasActor(p) == \E c \in Conn : actors[c] # None /\ actors[c].pid = p /\ actors[c].st # "finished"

\* The ids that webtransport/connection.rs mints are never seen twice.
FreshConn(c) == actors[c] = None
FreshPid(p)  == \A c \in Conn : actors[c] # None => actors[c].pid # p

\* The connections a broadcast except p goes to.
Audience(p) == {c \in Conn : \E q \in Pid \ {p} : /\ participants[q] # None
                                                 /\ participants[q].conn = c}
Expired(b)  == b.age > Ttl

-----------------------------------------------------------------------------
TypeOK ==
    /\ participants \in [Pid -> Participant \cup {None}]
    /\ connections  \in [Conn -> Pid \cup {None}]
    /\ corrToPid    \in [Conn -> Pid \cup {None}]
    /\ bindings     \in [Conn -> Binding \cup {None}]
    /\ mailbox      \in Seq(Notice)
    /\ shuttingDown \in BOOLEAN
    /\ cancelled    \in BOOLEAN
    /\ stopped      \in BOOLEAN
    /\ participantCount  \in Nat
    /\ activeConnections \in Nat
    /\ actors       \in [Conn -> Actor \cup {None}]
    /\ roster       \in [Conn -> SUBSET Pid]

Init ==
    /\ participants = [p \in Pid |-> None]
    /\ connections  = [c \in Conn |-> None]
    /\ corrToPid    = [c \in Conn |-> None]
    /\ bindings     = [c \in Conn |-> None]
    /\ mailbox      = <<>>
    /\ shuttingDown = FALSE
    /\ cancelled    = FALSE
    /\ stopped      = FALSE
    /\ participantCount  = 0
    /\ activeConnections = 0
    /\ actors       = [c \in Conn |-> None]
    /\ roster       = [c \in Conn |-> {}]

-----------------------------------------------------------------------------
(* The messages of the meeting actor. *)

\* Mutant: the newcomer's snapshot is taken but the others are not told.
JoinedRosterSilent(c, p) == [roster EXCEPT ![c] = Members]
\* The newcomer gets the list of the others, the others are told Joined.
JoinedRoster(c, p) ==
    [d \in Conn |-> IF d = c THEN Members
                    ELSE IF d \in Audience(p) THEN roster[d] \cup {p}
                    ELSE roster[d]]

\* handle_join: a new participant p on the new connection c.
Join(c, p) ==
    /\ ~stopped
    /\ ~shuttingDown
    /\ FreshConn(c) /\ FreshPid(p)
    /\ participants[p] = None
    /\ participants' = [participants EXCEPT ![p] =
            [conn |-> c, age |-> 0, corr |-> c, selfMuted |-> FALSE, hostMuted |-> FALSE]]
    /\ connections' = [connections EXCEPT ![c] = p]
    /\ corrToPid' = [corrToPid EXCEPT ![c] = p]
    /\ bindings' = [bindings EXCEPT ![c] = [pid |-> p, age |-> 0]]
    /\ actors' = [actors EXCEPT ![c] = [pid |-> p, st |-> "running"]]
    /\ participantCount' = participantCount + 1
    /\ activeConnections' = activeConnections + 1
    /\ roster' = JoinedRoster(c, p)
    /\ UNCHANGED <<mailbox, lifeVars>>

\* Mutant: the participant keeps the handle of the connection that ended.
MarkDisconnectedKeepHandle(p) ==
    IF participants[p] = None THEN participants
    ELSE [participants EXCEPT ![p].age = 0]
\* The tail of handle_disconnect: whichever connection ended, the participant
\* of that connection loses its handle and its grace period starts afresh.
MarkDisconnected(p) ==
    IF participants[p] = None THEN participants
    ELSE [participants EXCEPT ![p].conn = None, ![p].age = 0]

\* Mutant: every connection of the participant is forgotten.
ForgetParticipant(c, p) == [d \in Conn |-> IF connections[d] = p THEN None ELSE connections[d]]
\* Only the connection that ended is forgotten.
Forget(c, p) == [connections EXCEPT ![c] = None]

\* connection_closed is called only for a connection still in the map.
ClosedGauge(c) == IF connections[c] = None THEN activeConnections
                  ELSE activeConnections - 1

\* handle_disconnect for the oldest notice in the mailbox.
ConnectionDisconnected ==
    /\ ~stopped
    /\ mailbox # <<>>
    /\ LET n == Head(mailbox) IN
        /\ connections' = Forget(n.conn, n.pid)
        /\ activeConnections' = ClosedGauge(n.conn)
        /\ participants' = MarkDisconnected(n.pid)
    /\ mailbox' = Tail(mailbox)
    /\ UNCHANGED <<corrToPid, bindings, lifeVars, participantCount, actors, roster>>

\* Mutant: the used correlation id stays mapped to the participant.
RotateKeepOld(c, k, p) == [corrToPid EXCEPT ![c] = p]
\* The correlation id that was presented is retired, a new one takes its place.
Rotate(c, k, p) == [corrToPid EXCEPT ![k] = None, ![c] = p]

\* Mutant: reconnecting rebuilds the participant record.
RejoinedFresh(p, c) ==
    [participants[p] EXCEPT !.conn = c, !.age = 0, !.corr = c,
                            !.selfMuted = FALSE, !.hostMuted = FALSE]
\* The participant as handle_reconnect leaves it.
Rejoined(p, c) ==
    [participants[p] EXCEPT !.conn = c, !.age = 0, !.corr = c]

\* Mutant: a reconnection is taken to replace a connection already counted.
ReopenedGaugeSame == activeConnections
ReopenedGauge == activeConnections + 1

\* handle_reconnect, success: the binding under k is there, not expired, its
\* token was presented, and k still leads to a participant.  Neither the
\* participant's status nor is_shutting_down is looked at, and a connection
\* the participant still has is left alone.
Reconnect(c, k) ==
    /\ ~stopped
    /\ FreshConn(c)
    /\ bindings[k] # None /\ ~Expired(bindings[k])
    /\ corrToPid[k] # None
    /\ participants[corrToPid[k]] # None
    /\ LET p == corrToPid[k] IN
        /\ connections' = [connections EXCEPT ![c] = p]
        /\ actors' = [actors EXCEPT ![c] = [pid |-> p, st |-> "running"]]
        /\ participants' = [participants EXCEPT ![p] = Rejoined(p, c)]
        /\ bindings' = [bindings EXCEPT ![k] = None, ![c] = [pid |-> p, age |-> 0]]
        /\ corrToPid' = Rotate(c, k, p)
        /\ roster' = [roster EXCEPT ![c] = Members \ {p}]
    /\ activeConnections' = ReopenedGauge
    /\ UNCHANGED <<mailbox, lifeVars, participantCount>>

\* handle_reconnect, TokenExpired: the binding is dropped and the caller told.
ReconnectExpired(k) ==
    /\ ~stopped
    /\ bindings[k] # None /\ Expired(bindings[k])
    /\ bindings' = [bindings EXCEPT ![k] = None]
    /\ UNCHANGED <<participants, connections, corrToPid, mailbox, lifeVars,
                   gaugeVars, actors, roster>>

\* Cancelling a participant actor's token; a token can be cancelled only once.
Cancelled(c) == [actors[c] EXCEPT !.st = IF @ = "running" THEN "cancelled" ELSE @]

\* Removing the participants ps: Left goes to every connection that remains.
LeftRoster(ps) ==
    [d \in Conn |-> IF \E q \in Members \ ps : participants[q].conn = d
                    THEN roster[d] \ ps ELSE roster[d]]

\* handle_leave: the participant goes, its connection is only cancelled and
\* stays managed until its actor ends.
Leave(p) ==
    /\ ~stopped
    /\ participants[p] # None
    /\ participants' = [participants EXCEPT ![p] = None]
    /\ corrToPid' = [corrToPid EXCEPT ![participants[p].corr] = None]
    /\ bindings' = [bindings EXCEPT ![participants[p].corr] = None]
    /\ actors' = IF participants[p].conn = None THEN actors
                 ELSE [actors EXCEPT ![participants[p].conn] = Cancelled(participants[p].conn)]
    /\ participantCount' = participantCount - 1
    /\ roster' = LeftRoster({p})
    /\ UNCHANGED <<connections, mailbox, lifeVars, activeConnections>>

\* handle_self_mute, also reached through handle_signaling(MuteUpdate).
SelfMute(p, on) ==
    /\ ~stopped
    /\ participants[p] # None
    /\ participants' = [participants EXCEPT ![p].selfMuted = on]
    /\ UNCHANGED <<connections, corrToPid, bindings, mailbox, lifeVars, gaugeVars, actors, roster>>

\* handle_host_mute: by must be a host that is still in the meeting.
HostMute(target, by, on) ==
    /\ ~stopped
    /\ participants[by] # None /\ by \in Host
    /\ participants[target] # None
    /\ participants' = [participants EXCEPT ![target].hostMuted = on]
    /\ UNCHANGED <<connections, corrToPid, bindings, mailbox, lifeVars, gaugeVars, actors, roster>>

\* handle_end_meeting: everyone is told that everyone else has left, every
\* connection is cancelled and so is the actor's own token.  The participants
\* are not removed.
EndMeeting ==
    /\ ~stopped
    /\ shuttingDown' = TRUE
    /\ cancelled' = TRUE
    /\ actors' = [c \in Conn |-> IF connections[c] = None THEN actors[c] ELSE Cancelled(c)]
    /\ roster' = [c \in Conn |-> IF \E q \in Members : participants[q].conn = c
                                 THEN roster[c] \ {q \in Members : participants[q].conn # c}
                                 ELSE roster[c]]
    /\ UNCHANGED <<meetingVars, mailbox, stopped, gaugeVars>>

-----------------------------------------------------------------------------
(* The other branches of the actor's loop. *)

\* The participants whose grace period is over.
TimedOut == {p \in Pid : IsDisconnected(p) /\ participants[p].age >= Grace}

\* Mutant: the decrement of a removal by timeout is forgotten.
CountAfterTimeoutForgotten(ps) == participantCount
CountAfterTimeout(ps) == participantCount - Cardinality(ps)

\* check_disconnect_timeouts, on the 5 s tick.  The stored binding of a removed
\* participant stays behind.
GraceTick ==
    /\ ~stopped
    /\ TimedOut # {}
    /\ participants' = [p \in Pid |-> IF p \in TimedOut THEN None ELSE participants[p]]
    /\ corrToPid' = [k \in Conn |-> IF \E p \in TimedOut : participants[p].corr = k
                                    THEN None ELSE corrToPid[k]]
    /\ participantCount' = CountAfterTimeout(TimedOut)
    /\ roster' = LeftRoster(TimedOut)
    /\ UNCHANGED <<connections, bindings, mailbox, lifeVars, activeConnections, actors>>

\* check_connection_health, at the top of the loop, for one managed connection
\* whose task has finished.  The entry is removed before handle_disconnect is
\* called, which then finds none: connection_closed is not called.  The branch
\* taken afterwards does not look at the tasks, so the check may as well come
\* at any later point.
CheckConnectionHealth(c) ==
    /\ ~stopped
    /\ connections[c] # None
    /\ actors[c].st = "finished"
    /\ connections' = [connections EXCEPT ![c] = None]
    /\ participants' = MarkDisconnected(connections[c])
    /\ UNCHANGED <<corrToPid, bindings, mailbox, lifeVars, gaugeVars, actors, roster>>

\* The cancelled() branch: graceful_shutdown cancels and forgets every
\* connection, then run() returns and the actor's state is dropped.  Neither
\* gauge is brought down.
GracefulShutdown ==
    /\ ~stopped
    /\ cancelled
    /\ shuttingDown' = TRUE
    /\ stopped' = TRUE
    /\ actors' = [c \in Conn |-> IF connections[c] = None THEN actors[c] ELSE Cancelled(c)]
    /\ participants' = [p \in Pid |-> None]
    /\ connections'  = [c \in Conn |-> None]
    /\ corrToPid'    = [c \in Conn |-> None]
    /\ bindings'     = [c \in Conn |-> None]
    /\ mailbox'      = <<>>
    /\ UNCHANGED <<cancelled, gaugeVars, roster>>

-----------------------------------------------------------------------------
(* The world around the meeting actor. *)

\* The controller cancels the meeting's token (remove_meeting, shutdown).
CancelMeeting ==
    /\ ~cancelled
    /\ cancelled' = TRUE
    /\ UNCHANGED <<meetingVars, mailbox, shuttingDown, stopped, gaugeVars, actors, roster>>

\* The transport ends: handle_connection cancels the participant's handle.
ConnectionDrops(c) ==
    /\ actors[c] # None
    /\ actors[c].st = "running"
    /\ actors' = [actors EXCEPT ![c] = Cancelled(c)]
    /\ UNCHANGED <<meetingVars, mailbox, lifeVars, gaugeVars, roster>>

\* Mutant: the actor waits for an answer, which a stopped meeting never gives.
ActorNotifiesAndWaits(c) ==
    /\ ~stopped
    /\ actors[c] # None
    /\ actors[c].st = "cancelled" \/ (actors[c].st = "running" /\ cancelled)
    /\ actors' = [actors EXCEPT ![c].st = "notified"]
    /\ mailbox' = Append(mailbox, [conn |-> c, pid |-> actors[c].pid])
    /\ UNCHANGED <<meetingVars, lifeVars, gaugeVars, roster>>
\* ParticipantActor::run leaves its loop once its token, or its parent's, is
\* cancelled, and sends the meeting a notice (lost if the meeting is gone).
ActorNotifies(c) ==
    /\ actors[c] # None
    /\ actors[c].st = "cancelled" \/ (actors[c].st = "running" /\ cancelled)
    /\ actors' = [actors EXCEPT ![c].st = "notified"]
    /\ mailbox' = IF stopped THEN mailbox
                  ELSE Append(mailbox, [conn |-> c, pid |-> actors[c].pid])
    /\ UNCHANGED <<meetingVars, lifeVars, gaugeVars, roster>>

\* The task returns after its notice was accepted.
ActorFinishes(c) ==
    /\ actors[c] # None
    /\ actors[c].st = "notified"
    /\ actors' = [actors EXCEPT ![c].st = "finished"]
    /\ UNCHANGED <<meetingVars, mailbox, lifeVars, gaugeVars, roster>>

\* The task panics: no notice is sent.
ActorPanics(c) ==
    /\ actors[c] # None
    /\ actors[c].st \in {"running", "cancelled"}
    /\ actors' = [actors EXCEPT ![c].st = "finished"]
    /\ UNCHANGED <<meetingVars, mailbox, lifeVars, gaugeVars, roster>>

OlderParticipant(r) == IF r = None \/ r.conn # None \/ r.age = Grace THEN r
                       ELSE [r EXCEPT !.age = @ + 1]
OlderBinding(b) == IF b = None \/ Expired(b) THEN b ELSE [b EXCEPT !.age = @ + 1]

\* Time passes for the grace periods and the bindings.
Tick ==
    /\ ~stopped
    /\ participants' = [p \in Pid |-> OlderParticipant(participants[p])]
    /\ bindings' = [k \in Conn |-> OlderBinding(bindings[k])]
    /\ <<participants', bindings'>> # <<participants, bindings>>
    /\ UNCHANGED <<connections, corrToPid, mailbox, lifeVars, gaugeVars, actors, roster>>

-----------------------------------------------------------------------------
Next ==
    \/ \E c \in Conn, p \in Pid : Join(c, p)
    \/ ConnectionDisconnected
    \/ \E c, k \in Conn : Reconnect(c, k)
    \/ \E k \in Conn : ReconnectExpired(k)
    \/ \E p \in Pid : Leave(p)
    \/ \E p \in Muters, on \in BOOLEAN : SelfMute(p, on)
    \/ \E p \in Muters, by \in Pid, on \in BOOLEAN : HostMute(p, by, on)
    \/ EndMeeting
    \/ GraceTick
    \/ \E c \in Conn : CheckConnectionHealth(c)
    \/ GracefulShutdown
    \/ CancelMeeting
    \/ \E c \in Conn : ConnectionDrops(c)
    \/ \E c \in Conn : ActorNotifies(c)
    \/ \E c \in Conn : ActorFinishes(c)
    \/ \E c \in Conn : ActorPanics(c)
    \/ Tick

Spec == Init /\ [][Next]_vars

\* The runtime keeps running tasks that are ready, and time passes.  Each of
\* these steps, once possible, stays possible until it is taken.
Fairness ==
    /\ WF_vars(ConnectionDisconnected)
    /\ WF_vars(GraceTick)
    /\ WF_vars(GracefulShutdown)
    /\ WF_vars(Tick)
    /\ \A c \in Conn : /\ WF_vars(CheckConnectionHealth(c))
                       /\ WF_vars(ActorNotifies(c))
                       /\ WF_vars(ActorFinishes(c))

FairSpec == Spec /\ Fairness

-----------------------------------------------------------------------------
(* Properties. *)

\* The participant count reported to the global controller is the number of
\* participants in the meeting, for as long as the meeting actor runs.
CountMatches == ~stopped => participantCount = Cardinality(Members)

\* The correlation map and the participants agree: a correlation id leads to a
\* participant exactly when it is that participant's current one, and the
\* binding whose token is checked under that id is that participant's.
CorrelationExact ==
    \A k \in Conn, p \in Pid :
        /\ (corrToPid[k] = p) <=> (participants[p] # None /\ participants[p].corr = k)
        /\ (corrToPid[k] = p /\ bindings[k] # None) => bindings[k].pid = p

\* A connected participant's connection is managed under that participant's
\* id, so that the end of its actor will be noticed.
ConnectedIsManaged ==
    \A p \in Pid : IsConnected(p) => connections[participants[p].conn] = p

\* No participant actor escapes supervision: while the meeting runs, an actor
\* that has not ended is a managed connection of its own participant.
ActorsSupervised ==
    \A c \in Conn : (/\ ~stopped
                     /\ actors[c] # None
                     /\ actors[c].st \in {"running", "cancelled"})
                        => connections[c] = actors[c].pid

\* The connection gauge never drops below the connections that exist, so its
\* unsigned decrement never wraps.
GaugeCoversManaged == Cardinality(Managed) <= activeConnections

\* Every connection is accounted for, from both sides: by whom it belongs to and by
\* the actor that runs it.
Supervised == ConnectedIsManaged /\ ActorsSupervised

\* Every join, reconnection, end, panic and removal moves the counters by what it
\* changes, in whatever order they come.
Counted == CountMatches /\ GaugeCoversManaged

\* Until the meeting ends, a connected participant's actor has been told of
\* exactly the other members: the snapshot of the join or reconnection and the
\* later updates add up to the membership.
RosterConsistent ==
    ~shuttingDown =>
        \A p \in Pid : IsConnected(p) => roster[participants[p].conn] = Members \ {p}

\* A host's mute binds: it changes only while a host is in the meeting, whatever
\* the participant does (its own mute, dropping, reconnecting).
HostMuteBinds ==
    [][\A p \in Pid :
        (/\ participants[p] # None /\ participants'[p] # None
         /\ participants[p].hostMuted # participants'[p].hostMuted)
            => \E h \in Host : participants[h] # None]_vars

\* Cancelling the meeting ends its actor and every participant actor.
CancelledStops ==
    cancelled ~> (stopped /\ \A c \in Conn : actors[c] = None \/ actors[c].st = "finished")

\* No ghosts: a participant all of whose actors have ended, even by a panic or
\* with their notice still under way, is removed or reconnects.
NoGhosts ==
    \A p \in Pid : (participants[p] # None /\ ~HasActor(p))
                        ~> (participants[p] = None \/ HasActor(p))
=============================================================================
