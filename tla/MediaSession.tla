---------------------------- MODULE MediaSession ----------------------------
(***************************************************************************)
(* One meeting on a media handler (MH): the session manager actor of       *)
(* mh-service, the tasks that handle client connections, the registrations *)
(* that meeting controllers (MCs) send, and the notices that travel back   *)
(* into the connection registries of the MCs.                              *)
(*                                                                         *)
(* Every message the session manager handles is one step, and so is every  *)
(* await of a connection task: the actor answers one message at a time,    *)
(* but a task that asks twice may find another answer.  Calls between the  *)
(* services are lost, answered with the reply lost, retried and overtaken  *)
(* by one another.                                                         *)
(*                                                                         *)
(* A registry is kept for this MH only; that the entries of other MHs      *)
(* bring it to its limit is the same as a lost notice. An MC has one       *)
(* registration under way at a time. What fails before a connection is     *)
(* admitted (the handshake, the token) changes no state and is left out,   *)
(* and so is a restart of the MH, which keeps no state over it.            *)
(***************************************************************************)
EXTENDS Naturals, FiniteSets

CONSTANTS
    Conn,            \* client connections to the MH
    Participant,     \* the participants they belong to
    PartOf,          \* claims.sub of each connection
    Mc,              \* meeting controllers
    NoMc,
    Attempts,        \* MAX_REGISTER_ATTEMPTS, MAX_RETRY_ATTEMPTS
    MaxConnections   \* MAX_CONNECTIONS_PER_MEETING

ASSUME MediaAssumption ==
    /\ PartOf \in [Conn -> Participant]
    /\ NoMc \notin Mc
    /\ Attempts \in Nat \ {0}
    /\ MaxConnections \in Nat

VARIABLES
    registered,  \* the MC endpoint of the meeting's registration, or NoMc
    active,      \* active_connections of the meeting
    pending,     \* pending_connections of the meeting
    woken,       \* waiting tasks that notify_waiters has reached
    phase,       \* where the task of each connection is
    calls,       \* attempts each MC has left in its registration under way
    notices,     \* notices under way to the MCs
    registry,    \* MhConnectionRegistry of each MC: who is connected to this MH
    known        \* history: the MC that took up the connection, until it forgets the meeting

mediaVars == <<registered, active, pending, woken, phase, calls, notices, registry, known>>

Phase == {"new", "adding", "provisional", "subscribing", "waiting", "refusing",
          "cancelling", "refused", "announcing", "held", "closing", "leaving", "closed"}
Notice == [kind: {"connected", "disconnected"}, conn: Conn, to: Mc, left: 1..Attempts]

MediaTypeOK ==
    /\ registered \in Mc \cup {NoMc}
    /\ active \subseteq Conn
    /\ pending \subseteq Conn
    /\ woken \subseteq Conn
    /\ phase \in [Conn -> Phase]
    /\ calls \in [Mc -> 0..Attempts]
    /\ notices \subseteq Notice
    /\ registry \in [Mc -> SUBSET Participant]
    /\ known \in [Conn -> Mc \cup {NoMc}]

MediaInit ==
    /\ registered = NoMc
    /\ active = {}
    /\ pending = {}
    /\ woken = {}
    /\ phase = [c \in Conn |-> "new"]
    /\ calls = [m \in Mc |-> 0]
    /\ notices = {}
    /\ registry = [m \in Mc |-> {}]
    /\ known = [c \in Conn |-> NoMc]

Waiting == {c \in Conn : phase[c] = "waiting"}

\* A connection task goes on; the MCs do not take part.
Goto(c, p) ==
    /\ phase' = [phase EXCEPT ![c] = p]
    /\ UNCHANGED <<calls, registry, known>>

-----------------------------------------------------------------------------
(* The connection task: handle_connection. *)

\* is_meeting_registered: the answer may be out of date when the task acts on it.
CheckRegistered(c) ==
    /\ phase[c] = "new"
    /\ Goto(c, IF registered = NoMc THEN "provisional" ELSE "adding")
    /\ UNCHANGED <<registered, active, pending, woken, notices>>

\* add_connection, of a connection that found the meeting registered.
AddConnection(c) ==
    /\ phase[c] = "adding"
    /\ active' = active \cup {c}
    /\ Goto(c, "announcing")
    /\ UNCHANGED <<registered, pending, woken, notices>>

\* add_pending_connection: the connection is pending before its task listens.
AddPendingConnection(c) ==
    /\ phase[c] = "provisional"
    /\ pending' = pending \cup {c}
    /\ Goto(c, "subscribing")
    /\ UNCHANGED <<registered, active, woken, notices>>

\* await_meeting_registration: from here on notify_waiters reaches the task.
AwaitRegistration(c) ==
    /\ phase[c] = "subscribing"
    /\ Goto(c, "waiting")
    /\ UNCHANGED <<registered, active, pending, woken, notices>>

\* The task is woken by the registration.
Promoted(c) ==
    /\ phase[c] = "waiting"
    /\ c \in woken
    /\ woken' = woken \ {c}
    /\ Goto(c, "announcing")
    /\ UNCHANGED <<registered, active, pending, notices>>

\* Mutant: only a connection that is still pending is timed out.
TimeoutPending(c) ==
    /\ phase[c] = "waiting"
    /\ c \in pending
    /\ woken' = woken \ {c}
    /\ Goto(c, "refusing")
    /\ UNCHANGED <<registered, active, pending, notices>>
\* register_meeting_timeout runs out.  select! may take this arm although the task
\* has been woken as well.
Timeout(c) ==
    /\ phase[c] = "waiting"
    /\ woken' = woken \ {c}
    /\ Goto(c, "refusing")
    /\ UNCHANGED <<registered, active, pending, notices>>

\* The server shuts down, with the same choice of arms.
Cancel(c) ==
    /\ phase[c] = "waiting"
    /\ woken' = woken \ {c}
    /\ Goto(c, "cancelling")
    /\ UNCHANGED <<registered, active, pending, notices>>

\* Mutant: the pending connection is left behind.
RemovePendingNothing(c) ==
    /\ phase[c] \in {"refusing", "cancelling"}
    /\ Goto(c, "refused")
    /\ UNCHANGED <<registered, active, pending, woken, notices>>
\* remove_pending_connection, after which the client is sent away.
RemovePendingConnection(c) ==
    /\ phase[c] \in {"refusing", "cancelling"}
    /\ pending' = pending \ {c}
    /\ Goto(c, "refused")
    /\ UNCHANGED <<registered, active, woken, notices>>

\* get_mc_endpoint and the notice that is sent in a task of its own.
Notify(c, kind) ==
    notices' = IF registered = NoMc THEN notices
               ELSE notices \cup {[kind |-> kind, conn |-> c, to |-> registered, left |-> Attempts]}

\* spawn_notify_connected; the connection is then held open.
Announce(c) ==
    /\ phase[c] = "announcing"
    /\ Notify(c, "connected")
    /\ Goto(c, "held")
    /\ UNCHANGED <<registered, active, pending, woken>>

\* The client closes, its stream fails, or the server shuts down.
Leave(c) ==
    /\ phase[c] = "held"
    /\ Goto(c, "closing")
    /\ UNCHANGED <<registered, active, pending, woken, notices>>

\* remove_connection
RemoveConnection(c) ==
    /\ phase[c] = "closing"
    /\ active' = active \ {c}
    /\ Goto(c, "leaving")
    /\ UNCHANGED <<registered, pending, woken, notices>>

\* notify_participant_disconnected, to the MC that is registered now.
AnnounceEnd(c) ==
    /\ phase[c] = "leaving"
    /\ Notify(c, "disconnected")
    /\ Goto(c, "closed")
    /\ UNCHANGED <<registered, active, pending, woken>>

-----------------------------------------------------------------------------
(* Registrations: register_meeting_with_handlers of an MC, and the MH. *)

\* The first participant of the meeting joins at the MC, perhaps not for the first time.
StartRegistration(m) ==
    /\ calls[m] = 0
    /\ calls' = [calls EXCEPT ![m] = Attempts]
    /\ UNCHANGED <<registered, active, pending, woken, phase, notices, registry, known>>

\* Mutant: the waiting tasks are woken, and the pending connections not promoted.
HandleRegisterNoPromotion(m) ==
    /\ registered' = m
    /\ woken' = woken \cup Waiting
    /\ UNCHANGED <<active, pending>>
\* handle_register_meeting: the latest MC wins, the pending connections become
\* active, and the tasks that listen are woken.
HandleRegisterMeeting(m) ==
    /\ registered' = m
    /\ active' = active \cup pending
    /\ pending' = {}
    /\ woken' = woken \cup Waiting

\* The MH registers the meeting; the MC is done, or the reply is lost.
RegisterMeeting(m) ==
    /\ calls[m] > 0
    /\ HandleRegisterMeeting(m)
    /\ \/ calls' = [calls EXCEPT ![m] = 0]
       \/ calls' = [calls EXCEPT ![m] = @ - 1]
    /\ UNCHANGED <<phase, notices, registry, known>>

\* The call does not reach the MH, or the MC is shutting down.
RegistrationFails(m) ==
    /\ calls[m] > 0
    /\ calls' = [calls EXCEPT ![m] = @ - 1]
    /\ UNCHANGED <<registered, active, pending, woken, phase, notices, registry, known>>

-----------------------------------------------------------------------------
(* Notices: send_with_retry of the MH, MediaCoordinationService of the MC. *)

\* A notice that failed is sent again while attempts are left.
Again(n) ==
    IF n.left = 1 THEN notices \ {n}
    ELSE (notices \ {n}) \cup {[n EXCEPT !.left = @ - 1]}

\* The limit is checked before duplicates are recognised.
Room(m) == Cardinality(registry[m]) < MaxConnections

\* add_connection of the registry: at the limit nothing is recorded.
NotifyConnected(n) ==
    /\ n.kind = "connected"
    /\ IF Room(n.to)
       THEN /\ registry' = [registry EXCEPT ![n.to] = @ \cup {PartOf[n.conn]}]
            /\ known' = [known EXCEPT ![n.conn] = n.to]
       ELSE UNCHANGED <<registry, known>>

\* Mutant: the meeting's whole entry goes.
NotifyDisconnectedAll(n) ==
    /\ n.kind = "disconnected"
    /\ registry' = [registry EXCEPT ![n.to] = {}]
    /\ UNCHANGED known
\* remove_connection of the registry, by participant and handler.
NotifyDisconnected(n) ==
    /\ n.kind = "disconnected"
    /\ registry' = [registry EXCEPT ![n.to] = @ \ {PartOf[n.conn]}]
    /\ UNCHANGED known

\* The MC handles a notice; it is acknowledged, or the reply is lost.
DeliverNotice(n) ==
    /\ NotifyConnected(n) \/ NotifyDisconnected(n)
    /\ notices' \in {notices \ {n}, Again(n)}
    /\ UNCHANGED <<registered, active, pending, woken, phase, calls>>

\* A notice does not arrive, or is refused for its token and given up.
LoseNotice(n) ==
    /\ notices' \in {notices \ {n}, Again(n)}
    /\ UNCHANGED <<registered, active, pending, woken, phase, calls, registry, known>>

\* remove_meeting of the registry, when the controller removes the meeting; the
\* same happens to it when the MC restarts.
RemoveMeeting(m) ==
    /\ registry' = [registry EXCEPT ![m] = {}]
    /\ known' = [c \in Conn |-> IF known[c] = m THEN NoMc ELSE known[c]]
    /\ UNCHANGED <<registered, active, pending, woken, phase, calls, notices>>

-----------------------------------------------------------------------------
ConnStep(c) ==
    \/ CheckRegistered(c) \/ AddConnection(c) \/ AddPendingConnection(c)
    \/ AwaitRegistration(c) \/ Promoted(c) \/ Timeout(c) \/ RemovePendingConnection(c)
    \/ Announce(c) \/ RemoveConnection(c) \/ AnnounceEnd(c)

McStep(m) == StartRegistration(m) \/ RegisterMeeting(m) \/ RegistrationFails(m) \/ RemoveMeeting(m)

MediaNext ==
    \/ \E c \in Conn : ConnStep(c) \/ Cancel(c) \/ Leave(c)
    \/ \E m \in Mc : McStep(m)
    \/ \E n \in notices : DeliverNotice(n) \/ LoseNotice(n)

MediaSpec == MediaInit /\ [][MediaNext]_mediaVars

\* The runtime runs every connection task, its timer included.  Nothing is assumed
\* of clients, of MCs or of the network.
MediaFairness == \A c \in Conn : WF_mediaVars(ConnStep(c))
FairMediaSpec == MediaSpec /\ MediaFairness

-----------------------------------------------------------------------------
(* Properties. *)

\* A connection that is served is one the session manager counts: whichever way it
\* was admitted, by add_connection or by a promotion, it is active until it closes.
ServedIsActive ==
    \A c \in Conn : phase[c] \in {"announcing", "held", "closing"} => c \in active

\* Only a connection whose task still waits is pending: a timeout that races a
\* registration leaves no entry behind that a later registration would promote.
PendingHasTask ==
    \A c \in pending : phase[c] \in {"subscribing", "waiting", "refusing", "cancelling"} /\ c \notin active

\* While a connection is held and the MC has taken it up, the MC knows that its
\* participant is connected, however notices were repeated, lost or overtaken: only
\* the end of another connection of the same participant may hide it.
HeldIsKnown ==
    \A c \in Conn :
        (/\ phase[c] = "held" /\ known[c] # NoMc
         /\ \A d \in Conn : (d # c /\ PartOf[d] = PartOf[c]) => phase[d] # "closed")
            => PartOf[c] \in registry[known[c]]

\* The tables of the session manager, the tasks of the connections and the registries of
\* the MCs agree.
Tracked == ServedIsActive /\ PendingHasTask /\ HeldIsKnown

\* Every connection that was let in ends up held, sent away or closed: also one whose
\* wake-up was lost between its registration as pending and its wait.
ConnectionsSettle ==
    \A c \in Conn :
        phase[c] # "new" ~> phase[c] \in {"held", "refused", "closed"}
=============================================================================
