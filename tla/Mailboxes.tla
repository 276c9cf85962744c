------------------------------ MODULE Mailboxes ------------------------------
(***************************************************************************)
(* The bounded channels between a meeting actor and its participant        *)
(* actors.  The meeting awaits a slot in a participant's mailbox for every *)
(* update it broadcasts; a participant that closes awaits a slot in the    *)
(* meeting's mailbox for its notice, and reads nothing any more.           *)
(*                                                                         *)
(* Of a message only its sender and kind are kept, of a participant's      *)
(* mailbox only the number of updates in it.  What the handlers do to the  *)
(* meeting's own state is the subject of module Meeting.                   *)
(***************************************************************************)
EXTENDS Naturals, Sequences, FiniteSets

CONSTANTS
    Peer,        \* participants, each with one connection
    MeetingBuffer,      \* MEETING_CHANNEL_BUFFER
    ParticipantBuffer   \* PARTICIPANT_CHANNEL_BUFFER

ASSUME BuffersAssumption == MeetingBuffer \in Nat \ {0} /\ ParticipantBuffer \in Nat \ {0}

Message == [kind: {"join", "notice"}, from: Peer]

VARIABLES
    inbox,    \* the meeting's mailbox
    waiting,  \* senders that await a slot in it, first come first served
    box,      \* how many updates are in each participant's mailbox
    actor,    \* each participant's actor
    handles,  \* participants the meeting has a connection of
    grace,    \* participants in their grace period
    todo      \* participants the broadcast under way has yet to reach

mailVars == <<inbox, waiting, box, actor, handles, grace, todo>>

PeerState == {"absent", "joining", "running", "closing", "notifying", "stopped"}

MailTypeOK ==
    /\ inbox \in Seq(Message) /\ Len(inbox) <= MeetingBuffer
    /\ waiting \in Seq(Message)
    /\ box \in [Peer -> 0..ParticipantBuffer]
    /\ actor \in [Peer -> PeerState]
    /\ handles \subseteq Peer
    /\ grace \subseteq Peer
    /\ todo \subseteq Peer

MailInit ==
    /\ inbox = <<>>
    /\ waiting = <<>>
    /\ box = [p \in Peer |-> 0]
    /\ actor = [p \in Peer |-> "absent"]
    /\ handles = {}
    /\ grace = {}
    /\ todo = {}

-----------------------------------------------------------------------------
\* Sender.send(): the message goes in, or waits behind those that came first.
Send(msg) ==
    IF waiting = <<>> /\ Len(inbox) < MeetingBuffer
    THEN inbox' = Append(inbox, msg) /\ UNCHANGED waiting
    ELSE waiting' = Append(waiting, msg) /\ UNCHANGED inbox

\* connection_join, sent by the task the controller spawns for it.
SendJoin(p) ==
    /\ actor[p] = "absent"
    /\ actor' = [actor EXCEPT ![p] = "joining"]
    /\ Send([kind |-> "join", from |-> p])
    /\ UNCHANGED <<box, handles, grace, todo>>

\* The actor is cancelled: graceful_close, after which nothing is received.
Close(p) ==
    /\ actor[p] = "running"
    /\ actor' = [actor EXCEPT ![p] = "closing"]
    /\ UNCHANGED <<inbox, waiting, box, handles, grace, todo>>

\* connection_disconnected, at the end of the actor's run.
SendNotice(p) ==
    /\ actor[p] = "closing"
    /\ actor' = [actor EXCEPT ![p] = "notifying"]
    /\ Send([kind |-> "notice", from |-> p])
    /\ UNCHANGED <<box, handles, grace, todo>>

\* Mutant: the actor ends without waiting for its notice to be taken.
StopAtOnce(p) ==
    /\ actor[p] = "notifying"
    /\ actor' = [actor EXCEPT ![p] = "stopped"]
    /\ UNCHANGED <<inbox, waiting, box, handles, grace, todo>>
\* The notice is in the mailbox: the actor ends, and its own mailbox with it.
Stop(p) ==
    /\ actor[p] = "notifying"
    /\ \A i \in 1..Len(waiting) : waiting[i].from # p
    /\ actor' = [actor EXCEPT ![p] = "stopped"]
    /\ UNCHANGED <<inbox, waiting, box, handles, grace, todo>>

\* Mutant: the actor goes on receiving while it closes.
ReceiveClosing(p) ==
    /\ actor[p] \in {"running", "closing", "notifying"}
    /\ box[p] > 0
    /\ box' = [box EXCEPT ![p] = @ - 1]
    /\ UNCHANGED <<inbox, waiting, actor, handles, grace, todo>>
\* A running actor handles an update; handing it to the stream never blocks.
Receive(p) ==
    /\ actor[p] = "running"
    /\ box[p] > 0
    /\ box' = [box EXCEPT ![p] = @ - 1]
    /\ UNCHANGED <<inbox, waiting, actor, handles, grace, todo>>

\* Mutant: a slot is freed and no sender is woken.
TakeHeadOnly == inbox' = Tail(inbox) /\ UNCHANGED waiting
\* receiver.recv(): the slot goes to the sender that waits longest.
TakeHead ==
    IF waiting = <<>>
    THEN inbox' = Tail(inbox) /\ UNCHANGED waiting
    ELSE inbox' = Append(Tail(inbox), Head(waiting)) /\ waiting' = Tail(waiting)

\* handle_join: the actor is spawned, and the others are told.
HandleJoin ==
    /\ todo = {}
    /\ inbox # <<>> /\ Head(inbox).kind = "join"
    /\ LET p == Head(inbox).from IN
        /\ todo' = handles
        /\ handles' = handles \cup {p}
        /\ actor' = [actor EXCEPT ![p] = "running"]
    /\ TakeHead
    /\ UNCHANGED <<box, grace>>

\* handle_disconnect: the connection is forgotten, and the others are told.
HandleNotice ==
    /\ todo = {}
    /\ inbox # <<>> /\ Head(inbox).kind = "notice"
    /\ LET p == Head(inbox).from IN
        /\ todo' = handles \ {p}
        /\ handles' = handles \ {p}
        /\ grace' = grace \cup {p}
    /\ TakeHead
    /\ UNCHANGED <<box, actor>>

\* check_disconnect_timeouts: a participant is removed, and the others are told.
TimeOut(p) ==
    /\ todo = {}
    /\ p \in grace
    /\ grace' = grace \ {p}
    /\ todo' = handles
    /\ UNCHANGED <<inbox, waiting, box, actor, handles>>

\* Mutant: broadcast_update waits for an actor that is gone.
DeliverBlind(p) ==
    /\ p \in todo
    /\ box[p] < ParticipantBuffer
    /\ box' = [box EXCEPT ![p] = @ + 1]
    /\ todo' = todo \ {p}
    /\ UNCHANGED <<inbox, waiting, actor, handles, grace>>
\* broadcast_update reaches p: the update is sent once there is room, or fails
\* because the actor is gone.  The meeting goes on when it has reached everyone.
Deliver(p) ==
    /\ p \in todo
    /\ \/ /\ actor[p] = "stopped"
          /\ UNCHANGED box
       \/ /\ actor[p] # "stopped"
          /\ box[p] < ParticipantBuffer
          /\ box' = [box EXCEPT ![p] = @ + 1]
    /\ todo' = todo \ {p}
    /\ UNCHANGED <<inbox, waiting, actor, handles, grace>>

-----------------------------------------------------------------------------
MeetingStep ==
    \/ HandleJoin
    \/ HandleNotice
    \/ \E p \in Peer : TimeOut(p) \/ Deliver(p)

PeerStep(p) == SendNotice(p) \/ Stop(p) \/ Receive(p)

MailNext ==
    \/ MeetingStep
    \/ \E p \in Peer : SendJoin(p) \/ Close(p) \/ PeerStep(p)

MailSpec == MailInit /\ [][MailNext]_mailVars

\* The runtime polls every task that can go on.
MailFairness ==
    /\ WF_mailVars(HandleJoin \/ HandleNotice) /\ \A p \in Peer : WF_mailVars(Deliver(p))
    /\ \A p \in Peer : WF_mailVars(SendNotice(p)) /\ WF_mailVars(Stop(p)) /\ WF_mailVars(Receive(p))
MailFairSpec == MailSpec /\ MailFairness

-----------------------------------------------------------------------------
(* Properties. *)

\* The meeting waits for room in the mailbox of p, and p for room in the meeting's:
\* neither goes on, and nobody else in the meeting does.
Stuck(p) ==
    /\ p \in todo
    /\ box[p] = ParticipantBuffer
    /\ \E i \in 1..Len(waiting) : waiting[i] = [kind |-> "notice", from |-> p]

\* A sender waits only for a mailbox that is full: no slot is lost.
NoSlotLost == waiting # <<>> => Len(inbox) = MeetingBuffer

\* What a stopped actor leaves behind is known to the meeting, or on its way: no
\* participant is lost without a notice.
NoticesOnTheWay ==
    \A p \in Peer :
        (actor[p] = "stopped" /\ p \in handles) =>
            \E i \in 1..Len(inbox) : inbox[i] = [kind |-> "notice", from |-> p]

\* Nothing that is sent to the meeting is lost or left waiting for room that is there.
NothingLost == NoSlotLost /\ NoticesOnTheWay

\* A circular wait is for good: no step of anyone ends it, so every participant of
\* the meeting is cut off, and a controller that asks the meeting for its state.
StuckForever == [][\A p \in Peer : Stuck(p) => Stuck(p)']_mailVars

\* A connection that ends is noticed and its actor stops; a circular wait is the only
\* way this can fail, so full mailboxes by themselves only delay the meeting.
ClosedIsNoticed ==
    \A p \in Peer :
        actor[p] = "closing" ~> \/ actor[p] = "stopped" /\ p \notin handles
                                \/ \E q \in Peer : Stuck(q)

-----------------------------------------------------------------------------
(* A statement of the documents that the code does not keep. *)

\* ADR-0001: "No deadlocks".
NoDeadlock == \A p \in Peer : ~Stuck(p)
=============================================================================
