------------------------------- MODULE Calls --------------------------------
(***************************************************************************)
(* How a call through an actor handle ends: the handles and the mailboxes  *)
(* of the meeting controller's actors (MeetingControllerActorHandle,       *)
(* MeetingActorHandle, ParticipantActorHandle), of the media handler's     *)
(* SessionManagerHandle, the message loops behind them, and the            *)
(* MailboxMonitor of a loop.                                               *)
(*                                                                         *)
(* A call puts a message into a bounded mailbox (and waits for a slot),    *)
(* then waits for the reply.  An actor that ends drops its mailbox and     *)
(* with it the reply channels of what it had not handled.  A join is       *)
(* passed on by a task of its own; GetMeeting makes the controller itself  *)
(* a caller of the meeting.                                                *)
(*                                                                         *)
(* Abstractions:                                                           *)
(*  - what a message does to the state of its actor is in Meeting,         *)
(*    Controller and MediaSession: here it has been done once, or not;     *)
(*  - one meeting with one participant; CreateMeeting is about others;     *)
(*  - of what the actors tell each other (the meeting its participants, a  *)
(*    participant at its end the meeting) only the slots it takes are kept. *)
(***************************************************************************)
EXTENDS Naturals, Sequences, FiniteSets

CONSTANTS
    Callers,     \* tasks that hold handles
    Asked,       \* the kinds of messages they send
    Room,        \* slots of a mailbox (CONTROLLER_CHANNEL_BUFFER and its like)
    MaxCalls     \* bound: calls of a task

Actor == {"controller", "meeting", "participant", "session"}

ControllerMessage == {"CreateMeeting", "GetMeeting", "JoinConnection",
                      "RemoveMeeting", "GetStatus", "Shutdown"}
MeetingMessage == {"ConnectionJoin", "ConnectionDisconnected", "ConnectionReconnect",
                   "ParticipantLeave", "SignalingMessage", "GetState",
                   "UpdateSelfMute", "HostMute", "EndMeeting"}
ParticipantMessage == {"Send", "ParticipantUpdate", "Close", "Ping"}
SessionMessage == {"RegisterMeeting", "IsMeetingRegistered", "GetMcEndpoint",
                   "AddConnection", "RemoveConnection", "AddPendingConnection",
                   "RemovePendingConnection", "ActiveConnectionCount"}

\* Messages without a reply channel.
Tell == {"ConnectionDisconnected", "SignalingMessage", "UpdateSelfMute",
         "Send", "ParticipantUpdate", "Close", "AddConnection"}

Receiver(kind) ==
    CASE kind \in ControllerMessage  -> "controller"
      [] kind \in MeetingMessage     -> "meeting"
      [] kind \in ParticipantMessage -> "participant"
      [] kind \in SessionMessage     -> "session"

ASSUME CallsAssumption ==
    /\ IsFiniteSet(Callers) /\ Room \in Nat \ {0} /\ MaxCalls \in Nat
    /\ Asked \subseteq ControllerMessage \cup MeetingMessage
                        \cup ParticipantMessage \cup SessionMessage

Request == Callers \X (1..MaxCalls)
Mail == [req: Request, kind: ControllerMessage \cup MeetingMessage
                              \cup ParticipantMessage \cup SessionMessage]
NoMail == <<>>

Answers == {"none", "pending", "ok", "not_found", "zeros",
            "send_failed", "receive_failed", "default", "given_up"}
Fates   == {"none", "sending", "queued", "relayed", "forwarded", "handled", "dropped"}

VARIABLES
    mailbox,    \* [Actor -> Seq(Mail)]
    busy,       \* [Actor -> Mail or NoMail]: what its loop has taken out
    actor,      \* [Actor -> "running", "closing", "stopped" or "panicked"]
    cancelled,  \* [Actor -> BOOLEAN]: its cancellation token
    managed,    \* the controller's map has the meeting
    query,      \* get_state of a GetMeeting: "none", "sending", "queued" or the outcome
    asked,      \* [Request -> kind or "none"]
    fate,       \* [Request -> Fates]: where its message is
    answers,    \* [Request -> Answers]: what the caller knows
    done,       \* [Request -> Nat], history: how often its actor has done it
    told,       \* [Actor -> Nat]: the slots of its mailbox that another actor's messages take
    monitor     \* [Actor -> [depth, peak, processed]]: MailboxMonitor

callsVars == <<mailbox, busy, actor, cancelled, managed, query,
               asked, fate, answers, done, told, monitor>>

\* A loop that has taken nothing yet.
FreshMonitor == [depth |-> 0, peak |-> 0, processed |-> 0]

\* An update of what happened before is in the participant's mailbox.
CallsInit ==
    /\ told = [a \in Actor |-> IF a = "participant" THEN 1 ELSE 0]
    /\ mailbox = [a \in Actor |-> <<>>] /\ busy = [a \in Actor |-> NoMail]
    /\ actor = [a \in Actor |-> "running"] /\ cancelled = [a \in Actor |-> FALSE]
    /\ managed = TRUE /\ query = "none"
    /\ asked = [r \in Request |-> "none"] /\ fate = [r \in Request |-> "none"]
    /\ answers = [r \in Request |-> "none"] /\ done = [r \in Request |-> 0]
    /\ monitor = [a \in Actor |-> FreshMonitor]

Gone(a) == actor[a] \in {"stopped", "panicked"}

\* send().await ends: with a slot of the mailbox, or because its receiver was dropped.
Accepts(a) == ~Gone(a) /\ Len(mailbox[a]) + told[a] < Room
SendEnds(a) == Accepts(a) \/ Gone(a)

-----------------------------------------------------------------------------
(* The caller. *)

\* The error of a handle's method; the media handler's returns a default value instead.
Refusal(a, why) == IF a = "session" THEN "default" ELSE why

\* A task calls a method of a handle, when its call before has returned.
Ask(r, kind) ==
    /\ asked[r] = "none"
    /\ r[2] > 1 => answers[<<r[1], r[2] - 1>>] \notin {"none", "pending"}
    /\ asked' = [asked EXCEPT ![r] = kind]
    /\ fate' = [fate EXCEPT ![r] = "sending"]
    /\ answers' = [answers EXCEPT ![r] = "pending"]
    /\ UNCHANGED <<mailbox, busy, actor, cancelled, managed, query, done, told, monitor>>

\* sender.send().await: a slot, or the receiver is gone.  A Tell has returned then.
Send(r) ==
    LET a == Receiver(asked[r]) IN
    /\ fate[r] = "sending"
    /\ \/ /\ Accepts(a)
          /\ mailbox' = [mailbox EXCEPT ![a] = Append(@, [req |-> r, kind |-> asked[r]])]
          /\ fate' = [fate EXCEPT ![r] = "queued"]
          /\ answers' = [answers EXCEPT ![r] = IF asked[r] \in Tell THEN "ok" ELSE "pending"]
       \/ /\ Gone(a)
          /\ fate' = [fate EXCEPT ![r] = "dropped"]
          /\ answers' = [answers EXCEPT ![r] = Refusal(a, "send_failed")]
          /\ UNCHANGED mailbox
    /\ UNCHANGED <<busy, actor, cancelled, managed, query, asked, done, told, monitor>>

\* The caller's own future is dropped (its connection or its RPC has ended); a message
\* that waits for its slot is gone with it, a message in a mailbox stays.
Abandon(r) ==
    /\ answers[r] = "pending"
    /\ answers' = [answers EXCEPT ![r] = "given_up"]
    /\ fate' = [fate EXCEPT ![r] = IF @ = "sending" THEN "dropped" ELSE @]
    /\ UNCHANGED <<mailbox, busy, actor, cancelled, managed, query, asked, done, told, monitor>>

\* respond_to.send(result): nobody may be listening any more.
Reply(r, result) ==
    answers' = [answers EXCEPT ![r] = IF @ = "pending" THEN result ELSE @]

-----------------------------------------------------------------------------
(* MailboxMonitor.  record_enqueue is called by the loop, when a message has been *)
(* taken out, not when it was put in.                                              *)

RecordEnqueue(m) ==
    [m EXCEPT !.depth = @ + 1, !.peak = IF m.depth + 1 > @ THEN m.depth + 1 ELSE @]
\* Mutant: only the depth goes down.
DequeueUncounted(m) == [m EXCEPT !.depth = @ - 1]
RecordDequeue(m) == [m EXCEPT !.depth = @ - 1, !.processed = @ + 1]

-----------------------------------------------------------------------------
(* The loops. *)

\* The session manager's loop has neither a monitor nor a token.
Monitored(a) == a # "session"

\* ParticipantActor::handle_message returns true.
ShouldExit(kind) == kind = "Close"

\* recv(): select! may take a message although the token is cancelled.
CanReceive(a) == actor[a] = "running" /\ busy[a] = NoMail /\ mailbox[a] # <<>>
Receive(a) ==
    /\ CanReceive(a)
    /\ busy' = [busy EXCEPT ![a] = Head(mailbox[a])]
    /\ mailbox' = [mailbox EXCEPT ![a] = Tail(@)]
    /\ monitor' = [monitor EXCEPT ![a] = IF Monitored(a) THEN RecordEnqueue(@) ELSE @]
    /\ UNCHANGED <<actor, cancelled, managed, query, asked, fate, answers, done, told>>

\* What another actor has told it is handled: a participant hands an update to its stream,
\* and the meeting tells the others of the one that has ended.
CanHear(a) == actor[a] = "running" /\ busy[a] = NoMail /\ told[a] > 0
Hear(a) ==
    /\ CanHear(a)
    /\ told' = [told EXCEPT ![a] = @ - 1]
    /\ monitor' = [monitor EXCEPT ![a] = RecordDequeue(RecordEnqueue(@))]
    /\ UNCHANGED <<mailbox, busy, actor, cancelled, managed, query, asked, fate, answers, done>>

\* The token of a and of its children.
Cancelled(a) ==
    [b \in Actor |->
        \/ cancelled[b]
        \/ b = a
        \/ a = "controller" /\ b \in {"meeting", "participant"}
        \/ a = "meeting" /\ b = "participant"]

\* End of a loop's iteration; the controller's then runs check_meeting_health.
Finished(a) ==
    /\ busy' = [busy EXCEPT ![a] = NoMail]
    /\ monitor' = [monitor EXCEPT ![a] = IF Monitored(a) THEN RecordDequeue(@) ELSE @]

Healthy == ~Gone("meeting")

\* broadcast_update: all handlers of the meeting but GetState's await a slot in the mailbox
\* of every other participant.
Broadcasts(a) == a = "meeting" /\ busy[a].kind # "GetState"

\* The messages whose handler waits for nothing but such slots.
CanHandle(a) ==
    /\ busy[a] # NoMail
    /\ busy[a].kind \notin {"JoinConnection", "GetMeeting", "RemoveMeeting"}
    /\ Broadcasts(a) => SendEnds("participant")
Handle(a) ==
    LET r == busy[a].req  kind == busy[a].kind IN
    /\ CanHandle(a)
    /\ Finished(a)
    /\ told' = IF Broadcasts(a) /\ ~Gone("participant")
               THEN [told EXCEPT !["participant"] = @ + 1] ELSE told
    /\ IF a = "meeting" /\ asked[r] = "GetMeeting"
       THEN /\ query' = IF query = "queued" THEN "answered" ELSE query
            /\ UNCHANGED <<fate, done, answers>>
       ELSE /\ done' = [done EXCEPT ![r] = @ + 1]
            /\ fate' = [fate EXCEPT ![r] = "handled"]
            /\ Reply(r, "ok")
            /\ UNCHANGED query
    /\ cancelled' = CASE kind = "Shutdown"   -> Cancelled("controller")
                      [] kind = "EndMeeting" -> Cancelled("meeting")
                      [] OTHER               -> cancelled
    /\ actor' = IF ShouldExit(kind) THEN [actor EXCEPT ![a] = "closing"] ELSE actor
    /\ managed' = (managed /\ (a = "controller" => Healthy))
    /\ UNCHANGED <<mailbox, asked>>

\* The controller is at a message of another kind.
Holding(kind) == busy["controller"] # NoMail /\ busy["controller"].kind = kind

NotFound(r) ==
    /\ ~managed
    /\ Finished("controller")
    /\ fate' = [fate EXCEPT ![r] = "handled"]
    /\ Reply(r, "not_found")
    /\ UNCHANGED <<mailbox, actor, cancelled, managed, query, asked, done, told>>

\* remove_meeting: the meeting's token is cancelled, its end is not waited for.
RemoveMeeting ==
    LET r == busy["controller"].req IN
    /\ Holding("RemoveMeeting")
    /\ \/ NotFound(r)
       \/ /\ managed
          /\ managed' = FALSE
          /\ cancelled' = Cancelled("meeting")
          /\ Finished("controller")
          /\ done' = [done EXCEPT ![r] = @ + 1]
          /\ fate' = [fate EXCEPT ![r] = "handled"]
          /\ Reply(r, "ok")
          /\ UNCHANGED <<mailbox, actor, query, asked, told>>

\* Mutant: the result of the join is not waited for.
RelayAnswered(r) == Reply(r, "ok")
\* JoinConnection: a task of its own calls the meeting; it replies when it has the result.
RelayReply(r) == UNCHANGED answers

JoinConnection ==
    LET r == busy["controller"].req IN
    /\ Holding("JoinConnection")
    /\ \/ NotFound(r)
       \/ /\ managed
          /\ managed' = Healthy
          /\ fate' = [fate EXCEPT ![r] = "relayed"]
          /\ Finished("controller") /\ RelayReply(r)
          /\ UNCHANGED <<mailbox, actor, cancelled, query, asked, done, told>>

Relay(r) ==
    /\ fate[r] = "relayed"
    /\ \/ /\ Accepts("meeting")
          /\ mailbox' = [mailbox EXCEPT !["meeting"] =
                            Append(@, [req |-> r, kind |-> "ConnectionJoin"])]
          /\ fate' = [fate EXCEPT ![r] = "forwarded"]
          /\ UNCHANGED answers
       \/ /\ Gone("meeting")
          /\ fate' = [fate EXCEPT ![r] = "dropped"]
          /\ Reply(r, "send_failed")
          /\ UNCHANGED mailbox
    /\ UNCHANGED <<busy, actor, cancelled, managed, query, asked, done, told, monitor>>

\* get_meeting: the controller asks the meeting and waits, with its own callers behind it.
GetMeeting ==
    LET r == busy["controller"].req IN
    /\ Holding("GetMeeting") /\ query = "none"
    /\ \/ NotFound(r)
       \/ /\ managed /\ query' = "sending"
          /\ UNCHANGED <<mailbox, busy, actor, cancelled, managed, asked, fate, answers, done, told, monitor>>

QuerySend ==
    /\ query = "sending" /\ actor["controller"] = "running"
    /\ \/ /\ Accepts("meeting")
          /\ mailbox' = [mailbox EXCEPT !["meeting"] =
                Append(@, [req |-> busy["controller"].req, kind |-> "GetState"])]
          /\ query' = "queued"
       \/ Gone("meeting") /\ query' = "failed" /\ UNCHANGED mailbox
    /\ UNCHANGED <<busy, actor, cancelled, managed, asked, fate, answers, done, told, monitor>>

\* A meeting that does not answer is described with zeros ("cached info").
QueryAnswer(outcome) == IF outcome = "answered" THEN "ok" ELSE "zeros"

QueryDone ==
    LET r == busy["controller"].req IN
    /\ query \in {"answered", "failed"} /\ actor["controller"] = "running"
    /\ query' = "none" /\ managed' = Healthy
    /\ Finished("controller")
    /\ done' = [done EXCEPT ![r] = @ + 1]
    /\ fate' = [fate EXCEPT ![r] = "handled"]
    /\ Reply(r, QueryAnswer(query))
    /\ UNCHANGED <<mailbox, actor, cancelled, asked, told>>

-----------------------------------------------------------------------------
(* The end of an actor. *)

\* select! sees the cancelled token: graceful_shutdown or graceful_close.
CanStop(a) == actor[a] = "running" /\ busy[a] = NoMail /\ cancelled[a]
Stop(a) ==
    /\ CanStop(a)
    /\ actor' = [actor EXCEPT ![a] = "closing"]
    /\ cancelled' = Cancelled(a)
    /\ managed' = (managed /\ a # "controller")
    /\ UNCHANGED <<mailbox, busy, query, asked, fate, answers, done, told, monitor>>

\* The mailbox is dropped with the replies it owes; more than `lost` is not.
Drop(a, lost) ==
    /\ mailbox' = [mailbox EXCEPT ![a] = <<>>]
    /\ busy' = [busy EXCEPT ![a] = NoMail]
    /\ fate' = [r \in Request |-> IF r \in lost THEN "dropped" ELSE fate[r]]
    /\ answers' = [r \in Request |->
                    IF r \in lost /\ answers[r] = "pending"
                    THEN Refusal(a, "receive_failed") ELSE answers[r]]

\* The requests among them; a GetState is the controller's.
Waiting(a, mails) ==
    {r \in Request : \E m \in mails : m.req = r /\ ~(a = "meeting" /\ asked[r] = "GetMeeting")}

Queued(a) == {mailbox[a][i] : i \in DOMAIN mailbox[a]}

\* Mutant: the query keeps waiting for a meeting that is gone.
QueryUnnoticed(a, mails) == query
QueryLost(a, mails) ==
    IF a = "meeting" /\ query = "queued" /\ \E m \in mails : asked[m.req] = "GetMeeting"
    THEN "failed"
    ELSE query

\* The children have ended, or their time limit is over: run() returns.  A participant
\* first awaits a slot in the meeting's mailbox for its notice, and reads nothing meanwhile.
CanEnd(a) == actor[a] = "closing" /\ (a = "participant" => SendEnds("meeting"))
Ended(a) ==
    /\ CanEnd(a)
    /\ told' = [b \in Actor |-> CASE b = a -> 0
                                  [] b = "meeting" /\ a = "participant" /\ ~Gone(b) -> told[b] + 1
                                  [] OTHER -> told[b]]
    /\ actor' = [actor EXCEPT ![a] = "stopped"]
    /\ Drop(a, Waiting(a, Queued(a)))
    /\ query' = QueryLost(a, Queued(a))
    /\ UNCHANGED <<cancelled, managed, asked, done, monitor>>

\* A panic in a handler, before or after it has done its work, ends the task.
Panic(a) ==
    LET m == busy[a]  all == Queued(a) \cup {m} IN
    /\ m # NoMail
    /\ actor' = [actor EXCEPT ![a] = "panicked"]
    /\ Drop(a, Waiting(a, all))
    /\ query' = IF a = "controller" THEN "none" ELSE QueryLost(a, all)
    /\ told' = [told EXCEPT ![a] = 0]
    /\ done' \in {done, [done EXCEPT ![m.req] = IF a = "meeting" /\ asked[m.req] = "GetMeeting"
                                                THEN @ ELSE 1]}
    /\ UNCHANGED <<cancelled, managed, asked, monitor>>

-----------------------------------------------------------------------------
CallsStep ==
    \/ \E a \in Actor : Receive(a) \/ Hear(a) \/ Handle(a) \/ Stop(a) \/ Ended(a)
    \/ \E r \in Request : Send(r) \/ Relay(r)
    \/ RemoveMeeting \/ JoinConnection \/ GetMeeting \/ QuerySend \/ QueryDone

CallsNext ==
    \/ CallsStep
    \/ \E r \in Request : Abandon(r) \/ \E kind \in Asked : Ask(r, kind)
    \/ \E a \in Actor : Panic(a)

-----------------------------------------------------------------------------
(* Properties. *)

\* Variables hold values of their types.
CallsTypeOK ==
    /\ mailbox \in [Actor -> Seq(Mail)] /\ told \in [Actor -> Nat]
    /\ \A a \in Actor : Len(mailbox[a]) + told[a] <= Room
    /\ busy \in [Actor -> Mail \cup {NoMail}]
    /\ actor \in [Actor -> {"running", "closing", "stopped", "panicked"}]
    /\ cancelled \in [Actor -> BOOLEAN] /\ managed \in BOOLEAN
    /\ query \in {"none", "sending", "queued", "answered", "failed"}
    /\ fate \in [Request -> Fates] /\ answers \in [Request -> Answers]

\* A reply means that the actor has done what was asked, once; an error that it has not,
\* unless it panicked on the way; a caller never waits for what is over.
AnswersTrue ==
    \A r \in Request :
        /\ done[r] <= 1
        /\ answers[r] = "ok" /\ asked[r] \notin Tell => fate[r] = "handled" /\ done[r] = 1
        /\ answers[r] = "send_failed" => fate[r] = "dropped" /\ done[r] = 0
        /\ answers[r] = "receive_failed" =>
              /\ fate[r] = "dropped"
              /\ done[r] = 0 \/ \E a \in {Receiver(asked[r]), "meeting"} : actor[a] = "panicked"
        /\ fate[r] \in {"handled", "dropped"} => answers[r] # "pending"

\* The answers made up for a meeting or a session manager that does not answer are given
\* only when it is no more: zeros, and the media handler's empty values.
MadeUpOnlyWhenGone ==
    \A r \in Request :
        /\ answers[r] = "zeros" => Gone("meeting")
        /\ answers[r] = "not_found" => cancelled["meeting"] \/ Gone("meeting")
        /\ answers[r] = "default" => actor["session"] = "panicked"

\* The monitor of a loop counts the message in hand: its depth is 1 from recv to the end
\* of the handler and 0 otherwise, whatever the mailbox holds.
DepthInHand ==
    \A a \in Actor \ {"session"} :
        /\ monitor[a].depth = IF busy[a] # NoMail \/ actor[a] = "panicked" THEN 1 ELSE 0
        /\ monitor[a].peak = IF monitor[a].depth + monitor[a].processed > 0 THEN 1 ELSE 0

\* Some step of CallsStep can be taken: the guards of its actions, whose other conjuncts
\* only say what becomes of the variables.
CanStep ==
    \/ \E a \in Actor : CanReceive(a) \/ CanHear(a) \/ CanHandle(a) \/ CanStop(a) \/ CanEnd(a)
    \/ \E r \in Request : \/ fate[r] = "sending" /\ SendEnds(Receiver(asked[r]))
                          \/ fate[r] = "relayed" /\ SendEnds("meeting")
    \/ Holding("RemoveMeeting") \/ Holding("JoinConnection") \/ (Holding("GetMeeting") /\ query = "none")
    \/ actor["controller"] = "running" /\ query = "sending" /\ SendEnds("meeting")
    \/ actor["controller"] = "running" /\ query \in {"answered", "failed"}

\* The meeting awaits a slot of the participant, which has stopped reading and awaits one
\* of the meeting (see Mailboxes, where ADR-0001's "No deadlocks" fails for the same reason).
CircularWait ==
    /\ busy["meeting"] # NoMail /\ Broadcasts("meeting") /\ ~SendEnds("participant")
    /\ actor["participant"] = "closing" /\ ~SendEnds("meeting")

\* While a call waits, some task can go on, or the meeting and a participant wait for each
\* other: nobody else does, and a message left by an actor that ended is answered.  A step
\* of CallsStep moves a message towards its end or ends an actor, so there are finitely
\* many and every call returns unless they meet that circle.
NobodyStuck == (\E r \in Request : answers[r] = "pending") => CanStep \/ CircularWait

\* What the handles of the actors promise (see the parts above).
CallsCorrect ==
    CallsTypeOK /\ AnswersTrue /\ MadeUpOnlyWhenGone /\ DepthInHand /\ NobodyStuck

=============================================================================
