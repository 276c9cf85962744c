----------------------------- MODULE Assignment -----------------------------
(***************************************************************************)
(* How global controllers place one meeting on meeting controllers (MCs):  *)
(* the tables meeting_controllers and meeting_assignments, the requests of *)
(* assign_meeting_with_mh that several GC instances run at once, the       *)
(* registrations and heartbeats of the MCs, the health checker and the     *)
(* clean-up task.                                                          *)
(*                                                                         *)
(* Every SQL statement is one step.  A request takes one step for each of  *)
(* its statements and for its call of an MC, and anything may happen       *)
(* between two of them.  The instant a row was written is abstracted to    *)
(* what the queries ask of it.                                             *)
(***************************************************************************)
EXTENDS Naturals, FiniteSets

CONSTANTS
    Mc,         \* meeting controllers
    Region,     \* deployment regions
    RegionOf,   \* the region each MC registers in
    Task,       \* requests to place the meeting
    None,       \* a missing row, or no MC
    Staleness,  \* DEFAULT_HEARTBEAT_STALENESS_SECONDS, in ticks
    Retries,    \* MAX_MC_ASSIGNMENT_RETRIES
    Reports     \* what heartbeats say: health, and current_meetings = max_meetings

Health == {"pending", "healthy", "degraded", "unhealthy", "draining"}
McRow  == [health: Health, age: Nat, full: BOOLEAN]
\* again: assigned anew with ended_at left as it was
Row    == [mc: Mc, old: BOOLEAN, ended: {"no", "recent", "old"}, again: BOOLEAN]

ASSUME AssignmentAssumption ==
    /\ RegionOf \in [Mc -> Region]
    /\ Staleness \in Nat /\ Retries \in Nat
    /\ Reports \subseteq [health: Health, full: BOOLEAN]
    /\ None \notin Mc /\ None \notin McRow /\ None \notin Row

VARIABLES
    mcRow,     \* meeting_controllers: health, age of the heartbeat, load
    row,       \* meeting_assignments of the meeting: one row per region
    task,      \* where each request is, and the MC it is about
    hosting,   \* MCs that run the meeting
    accepted,  \* history: MCs that have accepted the meeting
    void,      \* history: requests whose MC was not live all the time since, or
               \*   whose assignment ended and was purged in due time
    purged     \* history: answered requests whose assignment was purged too early

vars == <<mcRow, row, task, hosting, accepted, void, purged>>

Pc == {"idle", "found", "selecting", "choosing", "calling", "accepted", "reading",
       "done", "failed"}
TaskState == [pc: Pc, region: Region, mc: Mc \cup {None}, tried: SUBSET Mc]

TypeOK ==
    /\ mcRow \in [Mc -> McRow \cup {None}]
    /\ row   \in [Region -> Row \cup {None}]
    /\ task  \in [Task -> TaskState]
    /\ hosting \subseteq Mc
    /\ accepted \subseteq Mc
    /\ void \subseteq Task
    /\ purged \subseteq Task

Init ==
    /\ mcRow = [m \in Mc |-> None]
    /\ row = [r \in Region |-> None]
    /\ task \in [Task -> {[pc |-> "idle", region |-> r, mc |-> None, tried |-> {}] : r \in Region}]
    /\ hosting = {}
    /\ accepted = {}
    /\ void = {}
    /\ purged = {}

-----------------------------------------------------------------------------
(* The conditions of the queries. *)

Healthy(m) == mcRow[m] # None /\ mcRow[m].health = "healthy"
\* last_heartbeat_at > NOW() - 30 s
Fresh(m) == Healthy(m) /\ mcRow[m].age < Staleness
\* Mutant: an MC on the brink of going stale is replaced.
ReplaceableEarly(m) == mcRow[m] # None /\ ~Fresh(m)
\* The sub-query of atomic_assign: not healthy, or last_heartbeat_at < NOW() - 30 s.
Replaceable(m) ==
    mcRow[m] # None /\ (mcRow[m].health # "healthy" \/ mcRow[m].age > Staleness)

\* get_candidate_mcs: at most 5 rows, and weighted_random_select may take any.
Candidate(r) == {m \in Mc : RegionOf[m] = r /\ Fresh(m) /\ ~mcRow[m].full}

Active(r) == row[r] # None /\ row[r].ended = "no"

-----------------------------------------------------------------------------
(* Meeting controllers, as the GC sees them. *)

\* Healthy, with a heartbeat that is not past the threshold.
Live(m) == Healthy(m) /\ mcRow[m].age <= Staleness

\* History: a request about an MC that lapses no longer counts on it.
NoteLapses ==
    /\ UNCHANGED <<row, task, hosting, accepted, purged>>
    /\ void' = void \cup {t \in Task : task[t].mc # None /\ ~Live(task[t].mc)'}

\* register_mc: an upsert that leaves current_meetings alone.
RegisterMc(m) ==
    /\ mcRow' = [mcRow EXCEPT ![m] =
            [health |-> "pending", age |-> 0, full |-> IF @ = None THEN FALSE ELSE @.full]]
    /\ NoteLapses

\* update_heartbeat, for both kinds of heartbeat; an unknown MC is told so.
UpdateHeartbeat(m, rep) ==
    /\ mcRow[m] # None
    /\ mcRow' = [mcRow EXCEPT ![m] = [health |-> rep.health, age |-> 0, full |-> rep.full]]
    /\ NoteLapses

\* Time passes: an age matters up to the first tick past the threshold.
Tick ==
    /\ mcRow' = [m \in Mc |->
            IF mcRow[m] = None \/ mcRow[m].age > Staleness THEN mcRow[m]
            ELSE [mcRow[m] EXCEPT !.age = @ + 1]]
    /\ NoteLapses

\* The health checker's mark_stale_controllers_unhealthy.
MarkStaleControllersUnhealthy ==
    /\ mcRow' = [m \in Mc |->
            IF /\ mcRow[m] # None
               /\ mcRow[m].age > Staleness
               /\ mcRow[m].health \notin {"unhealthy", "draining"}
            THEN [mcRow[m] EXCEPT !.health = "unhealthy"] ELSE mcRow[m]]
    /\ NoteLapses

\* The meeting leaves an MC: it was removed there, or the process ended.
LeaveMc(m) ==
    /\ m \in hosting
    /\ hosting' = hosting \ {m}
    /\ UNCHANGED <<mcRow, row, task, accepted, void, purged>>

-----------------------------------------------------------------------------
(* assign_meeting_with_mh. *)

\* The request goes on at pc, about MC m, with the MCs of S tried.
Move(t, pc, m, S) ==
    task' = [task EXCEPT ![t] = [pc |-> pc, region |-> @.region, mc |-> m, tried |-> S]]
About(t, pc, m) == Move(t, pc, m, task[t].tried)
Goto(t, pc) == About(t, pc, task[t].mc)

\* Step 1, get_healthy_assignment: the existing assignment if its MC is healthy.
FindExisting(t) ==
    /\ task[t].pc = "idle"
    /\ LET r == task[t].region IN
        IF Active(r) /\ Fresh(row[r].mc)
        THEN About(t, "found", row[r].mc)
        ELSE Goto(t, "selecting")
    /\ void' = void \ {t}
    /\ UNCHANGED <<mcRow, row, hosting, accepted, purged>>

\* Step 2, select_mhs_for_meeting has chosen media handlers.
SelectMhs(t) ==
    /\ \/ task[t].pc = "found"     /\ Goto(t, "done")
       \/ task[t].pc = "selecting" /\ Goto(t, "choosing")
    /\ UNCHANGED <<mcRow, row, hosting, accepted, void, purged>>

\* Step 3: a candidate that was not tried yet, if the attempts are not used up.
ChooseMc(t, m) ==
    /\ task[t].pc = "choosing"
    /\ Cardinality(task[t].tried) < Retries
    /\ m \in Candidate(task[t].region) \ task[t].tried
    /\ About(t, "calling", m)
    /\ void' = void \ {t}
    /\ UNCHANGED <<mcRow, row, hosting, accepted, purged>>

\* ServiceUnavailable: no candidate is left, or no attempt.
GiveUp(t) ==
    /\ task[t].pc = "choosing"
    /\ Cardinality(task[t].tried) < Retries =>
            Candidate(task[t].region) \ task[t].tried = {}
    /\ About(t, "failed", None)
    /\ UNCHANGED <<mcRow, row, hosting, accepted, void, purged>>

\* Mutant: the assignment is written before the MC has answered.
McAcceptsUnasked(t) ==
    /\ task[t].pc = "calling"
    /\ task[t].mc \notin hosting
    /\ Goto(t, "accepted")
    /\ UNCHANGED <<mcRow, row, hosting, accepted, void, purged>>
\* Step 4: the MC creates the meeting, and the answer arrives.
McAccepts(t) ==
    /\ task[t].pc = "calling"
    /\ task[t].mc \notin hosting
    /\ hosting' = hosting \cup {task[t].mc}
    /\ accepted' = accepted \cup {task[t].mc}
    /\ Goto(t, "accepted")
    /\ UNCHANGED <<mcRow, row, void, purged>>

\* Mutant: an MC that refused is tried again.
RetryForgets(t) == About(t, "choosing", None)
\* The MC is not tried again by this request.
Retry(t) == Move(t, "choosing", None, task[t].tried \cup {task[t].mc})

\* Step 4: the MC refuses (capacity, draining, its store, or it runs the meeting
\* already), or the call fails before it reaches the MC.
McRejects(t) ==
    /\ task[t].pc = "calling"
    /\ Retry(t)
    /\ UNCHANGED <<mcRow, row, hosting, accepted, void, purged>>

\* Step 4: the MC creates the meeting, and the answer is lost or too late.
McReplyLost(t) ==
    /\ task[t].pc = "calling"
    /\ task[t].mc \notin hosting
    /\ hosting' = hosting \cup {task[t].mc}
    /\ accepted' = accepted \cup {task[t].mc}
    /\ Retry(t)
    /\ UNCHANGED <<mcRow, row, void, purged>>

\* Step 5, atomic_assign: insert, or replace an MC that is not live (ended_at is
\* not touched); otherwise someone else's assignment stands and is read next.
AtomicAssign(t) ==
    /\ task[t].pc = "accepted"
    /\ LET r == task[t].region
           m == task[t].mc
       IN  \/ /\ row[r] = None
              /\ row' = [row EXCEPT ![r] = [mc |-> m, old |-> FALSE, ended |-> "no", again |-> FALSE]]
              /\ Goto(t, "done")
              /\ UNCHANGED void
           \/ /\ row[r] # None /\ Replaceable(row[r].mc)
              /\ row' = [row EXCEPT ![r] = [mc |-> m, old |-> FALSE, ended |-> @.ended,
                                               again |-> @.ended # "no"]]
              /\ Goto(t, "done")
              /\ UNCHANGED void
           \/ /\ row[r] # None /\ ~Replaceable(row[r].mc)
              /\ Goto(t, "reading")
              /\ UNCHANGED <<row, void>>
    /\ UNCHANGED <<mcRow, hosting, accepted, purged>>

\* get_current_assignment: the winner's MC, healthy or not; none is an error.
GetCurrentAssignment(t) ==
    /\ task[t].pc = "reading"
    /\ LET r == task[t].region IN
        IF Active(r)
        THEN /\ About(t, "done", row[r].mc)
             /\ void' = IF Live(row[r].mc) THEN void \ {t} ELSE void \cup {t}
        ELSE /\ About(t, "failed", None)
             /\ UNCHANGED void
    /\ UNCHANGED <<mcRow, row, hosting, accepted, purged>>

\* A statement fails, there is no media handler, or the 30 s of the HTTP request
\* are over: the request ends where it is.
Fail(t) ==
    /\ task[t].pc \notin {"idle", "done", "failed"}
    /\ About(t, "failed", None)
    /\ UNCHANGED <<mcRow, row, hosting, accepted, void, purged>>

\* The request's memory is released; a client asks again.
Release(t, r) ==
    /\ task[t].pc \in {"done", "failed"}
    /\ task' = [task EXCEPT ![t] = [pc |-> "idle", region |-> r, mc |-> None, tried |-> {}]]
    /\ void' = void \ {t} /\ purged' = purged \ {t}
    /\ UNCHANGED <<mcRow, row, hosting, accepted>>

-----------------------------------------------------------------------------
(* The end of assignments. *)

\* notify_meeting_ended: end_assignment for the region, whoever sent it.
NotifyMeetingEnded(r) ==
    /\ Active(r)
    /\ row' = [row EXCEPT ![r].ended = "recent"]
    /\ UNCHANGED <<mcRow, task, hosting, accepted, void, purged>>

\* assigned_at is more than inactivity_hours ago.
AssignmentAges(r) ==
    /\ row[r] # None
    /\ row' = [row EXCEPT ![r].old = TRUE]
    /\ UNCHANGED <<mcRow, task, hosting, accepted, void, purged>>

\* ended_at is more than retention_days ago.
EndingAges(r) ==
    /\ row[r] # None /\ row[r].ended = "recent"
    /\ row' = [row EXCEPT ![r].ended = "old"]
    /\ UNCHANGED <<mcRow, task, hosting, accepted, void, purged>>

\* end_stale_assignments: every row of a meeting that has a stale one, ended or
\* not, gets a new ended_at.
EndStaleAssignments ==
    /\ \E r \in Region : /\ Active(r) /\ row[r].old
                         /\ mcRow[row[r].mc] # None /\ ~Healthy(row[r].mc)
    /\ row' = [r \in Region |-> IF row[r] = None THEN None
                                ELSE [row[r] EXCEPT !.ended = "recent", !.again = FALSE]]
    /\ UNCHANGED <<mcRow, task, hosting, accepted, void, purged>>

Answered(t) == task[t].pc \in {"found", "done"}
\* The assignment of the row, and not an earlier one of the meeting, ended long ago.
Due(r) == row[r] # None /\ row[r].ended = "old" /\ ~row[r].again

\* cleanup_old_assignments: every row of a meeting that has an old ended one, those of
\* other regions and those assigned anew since included.
CleanupOldAssignments ==
    /\ \E r \in Region : row[r] # None /\ row[r].ended = "old"
    /\ row' = [r \in Region |-> None]
    /\ void' = void \cup {t \in Task : Answered(t) /\ Due(task[t].region)}
    /\ purged' = purged \cup {t \in Task \ void : Answered(t) /\ ~Due(task[t].region)}
    /\ UNCHANGED <<mcRow, task, hosting, accepted>>

-----------------------------------------------------------------------------
TaskStep(t) ==
    \/ FindExisting(t)
    \/ SelectMhs(t)
    \/ \E m \in Mc : ChooseMc(t, m)
    \/ GiveUp(t)
    \/ McAccepts(t)
    \/ McRejects(t)
    \/ McReplyLost(t)
    \/ AtomicAssign(t)
    \/ GetCurrentAssignment(t)
    \/ Fail(t)

Next ==
    \/ \E m \in Mc : RegisterMc(m) \/ LeaveMc(m)
    \/ \E m \in Mc, rep \in Reports : UpdateHeartbeat(m, rep)
    \/ Tick
    \/ MarkStaleControllersUnhealthy
    \/ \E t \in Task : TaskStep(t) \/ \E r \in Region : Release(t, r)
    \/ \E r \in Region : NotifyMeetingEnded(r) \/ AssignmentAges(r) \/ EndingAges(r)
    \/ EndStaleAssignments
    \/ CleanupOldAssignments

Spec == Init /\ [][Next]_vars

-----------------------------------------------------------------------------
(* Properties. *)

\* A request that has been answered with an MC that was live all the time since, and
\* whose assignment no purge has taken.
Stands(t) == Answered(t) /\ t \notin void /\ t \notin purged

\* An answer that stands is what the table says.
AnswersStand ==
    \A t \in Task : Stands(t) => /\ row[task[t].region] # None
                                 /\ row[task[t].region].mc = task[t].mc

\* All the clients of a region are sent to one MC, whichever GC they asked and
\* however their requests raced, as long as that MC is live and the clean-up task has
\* not purged the meeting.
OneController ==
    \A s, t \in Task : (Stands(s) /\ Stands(t) /\ task[s].region = task[t].region)
                            => task[s].mc = task[t].mc

\* A client is only ever sent to an MC of its region that accepted the meeting.
AnswersAccepted ==
    \A t \in Task : task[t].pc \in {"found", "done"} =>
                        task[t].mc \in accepted /\ RegionOf[task[t].mc] = task[t].region

\* Whatever races, a client is sent to an MC of its region that accepted the meeting and
\* that the table names for as long as the MC is live and the clean-up task does not
\* purge the meeting (which it may do too early: see PurgesEnded).
AnswersHold == AnswersStand /\ AnswersAccepted

\* "Hard-deletes old ended assignments" (tasks/assignment_cleanup.rs): no assignment that
\* a client was given is purged unless it has itself ended long ago.  It is not so: the
\* row of a meeting that was assigned anew keeps the ended_at of the assignment before.
PurgesEnded == purged = {}

\* What is left of a request: the attempts it may still make, and the steps of
\* the one it is in.
Stage == [idle |-> 6, found |-> 5, selecting |-> 5, choosing |-> 4, calling |-> 3,
          accepted |-> 2, reading |-> 1, done |-> 0, failed |-> 0]
Left(t) == 4 * (Retries - Cardinality(task[t].tried)) + Stage[task[t].pc]

\* A request ends: whatever the MCs answer and the others do, each of its steps
\* leaves less to do, until it is done or failed and a client asks anew.
RequestsEnd ==
    [][\A t \in Task :
            task'[t] # task[t] =>
                \/ Left(t)' \in 0..(Left(t) - 1)
                \/ task[t].pc \in {"done", "failed"} /\ task'[t].pc = "idle"]_vars
=============================================================================
