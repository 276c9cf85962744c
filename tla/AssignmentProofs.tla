-------------------------- MODULE AssignmentProofs --------------------------
(***************************************************************************)
(* For any number of controllers, regions and requests: requests that were *)
(* answered agree, as long as the controller they were given stays live    *)
(* and the clean-up task does not purge the meeting.                       *)
(*                                                                         *)
(* An answer is protected by the WHERE clause of atomic_assign only while  *)
(* its MC is live, and an answer may be chosen long before it is written:  *)
(* the induction follows, for every request, the MC it is about from the   *)
(* moment it is chosen (CountsOnLive), and the rows (RowsSound).           *)
(***************************************************************************)
EXTENDS Assignment, FiniteSetTheorems, TLAPS

\* Every row names a registered MC of its region that accepted the meeting.
RowsSound ==
    \A r \in Region : row[r] # None =>
        /\ mcRow[row[r].mc] # None
        /\ row[r].mc \in accepted
        /\ RegionOf[row[r].mc] = r

\* What a request knows of the MC it is about.
TasksSound ==
    \A t \in Task :
        /\ task[t].pc \in {"found", "calling", "accepted", "done"} =>
              task[t].mc # None /\ RegionOf[task[t].mc] = task[t].region
        /\ task[t].pc \in {"found", "accepted", "done"} => task[t].mc \in accepted
        /\ task[t].mc # None => mcRow[task[t].mc] # None
        /\ task[t].pc = "idle" => task[t].mc = None

\* An MC that a request counts on is live.
CountsOnLive ==
    \A t \in Task : (task[t].mc # None /\ t \notin void) => Live(task[t].mc)

IInv == TypeOK /\ RowsSound /\ TasksSound /\ CountsOnLive /\ AnswersStand

\* A request that is sure of its MC never counts on one that may be replaced.
LEMMA LiveNotReplaceable ==
    ASSUME TypeOK, NEW m \in Mc, Live(m)
    PROVE  ~Replaceable(m)
  BY AssignmentAssumption DEF TypeOK, Live, Healthy, Replaceable, McRow

\* A fresh MC is live.
LEMMA FreshIsLive ==
    ASSUME TypeOK, NEW m \in Mc, Fresh(m)
    PROVE  Live(m) /\ mcRow[m] # None
  BY AssignmentAssumption DEF TypeOK, Live, Healthy, Fresh, McRow

\* The steps that change only meeting_controllers: no row goes, and what lapses
\* is noted.
LEMMA ControllersStep ==
    ASSUME IInv, NoteLapses,
           mcRow' \in [Mc -> McRow \cup {None}],
           \A m \in Mc : mcRow[m] # None => mcRow'[m] # None
    PROVE  IInv'
<1> USE AssignmentAssumption
<1>1. TypeOK' BY DEF IInv, TypeOK, NoteLapses
<1>2. RowsSound' BY DEF IInv, TypeOK, RowsSound, NoteLapses, Row
<1>3. TasksSound' BY DEF IInv, TypeOK, TasksSound, NoteLapses, TaskState
<1>4. CountsOnLive'
  <2> SUFFICES ASSUME NEW t \in Task, task'[t].mc # None, t \notin void'
               PROVE  Live(task[t].mc)'
    BY DEF CountsOnLive, Live, Healthy, NoteLapses
  <2> QED BY DEF NoteLapses, Live, Healthy
<1>5. AnswersStand' BY DEF IInv, AnswersStand, Stands, Answered, NoteLapses
<1> QED BY <1>1, <1>2, <1>3, <1>4, <1>5 DEF IInv

\* A request moves: the others stay where they are.
LEMMA MoveFacts ==
    ASSUME TypeOK, NEW t \in Task, NEW pc \in Pc, NEW m \in Mc \cup {None},
           NEW S \in SUBSET Mc, Move(t, pc, m, S)
    PROVE  /\ task' \in [Task -> TaskState]
           /\ task'[t].pc = pc /\ task'[t].mc = m /\ task'[t].region = task[t].region
           /\ task'[t].tried = S
           /\ \A s \in Task \ {t} : task'[s] = task[s]
<1>1. [pc |-> pc, region |-> task[t].region, mc |-> m, tried |-> S] \in TaskState
  BY DEF TypeOK, TaskState
<1> QED BY <1>1 DEF TypeOK, Move

LEMMA InitHolds == Init => IInv
  BY AssignmentAssumption
  DEF Init, IInv, TypeOK, RowsSound, TasksSound, CountsOnLive, AnswersStand, Stands, Answered, TaskState, Pc

\* Registrations, heartbeats, the clock and the health checker.
LEMMA ControllerActions ==
    ASSUME IInv,
           \/ \E m \in Mc : RegisterMc(m)
           \/ \E m \in Mc, rep \in Reports : UpdateHeartbeat(m, rep)
           \/ Tick
           \/ MarkStaleControllersUnhealthy
    PROVE  IInv'
<1> USE AssignmentAssumption
<1>1. ASSUME NEW m \in Mc, RegisterMc(m) PROVE IInv'
  <2>1. [health |-> "pending", age |-> 0,
         full |-> IF mcRow[m] = None THEN FALSE ELSE mcRow[m].full] \in McRow
    BY DEF IInv, TypeOK, McRow, Health
  <2>2. mcRow' \in [Mc -> McRow \cup {None}] /\ \A n \in Mc : mcRow[n] # None => mcRow'[n] # None
    BY <1>1, <2>1 DEF IInv, TypeOK, RegisterMc
  <2> QED BY <1>1, <2>2, ControllersStep DEF RegisterMc
<1>2. ASSUME NEW m \in Mc, NEW rep \in Reports, UpdateHeartbeat(m, rep) PROVE IInv'
  <2>1. [health |-> rep.health, age |-> 0, full |-> rep.full] \in McRow
    BY DEF McRow, Health
  <2>2. mcRow' \in [Mc -> McRow \cup {None}] /\ \A n \in Mc : mcRow[n] # None => mcRow'[n] # None
    BY <1>2, <2>1 DEF IInv, TypeOK, UpdateHeartbeat
  <2> QED BY <1>2, <2>2, ControllersStep DEF UpdateHeartbeat
<1>3. CASE Tick
  <2>1. \A x \in McRow : [x EXCEPT !.age = x.age + 1] \in McRow
    BY DEF McRow
  <2>2. mcRow' \in [Mc -> McRow \cup {None}] /\ \A n \in Mc : mcRow[n] # None => mcRow'[n] # None
    BY <1>3, <2>1 DEF IInv, TypeOK, Tick
  <2> QED BY <1>3, <2>2, ControllersStep DEF Tick
<1>4. CASE MarkStaleControllersUnhealthy
  <2>1. \A x \in McRow : [x EXCEPT !.health = "unhealthy"] \in McRow
    BY DEF McRow, Health
  <2>2. mcRow' \in [Mc -> McRow \cup {None}] /\ \A n \in Mc : mcRow[n] # None => mcRow'[n] # None
    BY <1>4, <2>1 DEF IInv, TypeOK, MarkStaleControllersUnhealthy
  <2> QED BY <1>4, <2>2, ControllersStep DEF MarkStaleControllersUnhealthy
<1> QED BY <1>1, <1>2, <1>3, <1>4

\* A request moves and no row changes: what must be known of its new state.
LEMMA RequestStep ==
    ASSUME IInv, NEW t \in Task, NEW pc \in Pc, NEW m \in Mc \cup {None},
           NEW S \in SUBSET Mc, Move(t, pc, m, S), pc # "idle",
           mcRow' = mcRow, row' = row, purged' = purged,
           hosting' \subseteq Mc, accepted' \subseteq Mc, accepted \subseteq accepted',
           void' \subseteq Task, \A s \in Task \ {t} : s \in void' <=> s \in void,
           pc \in {"found", "calling", "accepted", "done"} =>
               m # None /\ RegionOf[m] = task[t].region,
           pc \in {"found", "accepted", "done"} => m \in accepted',
           m # None => mcRow[m] # None,
           (m # None /\ t \notin void') => Live(m),
           (pc \in {"found", "done"} /\ t \notin void' /\ t \notin purged) =>
               row[task[t].region] # None /\ row[task[t].region].mc = m
    PROVE  IInv'
<1> USE AssignmentAssumption
<1>0. /\ task' \in [Task -> TaskState]
      /\ task'[t].pc = pc /\ task'[t].mc = m /\ task'[t].region = task[t].region
      /\ \A s \in Task \ {t} : task'[s] = task[s]
  BY MoveFacts DEF IInv
<1>1. TypeOK' BY <1>0 DEF IInv, TypeOK
<1>2. RowsSound' BY DEF IInv, RowsSound
<1>3. TasksSound' BY <1>0 DEF IInv, TasksSound
<1>4. CountsOnLive'
  <2> SUFFICES ASSUME NEW s \in Task, task'[s].mc # None, s \notin void'
               PROVE  Live(task'[s].mc)
    BY DEF CountsOnLive, Live, Healthy
  <2> QED BY <1>0 DEF IInv, CountsOnLive
<1>5. AnswersStand' BY <1>0 DEF IInv, AnswersStand, Stands, Answered
<1> QED BY <1>1, <1>2, <1>3, <1>4, <1>5 DEF IInv

\* The steps of a request that write no assignment.
LEMMA RequestActions ==
    ASSUME IInv, NEW t \in Task,
           \/ FindExisting(t) \/ SelectMhs(t) \/ GiveUp(t) \/ Fail(t)
           \/ \E m \in Mc : ChooseMc(t, m)
           \/ McAccepts(t) \/ McRejects(t) \/ McReplyLost(t)
           \/ GetCurrentAssignment(t)
    PROVE  IInv'
<1> DEFINE r == task[t].region
<1> USE AssignmentAssumption
<1>0. /\ r \in Region /\ task[t].tried \in SUBSET Mc /\ task[t].mc \in Mc \cup {None}
      /\ row[r] # None => row[r].mc \in Mc
      /\ {"found", "selecting", "choosing", "calling", "accepted", "reading", "done", "failed"} \subseteq Pc
      /\ hosting \subseteq Mc /\ accepted \subseteq Mc /\ void \subseteq Task
  BY DEF IInv, TypeOK, TaskState, Row, Pc
<1>t. /\ task[t].mc # None => mcRow[task[t].mc] # None
      /\ task[t].pc \in {"found", "calling", "accepted", "done"} =>
             task[t].mc # None /\ RegionOf[task[t].mc] = r
      /\ task[t].pc \in {"found", "accepted", "done"} => task[t].mc \in accepted
      /\ (task[t].mc # None /\ t \notin void) => Live(task[t].mc)
  BY DEF IInv, TasksSound, CountsOnLive
<1>r. row[r] # None => /\ mcRow[row[r].mc] # None
                       /\ row[r].mc \in accepted
                       /\ RegionOf[row[r].mc] = r
  BY <1>0 DEF IInv, RowsSound
<1> HIDE DEF r
<1>1. CASE FindExisting(t) /\ Active(r) /\ Fresh(row[r].mc)
  <2>1. Move(t, "found", row[r].mc, task[t].tried) BY <1>1 DEF FindExisting, About, r
  <2>2. Live(row[r].mc) BY <1>0, <1>1, FreshIsLive DEF Active, IInv
  <2> QED BY <1>0, <1>1, <1>r, <2>1, <2>2, RequestStep DEF FindExisting, Active, r
<1>2. CASE FindExisting(t) /\ ~(Active(r) /\ Fresh(row[r].mc))
  <2>1. Move(t, "selecting", task[t].mc, task[t].tried) BY <1>2 DEF FindExisting, Goto, About, r
  <2>2. task[t].mc = None BY <1>2 DEF FindExisting, IInv, TasksSound
  <2> QED BY <1>0, <1>2, <2>1, <2>2, RequestStep DEF FindExisting, r
<1>3. CASE SelectMhs(t)
  <2>1. CASE task[t].pc = "found"
    <3>1. Move(t, "done", task[t].mc, task[t].tried) BY <1>3, <2>1 DEF SelectMhs, Goto, About
    <3>2. t \notin void /\ t \notin purged => row[r] # None /\ row[r].mc = task[t].mc
      BY <2>1 DEF IInv, AnswersStand, Stands, Answered, r
    <3> QED BY <1>0, <1>3, <1>t, <2>1, <3>1, <3>2, RequestStep DEF SelectMhs, r
  <2>2. CASE task[t].pc = "selecting"
    <3>1. Move(t, "choosing", task[t].mc, task[t].tried) BY <1>3, <2>2 DEF SelectMhs, Goto, About
    <3> QED BY <1>0, <1>3, <1>t, <2>2, <3>1, RequestStep DEF SelectMhs, r
  <2> QED BY <1>3, <2>1, <2>2 DEF SelectMhs
<1>4. CASE GiveUp(t) \/ Fail(t)
  <2>1. Move(t, "failed", None, task[t].tried) BY <1>4 DEF GiveUp, Fail, About
  <2> QED BY <1>0, <1>4, <2>1, RequestStep DEF GiveUp, Fail
<1>5. ASSUME NEW m \in Mc, ChooseMc(t, m) PROVE IInv'
  <2>1. Move(t, "calling", m, task[t].tried) BY <1>5 DEF ChooseMc, About
  <2>2. RegionOf[m] = r /\ Fresh(m) BY <1>5 DEF ChooseMc, Candidate, r
  <2>3. Live(m) /\ mcRow[m] # None BY <2>2, FreshIsLive DEF IInv
  <2> QED BY <1>0, <1>5, <2>1, <2>2, <2>3, RequestStep DEF ChooseMc, r
<1>6. CASE McAccepts(t)
  <2>1. Move(t, "accepted", task[t].mc, task[t].tried) BY <1>6 DEF McAccepts, Goto, About
  <2> QED BY <1>0, <1>6, <1>t, <2>1, RequestStep DEF McAccepts, r
<1>7. CASE McRejects(t) \/ McReplyLost(t)
  <2> DEFINE S == task[t].tried \cup {task[t].mc}
  <2>1. S \in SUBSET Mc BY <1>0, <1>7, <1>t DEF McRejects, McReplyLost
  <2>2. Move(t, "choosing", None, S) BY <1>7 DEF McRejects, McReplyLost, Retry
  <2>3. hosting' \subseteq Mc /\ accepted' \subseteq Mc /\ accepted \subseteq accepted'
    BY <1>0, <1>7, <1>t DEF McRejects, McReplyLost
  <2> HIDE DEF S
  <2> QED BY <1>0, <1>7, <2>1, <2>2, <2>3, RequestStep DEF McRejects, McReplyLost
<1>8. CASE GetCurrentAssignment(t) /\ Active(r)
  <2>1. Move(t, "done", row[r].mc, task[t].tried) BY <1>8 DEF GetCurrentAssignment, About, r
  <2>2. /\ void' = IF Live(row[r].mc) THEN void \ {t} ELSE void \cup {t}
        /\ mcRow' = mcRow /\ row' = row /\ hosting' = hosting /\ accepted' = accepted
        /\ purged' = purged
    BY <1>8 DEF GetCurrentAssignment, r
  <2>3. row[r] # None BY <1>8 DEF Active
  <2> QED BY <1>0, <1>r, <2>1, <2>2, <2>3, RequestStep DEF r
<1>9. CASE GetCurrentAssignment(t) /\ ~Active(r)
  <2>1. Move(t, "failed", None, task[t].tried) BY <1>9 DEF GetCurrentAssignment, About, r
  <2>2. /\ void' = void /\ mcRow' = mcRow /\ row' = row /\ hosting' = hosting /\ accepted' = accepted
        /\ purged' = purged
    BY <1>9 DEF GetCurrentAssignment, r
  <2> QED BY <1>0, <2>1, <2>2, RequestStep DEF r
<1> QED BY <1>1, <1>2, <1>3, <1>4, <1>5, <1>6, <1>7, <1>8, <1>9

\* A client asks again: the request forgets everything.
LEMMA ReleaseAction ==
    ASSUME IInv, NEW t \in Task, NEW q \in Region, Release(t, q)
    PROVE  IInv'
<1> DEFINE new == [pc |-> "idle", region |-> q, mc |-> None, tried |-> {}]
<1>1. new \in TaskState BY DEF TaskState, Pc
<1>2. /\ task' = [task EXCEPT ![t] = new]
      /\ mcRow' = mcRow /\ row' = row /\ hosting' = hosting /\ accepted' = accepted
      /\ void' = void \ {t} /\ purged' = purged \ {t}
  BY DEF Release
<1>3. new.pc = "idle" /\ new.mc = None OBVIOUS
<1> HIDE DEF new
<1>4. /\ task' \in [Task -> TaskState]
      /\ task'[t] = new
      /\ \A s \in Task \ {t} : task'[s] = task[s]
  BY <1>1, <1>2 DEF IInv, TypeOK
<1>5. TypeOK' BY <1>2, <1>4 DEF IInv, TypeOK
<1>6. RowsSound' BY <1>2 DEF IInv, RowsSound
<1>7. TasksSound' BY <1>2, <1>3, <1>4 DEF IInv, TasksSound
<1>8. CountsOnLive'
  <2> SUFFICES ASSUME NEW s \in Task, task'[s].mc # None, s \notin void'
               PROVE  Live(task'[s].mc)
    BY <1>2 DEF CountsOnLive, Live, Healthy
  <2> QED BY <1>2, <1>3, <1>4 DEF IInv, CountsOnLive
<1>9. AnswersStand' BY <1>2, <1>3, <1>4 DEF IInv, AnswersStand, Stands, Answered
<1> QED BY <1>5, <1>6, <1>7, <1>8, <1>9 DEF IInv

\* atomic_assign: only an MC that no answer counts on is replaced.
LEMMA AtomicAssignAction ==
    ASSUME IInv, NEW t \in Task, AtomicAssign(t)
    PROVE  IInv'
<1> DEFINE r == task[t].region
           m == task[t].mc
<1> USE AssignmentAssumption
<1>0. /\ r \in Region /\ task[t].tried \in SUBSET Mc /\ m \in Mc
      /\ row[r] # None => row[r].mc \in Mc
      /\ {"reading", "done"} \subseteq Pc
      /\ hosting \subseteq Mc /\ accepted \subseteq Mc /\ void \subseteq Task
      /\ task[t].pc = "accepted"
      /\ mcRow' = mcRow /\ hosting' = hosting /\ accepted' = accepted /\ void' = void
      /\ purged' = purged
  BY DEF IInv, TypeOK, TaskState, Row, Pc, TasksSound, AtomicAssign
<1>t. /\ mcRow[m] # None /\ RegionOf[m] = r /\ m \in accepted
      /\ t \notin void => Live(m)
  BY <1>0 DEF IInv, TasksSound, CountsOnLive
<1>a. \/ /\ row[r] = None
         /\ row' = [row EXCEPT ![r] = [mc |-> m, old |-> FALSE, ended |-> "no", again |-> FALSE]]
         /\ Move(t, "done", m, task[t].tried)
      \/ /\ row[r] # None /\ Replaceable(row[r].mc)
         /\ row' = [row EXCEPT ![r] = [mc |-> m, old |-> FALSE, ended |-> row[r].ended, again |-> row[r].ended # "no"]]
         /\ Move(t, "done", m, task[t].tried)
      \/ /\ row' = row
         /\ Move(t, "reading", m, task[t].tried)
  BY DEF AtomicAssign, Goto, About
<1> HIDE DEF r, m
<1>1. CASE row' = row /\ Move(t, "reading", m, task[t].tried)
  BY <1>0, <1>1, <1>t, RequestStep DEF r
<1>2. ASSUME NEW w \in Row, w.mc = m, row' = [row EXCEPT ![r] = w],
             Move(t, "done", m, task[t].tried),
             row[r] = None \/ Replaceable(row[r].mc)
      PROVE  IInv'
  <2>0. /\ task' \in [Task -> TaskState]
        /\ task'[t].pc = "done" /\ task'[t].mc = m /\ task'[t].region = r
        /\ \A s \in Task \ {t} : task'[s] = task[s]
    BY <1>0, <1>2, MoveFacts DEF IInv, r
  <2>r. /\ row' \in [Region -> Row \cup {None}]
        /\ row'[r] = w
        /\ \A q \in Region \ {r} : row'[q] = row[q]
    BY <1>0, <1>2 DEF IInv, TypeOK
  <2>n. w # None OBVIOUS
  <2>1. TypeOK' BY <1>0, <2>0, <2>r DEF IInv, TypeOK
  <2>2. RowsSound' BY <1>0, <1>t, <1>2, <2>r, <2>n DEF IInv, RowsSound
  <2>3. TasksSound' BY <1>0, <1>t, <2>0 DEF IInv, TasksSound
  <2>4. CountsOnLive'
    <3> SUFFICES ASSUME NEW s \in Task, task'[s].mc # None, s \notin void'
                 PROVE  Live(task'[s].mc)
      BY <1>0 DEF CountsOnLive, Live, Healthy
    <3> QED BY <1>0, <1>t, <2>0 DEF IInv, CountsOnLive
  <2>5. ASSUME NEW s \in Task \ {t}, Stands(s) PROVE task[s].region # r
    <3>1. row[task[s].region] # None /\ row[task[s].region].mc = task[s].mc
      BY <2>5 DEF IInv, AnswersStand
    <3>2. task[s].mc \in Mc /\ Live(task[s].mc)
      BY <2>5 DEF IInv, TypeOK, TaskState, TasksSound, CountsOnLive, Stands, Answered
    <3>3. ~Replaceable(task[s].mc) BY <3>2, LiveNotReplaceable DEF IInv
    <3> QED BY <1>2, <3>1, <3>3
  <2>6. AnswersStand'
    <3> SUFFICES ASSUME NEW s \in Task, Stands(s)'
                 PROVE  row'[task'[s].region] # None /\ row'[task'[s].region].mc = task'[s].mc
      BY DEF AnswersStand
    <3>1. CASE s = t BY <1>2, <2>0, <2>r, <2>n, <3>1
    <3>2. CASE s # t
      <4>1. task'[s] = task[s] /\ task[s].region \in Region
        BY <2>0, <3>2 DEF IInv, TypeOK, TaskState
      <4>2. Stands(s) BY <1>0, <4>1 DEF Stands, Answered
      <4>3. task[s].region # r BY <2>5, <3>2, <4>2
      <4>4. row[task[s].region] # None /\ row[task[s].region].mc = task[s].mc
        BY <4>2 DEF IInv, AnswersStand
      <4> QED BY <2>r, <4>1, <4>3, <4>4
    <3> QED BY <3>1, <3>2
  <2> QED BY <2>1, <2>2, <2>3, <2>4, <2>6 DEF IInv
<1>3. CASE row[r] = None /\ row' = [row EXCEPT ![r] = [mc |-> m, old |-> FALSE, ended |-> "no", again |-> FALSE]]
           /\ Move(t, "done", m, task[t].tried)
  <2>1. [mc |-> m, old |-> FALSE, ended |-> "no", again |-> FALSE] \in Row BY <1>0 DEF Row
  <2> QED BY <1>2, <1>3, <2>1
<1>4. CASE /\ row[r] # None /\ Replaceable(row[r].mc)
           /\ row' = [row EXCEPT ![r] = [mc |-> m, old |-> FALSE, ended |-> row[r].ended, again |-> row[r].ended # "no"]]
           /\ Move(t, "done", m, task[t].tried)
  <2>1. [mc |-> m, old |-> FALSE, ended |-> row[r].ended, again |-> row[r].ended # "no"] \in Row
    BY <1>0, <1>4 DEF IInv, TypeOK, Row
  <2> QED BY <1>2, <1>4, <2>1
<1> QED BY <1>a, <1>1, <1>3, <1>4

\* Assignments that only age or end keep their MC.
LEMMA RowsStep ==
    ASSUME IInv, UNCHANGED <<mcRow, task, hosting, accepted, void, purged>>,
           row' \in [Region -> Row \cup {None}],
           \A r \in Region : /\ row'[r] # None <=> row[r] # None
                             /\ row[r] # None => row'[r].mc = row[r].mc
    PROVE  IInv'
<1>1. TypeOK' BY DEF IInv, TypeOK
<1>2. RowsSound' BY DEF IInv, RowsSound
<1>3. TasksSound' BY DEF IInv, TasksSound
<1>4. CountsOnLive' BY DEF IInv, CountsOnLive, Live, Healthy
<1>5. AnswersStand' BY DEF IInv, TypeOK, TaskState, AnswersStand, Stands, Answered
<1> QED BY <1>1, <1>2, <1>3, <1>4, <1>5 DEF IInv

\* The end of assignments, and of meetings on an MC.
LEMMA EndActions ==
    ASSUME IInv,
           \/ \E r \in Region : NotifyMeetingEnded(r) \/ AssignmentAges(r) \/ EndingAges(r)
           \/ EndStaleAssignments
           \/ CleanupOldAssignments
           \/ \E m \in Mc : LeaveMc(m)
    PROVE  IInv'
<1> USE AssignmentAssumption
<1>e. \A x \in Row : /\ [x EXCEPT !.ended = "recent"] \in Row
                     /\ [x EXCEPT !.ended = "recent", !.again = FALSE] \in Row
                     /\ [x EXCEPT !.ended = "recent", !.again = FALSE].mc = x.mc
                     /\ [x EXCEPT !.ended = "old"] \in Row
                     /\ [x EXCEPT !.old = TRUE] \in Row
                     /\ [x EXCEPT !.ended = "recent"].mc = x.mc
                     /\ [x EXCEPT !.ended = "old"].mc = x.mc
                     /\ [x EXCEPT !.old = TRUE].mc = x.mc
  BY DEF Row
<1>1. ASSUME NEW r \in Region, NotifyMeetingEnded(r) \/ AssignmentAges(r) \/ EndingAges(r)
      PROVE  IInv'
  <2>1. row[r] # None /\ row[r] \in Row
    BY <1>1 DEF IInv, TypeOK, NotifyMeetingEnded, AssignmentAges, EndingAges, Active
  <2>2. PICK x \in Row : x.mc = row[r].mc /\ row' = [row EXCEPT ![r] = x]
    <3>1. CASE NotifyMeetingEnded(r)
      <4>1. row' = [row EXCEPT ![r] = [row[r] EXCEPT !.ended = "recent"]]
        BY <3>1 DEF NotifyMeetingEnded
      <4> QED BY <1>e, <2>1, <4>1
    <3>2. CASE AssignmentAges(r)
      <4>1. row' = [row EXCEPT ![r] = [row[r] EXCEPT !.old = TRUE]]
        BY <3>2 DEF AssignmentAges
      <4> QED BY <1>e, <2>1, <4>1
    <3>3. CASE EndingAges(r)
      <4>1. row' = [row EXCEPT ![r] = [row[r] EXCEPT !.ended = "old"]]
        BY <3>3 DEF EndingAges
      <4> QED BY <1>e, <2>1, <4>1
    <3> QED BY <1>1, <3>1, <3>2, <3>3
  <2>3. /\ row' \in [Region -> Row \cup {None}]
        /\ \A q \in Region : /\ row'[q] # None <=> row[q] # None
                             /\ row[q] # None => row'[q].mc = row[q].mc
    BY <2>1, <2>2 DEF IInv, TypeOK
  <2>4. UNCHANGED <<mcRow, task, hosting, accepted, void, purged>>
    BY <1>1 DEF NotifyMeetingEnded, AssignmentAges, EndingAges
  <2> QED BY <2>3, <2>4, RowsStep
<1>2. CASE EndStaleAssignments
  <2>1. /\ row' \in [Region -> Row \cup {None}]
        /\ \A q \in Region : /\ row'[q] # None <=> row[q] # None
                             /\ row[q] # None => row'[q].mc = row[q].mc
    <3>1. row' = [q \in Region |-> IF row[q] = None THEN None
                                   ELSE [row[q] EXCEPT !.ended = "recent", !.again = FALSE]]
      BY <1>2 DEF EndStaleAssignments
    <3>2. ASSUME NEW q \in Region
          PROVE  /\ row'[q] \in Row \cup {None}
                 /\ row'[q] # None <=> row[q] # None
                 /\ row[q] # None => row'[q].mc = row[q].mc
      <4>1. CASE row[q] = None BY <3>1, <4>1
      <4>2. CASE row[q] # None
        <5>1. row[q] \in Row BY <4>2 DEF IInv, TypeOK
        <5>2. row'[q] = [row[q] EXCEPT !.ended = "recent", !.again = FALSE] BY <3>1, <4>2
        <5> QED BY <1>e, <4>2, <5>1, <5>2
      <4> QED BY <4>1, <4>2
    <3> QED BY <3>1, <3>2
  <2>2. UNCHANGED <<mcRow, task, hosting, accepted, void, purged>> BY <1>2 DEF EndStaleAssignments
  <2> QED BY <2>1, <2>2, RowsStep
<1>3. CASE CleanupOldAssignments
  <2>1. TypeOK' BY <1>3 DEF CleanupOldAssignments, IInv, TypeOK
  <2>2. RowsSound' BY <1>3 DEF CleanupOldAssignments, RowsSound
  <2>3. TasksSound' BY <1>3 DEF CleanupOldAssignments, IInv, TasksSound
  <2>4. CountsOnLive' BY <1>3 DEF CleanupOldAssignments, IInv, CountsOnLive, Live, Healthy
  <2>5. ASSUME NEW s \in Task, Stands(s)' PROVE FALSE
    BY <1>3, <2>5 DEF CleanupOldAssignments, Stands, Answered
  <2>6. AnswersStand' BY <2>5 DEF AnswersStand
  <2> QED BY <2>1, <2>2, <2>3, <2>4, <2>6 DEF IInv
<1>4. ASSUME NEW m \in Mc, LeaveMc(m) PROVE IInv'
  <2>1. TypeOK' BY <1>4 DEF LeaveMc, IInv, TypeOK
  <2>2. RowsSound' BY <1>4 DEF LeaveMc, IInv, RowsSound
  <2>3. TasksSound' BY <1>4 DEF LeaveMc, IInv, TasksSound
  <2>4. CountsOnLive' BY <1>4 DEF LeaveMc, IInv, CountsOnLive, Live, Healthy
  <2>5. AnswersStand' BY <1>4 DEF LeaveMc, IInv, AnswersStand, Stands, Answered
  <2> QED BY <2>1, <2>2, <2>3, <2>4, <2>5 DEF IInv
<1> QED BY <1>1, <1>2, <1>3, <1>4

-----------------------------------------------------------------------------
\* The invariant is inductive.
THEOREM Inductive == Spec => []IInv
<1>1. IInv /\ [Next]_vars => IInv'
  <2> SUFFICES ASSUME IInv, [Next]_vars PROVE IInv' OBVIOUS
  <2>1. CASE \/ \E m \in Mc : RegisterMc(m)
             \/ \E m \in Mc, rep \in Reports : UpdateHeartbeat(m, rep)
             \/ Tick
             \/ MarkStaleControllersUnhealthy
    BY <2>1, ControllerActions
  <2>2. ASSUME NEW t \in Task, TaskStep(t) PROVE IInv'
    BY <2>2, RequestActions, AtomicAssignAction DEF TaskStep
  <2>3. ASSUME NEW t \in Task, NEW r \in Region, Release(t, r) PROVE IInv'
    BY <2>3, ReleaseAction
  <2>4. CASE \/ \E r \in Region : NotifyMeetingEnded(r) \/ AssignmentAges(r) \/ EndingAges(r)
             \/ EndStaleAssignments
             \/ CleanupOldAssignments
             \/ \E m \in Mc : LeaveMc(m)
    BY <2>4, EndActions
  <2>5. CASE UNCHANGED vars
    <3>1. TypeOK' BY <2>5 DEF vars, IInv, TypeOK
    <3>2. RowsSound' BY <2>5 DEF vars, IInv, RowsSound
    <3>3. TasksSound' BY <2>5 DEF vars, IInv, TasksSound
    <3>4. CountsOnLive' BY <2>5 DEF vars, IInv, CountsOnLive, Live, Healthy
    <3>5. AnswersStand' BY <2>5 DEF vars, IInv, AnswersStand, Stands, Answered
    <3> QED BY <3>1, <3>2, <3>3, <3>4, <3>5 DEF IInv
  <2> QED BY <2>1, <2>2, <2>3, <2>4, <2>5 DEF Next
<1> QED BY <1>1, InitHolds, PTL DEF Spec

\* The tables, the requests and the histories keep their types.
THEOREM TypeCorrect == Spec => []TypeOK
  BY Inductive, PTL DEF IInv

\* An answer that stands is what the table says: atomic_assign never takes the
\* meeting from an MC that an answered client relies on.
THEOREM AnswersCorrect == Spec => []AnswersStand
  BY Inductive, PTL DEF IInv

\* However many GCs race for the meeting, their clients are sent to one MC of the
\* region as long as it is live and its assignment is not purged.
THEOREM Agreement == Spec => []OneController
<1>1. IInv => OneController
  BY DEF IInv, AnswersStand, OneController
<1> QED BY <1>1, Inductive, PTL

\* A client is only sent to an MC of its region that accepted the meeting.
THEOREM AcceptedCorrect == Spec => []AnswersAccepted
<1>1. IInv => AnswersAccepted
  BY DEF IInv, TasksSound, AnswersAccepted
<1> QED BY <1>1, Inductive, PTL

\* Both at once: an answer names an MC that accepted and that the table stands by.
THEOREM AnswersHoldCorrect == Spec => []AnswersHold
<1>1. AnswersStand /\ AnswersAccepted => AnswersHold
  BY DEF AnswersHold
<1> QED BY <1>1, AnswersCorrect, AcceptedCorrect, PTL

-----------------------------------------------------------------------------
(* Requests end: the rank that each of their steps lowers. *)

\* What bounds the attempts: an MC is called only while one is left, and never again.
TriesBounded ==
    \A t \in Task :
        /\ IsFiniteSet(task[t].tried)
        /\ Cardinality(task[t].tried) <= Retries
        /\ task[t].pc = "calling" =>
              Cardinality(task[t].tried) < Retries /\ task[t].mc \notin task[t].tried

\* A step of a request towards its end within one attempt.
Onward(a, b) == b.tried = a.tried /\ b.pc # "calling" /\ Stage[b.pc] < Stage[a.pc]
\* The next attempt is made, on an MC that was not tried.
Calls(a, b) ==
    /\ a.pc = "choosing" /\ b.pc = "calling" /\ b.tried = a.tried
    /\ Cardinality(a.tried) < Retries /\ b.mc \notin a.tried
\* An attempt is used up.
TriesNext(a, b) == a.pc = "calling" /\ b.pc = "choosing" /\ b.tried = a.tried \cup {a.mc}
\* A client asks anew.
AsksAnew(a, b) == a.pc \in {"done", "failed"} /\ b.pc = "idle" /\ b.tried = {}

LEMMA StageValues ==
    /\ Stage["idle"] = 6 /\ Stage["found"] = 5 /\ Stage["selecting"] = 5
    /\ Stage["choosing"] = 4 /\ Stage["calling"] = 3 /\ Stage["accepted"] = 2
    /\ Stage["reading"] = 1 /\ Stage["done"] = 0 /\ Stage["failed"] = 0
    /\ \A pc \in Pc : Stage[pc] \in 0..6
    /\ \A pc \in Pc \ {"idle", "done", "failed"} : Stage[pc] > 0
  BY DEF Stage, Pc

\* How a request changes in one step of its own.
LEMMA RequestShapes ==
    ASSUME IInv, NEW t \in Task, TaskStep(t)
    PROVE  /\ \/ Onward(task[t], task'[t])
              \/ Calls(task[t], task'[t])
              \/ TriesNext(task[t], task'[t])
           /\ \A s \in Task \ {t} : task'[s] = task[s]
<1> DEFINE Shape == /\ \/ Onward(task[t], task'[t])
                       \/ Calls(task[t], task'[t])
                       \/ TriesNext(task[t], task'[t])
                    /\ \A s \in Task \ {t} : task'[s] = task[s]
<1> SUFFICES Shape OBVIOUS
<1> USE AssignmentAssumption
<1>0. /\ TypeOK
      /\ task[t].pc \in Pc /\ task[t].region \in Region
      /\ task[t].mc \in Mc \cup {None} /\ task[t].tried \in SUBSET Mc
      /\ row[task[t].region] # None => row[task[t].region].mc \in Mc
      /\ task[t].pc = "calling" => task[t].mc \in Mc
      /\ {"found", "selecting", "choosing", "calling", "accepted", "reading", "done", "failed"} \subseteq Pc
  BY DEF IInv, TypeOK, TaskState, TasksSound, Row, Pc
<1>1. ASSUME NEW pc \in Pc \ {"calling"}, NEW m \in Mc \cup {None},
             Move(t, pc, m, task[t].tried), Stage[pc] < Stage[task[t].pc]
      PROVE  Shape
  BY <1>0, <1>1, MoveFacts DEF Onward
<1> HIDE DEF Shape
<1>2. CASE FindExisting(t)
  <2>1. \/ Move(t, "found", row[task[t].region].mc, task[t].tried) /\ row[task[t].region] # None
        \/ Move(t, "selecting", task[t].mc, task[t].tried)
    BY <1>2 DEF FindExisting, About, Goto, Active
  <2> QED BY <1>0, <1>1, <1>2, <2>1, StageValues DEF FindExisting
<1>3. CASE SelectMhs(t)
  BY <1>0, <1>1, <1>3, StageValues DEF SelectMhs, Goto, About
<1>4. ASSUME NEW m \in Mc, ChooseMc(t, m) PROVE Shape
  <2>1. Move(t, "calling", m, task[t].tried) BY <1>4 DEF ChooseMc, About
  <2> QED BY <1>0, <1>4, <2>1, MoveFacts DEF Shape, ChooseMc, Calls
<1>5. CASE GiveUp(t) \/ Fail(t)
  BY <1>0, <1>1, <1>5, StageValues DEF GiveUp, Fail, About
<1>6. CASE McAccepts(t)
  BY <1>0, <1>1, <1>6, StageValues DEF McAccepts, Goto, About
<1>7. CASE McRejects(t) \/ McReplyLost(t)
  <2>1. task[t].pc = "calling" /\ Move(t, "choosing", None, task[t].tried \cup {task[t].mc})
    BY <1>7 DEF McRejects, McReplyLost, Retry
  <2>2. task[t].tried \cup {task[t].mc} \in SUBSET Mc BY <1>0, <2>1
  <2> QED BY <1>0, <2>1, <2>2, MoveFacts DEF Shape, TriesNext
<1>8. CASE AtomicAssign(t)
  <2>1. \/ Move(t, "done", task[t].mc, task[t].tried)
        \/ Move(t, "reading", task[t].mc, task[t].tried)
    BY <1>8 DEF AtomicAssign, Goto, About
  <2> QED BY <1>0, <1>1, <1>8, <2>1, StageValues DEF AtomicAssign
<1>9. CASE GetCurrentAssignment(t)
  <2>1. \/ Move(t, "done", row[task[t].region].mc, task[t].tried) /\ row[task[t].region] # None
        \/ Move(t, "failed", None, task[t].tried)
    BY <1>9 DEF GetCurrentAssignment, About, Active
  <2> QED BY <1>0, <1>1, <1>9, <2>1, StageValues DEF GetCurrentAssignment
<1> QED BY <1>2, <1>3, <1>4, <1>5, <1>6, <1>7, <1>8, <1>9 DEF TaskStep, Shape

\* How any request changes in any step.
LEMMA StepShapes ==
    ASSUME IInv, [Next]_vars, NEW s \in Task, task'[s] # task[s]
    PROVE  \/ Onward(task[s], task'[s])
           \/ Calls(task[s], task'[s])
           \/ TriesNext(task[s], task'[s])
           \/ AsksAnew(task[s], task'[s])
<1>1. ASSUME NEW t \in Task, TaskStep(t)
      PROVE  Onward(task[s], task'[s]) \/ Calls(task[s], task'[s]) \/ TriesNext(task[s], task'[s])
  BY <1>1, RequestShapes
<1>2. ASSUME NEW t \in Task, NEW r \in Region, Release(t, r)
      PROVE  AsksAnew(task[s], task'[s])
  BY <1>2 DEF Release, AsksAnew, IInv, TypeOK
<1>3. CASE task' = task BY <1>3
<1> QED BY <1>1, <1>2, <1>3
     DEF Next, vars, RegisterMc, LeaveMc, UpdateHeartbeat, Tick, MarkStaleControllersUnhealthy,
         NoteLapses, NotifyMeetingEnded, AssignmentAges, EndingAges, EndStaleAssignments,
         CleanupOldAssignments

\* The attempts stay within their bound.
LEMMA TriesStep ==
    ASSUME IInv, TriesBounded, [Next]_vars
    PROVE  TriesBounded'
<1> SUFFICES ASSUME NEW s \in Task
             PROVE  /\ IsFiniteSet(task'[s].tried)
                    /\ Cardinality(task'[s].tried) <= Retries
                    /\ task'[s].pc = "calling" =>
                          Cardinality(task'[s].tried) < Retries /\ task'[s].mc \notin task'[s].tried
  BY DEF TriesBounded
<1>0. /\ IsFiniteSet(task[s].tried)
      /\ Cardinality(task[s].tried) <= Retries
      /\ task[s].pc = "calling" =>
            Cardinality(task[s].tried) < Retries /\ task[s].mc \notin task[s].tried
  BY DEF TriesBounded
<1>1. CASE task'[s] = task[s] BY <1>0, <1>1
<1>2. CASE Onward(task[s], task'[s]) \/ Calls(task[s], task'[s])
  BY <1>0, <1>2 DEF Onward, Calls
<1>3. CASE TriesNext(task[s], task'[s])
  <2>1. /\ IsFiniteSet(task'[s].tried)
        /\ Cardinality(task'[s].tried) = Cardinality(task[s].tried) + 1
    BY <1>0, <1>3, FS_AddElement DEF TriesNext
  <2>2. Cardinality(task[s].tried) \in Nat BY <1>0, FS_CardinalityType
  <2> QED BY <1>0, <1>3, <2>1, <2>2, AssignmentAssumption DEF TriesNext
<1>4. CASE AsksAnew(task[s], task'[s])
  BY <1>4, FS_EmptySet, AssignmentAssumption DEF AsksAnew
<1> QED BY <1>1, <1>2, <1>3, <1>4, StepShapes

\* Whatever the MCs answer and the others do, each step of a request leaves it less
\* to do, until it is done or failed: with at most MAX_MC_ASSIGNMENT_RETRIES calls.
THEOREM RequestsEndCorrect == Spec => RequestsEnd
<1> DEFINE Shrinks(t) == \/ Left(t)' \in 0..(Left(t) - 1)
                         \/ task[t].pc \in {"done", "failed"} /\ task'[t].pc = "idle"
<1>1. Init => TriesBounded
  <2> SUFFICES ASSUME Init, NEW t \in Task
               PROVE  task[t].tried = {} /\ task[t].pc = "idle"
    BY FS_EmptySet, AssignmentAssumption DEF TriesBounded
  <2> QED BY DEF Init
<1>2. IInv /\ IInv' /\ TriesBounded /\ TriesBounded' /\ [Next]_vars =>
          \A t \in Task : task'[t] # task[t] => Shrinks(t)
  <2> SUFFICES ASSUME IInv, IInv', TriesBounded, TriesBounded', [Next]_vars,
                      NEW t \in Task, task'[t] # task[t]
               PROVE  Shrinks(t)
    OBVIOUS
  <2> DEFINE c == Cardinality(task[t].tried)
             d == Cardinality(task'[t].tried)
  <2>1. /\ c \in Nat /\ d \in Nat /\ c <= Retries /\ d <= Retries
        /\ IsFiniteSet(task[t].tried)
    BY FS_CardinalityType DEF TriesBounded
  <2>2. task[t].pc \in Pc /\ task'[t].pc \in Pc BY DEF IInv, TypeOK, TaskState
  <2>3. /\ Left(t) = 4 * (Retries - c) + Stage[task[t].pc]
        /\ Left(t)' = 4 * (Retries - d) + Stage[task'[t].pc]
        /\ Stage[task[t].pc] \in 0..6 /\ Stage[task'[t].pc] \in 0..6
    BY <2>2, StageValues DEF Left, Stage
  <2>4. CASE Onward(task[t], task'[t])
    <3>1. c = d /\ Stage[task'[t].pc] < Stage[task[t].pc] BY <2>4 DEF Onward
    <3> HIDE DEF c, d
    <3> QED BY <2>1, <2>3, <3>1, AssignmentAssumption
  <2>5. CASE Calls(task[t], task'[t])
    <3>1. c = d /\ Stage[task'[t].pc] = 3 /\ Stage[task[t].pc] = 4
      BY <2>5, StageValues DEF Calls
    <3> HIDE DEF c, d
    <3> QED BY <2>1, <2>3, <3>1, AssignmentAssumption
  <2>6. CASE TriesNext(task[t], task'[t])
    <3>1. Stage[task'[t].pc] = 4 /\ Stage[task[t].pc] = 3
      BY <2>6, StageValues DEF TriesNext
    <3>2. d = c + 1
      BY <2>1, <2>6, FS_AddElement DEF TriesNext, TriesBounded
    <3> HIDE DEF c, d
    <3> QED BY <2>1, <2>3, <3>1, <3>2, AssignmentAssumption
  <2>7. CASE AsksAnew(task[t], task'[t]) BY <2>7 DEF AsksAnew
  <2> QED BY <2>4, <2>5, <2>6, <2>7, StepShapes
<1>3. IInv /\ TriesBounded /\ [Next]_vars => TriesBounded' BY TriesStep
<1> HIDE DEF Shrinks
<1>4. (\A t \in Task : task'[t] # task[t] => Shrinks(t)) =>
          [\A t \in Task : task'[t] # task[t] =>
                \/ Left(t)' \in 0..(Left(t) - 1)
                \/ task[t].pc \in {"done", "failed"} /\ task'[t].pc = "idle"]_vars
  BY DEF Shrinks
<1>5. Spec => []TriesBounded BY <1>1, <1>3, Inductive, PTL DEF Spec
<1> QED BY <1>2, <1>4, <1>5, Inductive, PTL DEF Spec, RequestsEnd
=============================================================================
