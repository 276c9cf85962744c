---------------------------- MODULE MeetingProofs ----------------------------
(***************************************************************************)
(* The safety invariants of Meeting, proved for any number of participants *)
(* and connections and any grace period and token lifetime, and those of   *)
(* the Mailboxes that connect a meeting with its participants.             *)
(*                                                                         *)
(* None of the invariants of Meeting is inductive alone.  The              *)
(* strengthening adds what the actors know: a managed connection has an    *)
(* actor of the same participant, a correlation id belongs to an actor of  *)
(* the participant it leads to, and a notice in the mailbox comes from an  *)
(* actor that has ended and names that actor's participant.                *)
(***************************************************************************)
EXTENDS Meeting, Mailboxes, FiniteSetTheorems, TLAPS

\* A managed connection has an actor, and both name the same participant.
ManagedHasActor ==
    \A c \in Conn : connections[c] # None
        => actors[c] # None /\ actors[c].pid = connections[c]

\* A correlation id in use was generated for an actor of its participant.
CorrelationHasActor ==
    \A k \in Conn : corrToPid[k] # None
        => actors[k] # None /\ actors[k].pid = corrToPid[k]

\* A notice comes from an actor that has left its loop.
NoticeFromEnded ==
    \A i \in DOMAIN mailbox :
        /\ actors[mailbox[i].conn] # None
        /\ actors[mailbox[i].conn].pid = mailbox[i].pid
        /\ actors[mailbox[i].conn].st \in {"notified", "finished"}

Structure ==
    /\ CorrelationExact
    /\ ConnectedIsManaged
    /\ ActorsSupervised
    /\ ManagedHasActor
    /\ CorrelationHasActor
    /\ NoticeFromEnded

MapTypes ==
    /\ participants \in [Pid -> Participant \cup {None}]
    /\ connections  \in [Conn -> Pid \cup {None}]
    /\ corrToPid    \in [Conn -> Pid \cup {None}]
    /\ bindings     \in [Conn -> Binding \cup {None}]
    /\ actors       \in [Conn -> Actor \cup {None}]
    /\ roster       \in [Conn -> SUBSET Pid]

IndInv == TypeOK /\ Structure /\ CountMatches /\ GaugeCoversManaged /\ RosterConsistent

-----------------------------------------------------------------------------
\* Changing the age or a mute of a participant's record.
LEMMA AgeUpdate ==
  ASSUME NEW r \in Participant, NEW a \in 0..Grace
  PROVE  /\ [r EXCEPT !.age = a] \in Participant
         /\ [r EXCEPT !.age = a].conn = r.conn
         /\ [r EXCEPT !.age = a].corr = r.corr
         /\ [r EXCEPT !.age = a].hostMuted = r.hostMuted
  BY DEF Participant

LEMMA BindingUpdate ==
  ASSUME NEW b \in Binding, NEW a \in 0..(Ttl + 1)
  PROVE  [b EXCEPT !.age = a] \in Binding /\ [b EXCEPT !.age = a].pid = b.pid
  BY DEF Binding

LEMMA MuteUpdate ==
  ASSUME NEW r \in Participant, NEW on \in BOOLEAN
  PROVE  /\ [r EXCEPT !.selfMuted = on] \in Participant
         /\ [r EXCEPT !.selfMuted = on].conn = r.conn
         /\ [r EXCEPT !.selfMuted = on].corr = r.corr
         /\ [r EXCEPT !.selfMuted = on].hostMuted = r.hostMuted
         /\ [r EXCEPT !.hostMuted = on] \in Participant
         /\ [r EXCEPT !.hostMuted = on].conn = r.conn
         /\ [r EXCEPT !.hostMuted = on].corr = r.corr
  BY DEF Participant

\* Changing the state of an actor.
LEMMA ActorUpdate ==
  ASSUME NEW a \in Actor, NEW s \in ActorState
  PROVE  /\ [a EXCEPT !.st = s] \in Actor
         /\ [a EXCEPT !.st = s].st = s
         /\ [a EXCEPT !.st = s].pid = a.pid
  BY DEF Actor

LEMMA GraceZero == 0 \in 0..Grace
  BY MeetingAssumption

\* A participant's record after its connection ended, and after it reconnected.
LEMMA DroppedRecord ==
  ASSUME NEW r \in Participant
  PROVE  /\ [r EXCEPT !.conn = None, !.age = 0] \in Participant
         /\ [r EXCEPT !.conn = None, !.age = 0].conn = None
         /\ [r EXCEPT !.conn = None, !.age = 0].corr = r.corr
         /\ [r EXCEPT !.conn = None, !.age = 0].hostMuted = r.hostMuted
  BY GraceZero DEF Participant

LEMMA ReconnectedRecord ==
  ASSUME NEW r \in Participant, NEW c \in Conn
  PROVE  /\ [r EXCEPT !.conn = c, !.age = 0, !.corr = c] \in Participant
         /\ [r EXCEPT !.conn = c, !.age = 0, !.corr = c].conn = c
         /\ [r EXCEPT !.conn = c, !.age = 0, !.corr = c].corr = c
         /\ [r EXCEPT !.conn = c, !.age = 0, !.corr = c].hostMuted = r.hostMuted
  BY GraceZero DEF Participant

USE MeetingAssumption

LEMMA MembersFinite == IsFiniteSet(Members) /\ IsFiniteSet(Managed)
  BY FS_Subset DEF Members, Managed

\* The records that a join and a reconnection create are not None.
LEMMA NewRecords ==
  ASSUME NEW c \in Conn, NEW p \in Pid
  PROVE  /\ [conn |-> c, age |-> 0, corr |-> c, selfMuted |-> FALSE, hostMuted |-> FALSE]
                \in Participant \ {None}
         /\ [pid |-> p, age |-> 0] \in Binding \ {None}
         /\ [pid |-> p, st |-> "running"] \in Actor \ {None}
<1>1. [conn |-> c, age |-> 0, corr |-> c, selfMuted |-> FALSE, hostMuted |-> FALSE] \in Participant
  BY DEF Participant
<1>2. [pid |-> p, age |-> 0] \in Binding
  BY DEF Binding
<1>3. [pid |-> p, st |-> "running"] \in Actor
  BY DEF Actor, ActorState
<1> QED BY <1>1, <1>2, <1>3

LEMMA InitIndInv == Init => IndInv
<1> SUFFICES ASSUME Init PROVE IndInv
  OBVIOUS
<1>1. TypeOK
  <2>1. mailbox \in Seq(Notice)
    BY DEF Init
  <2>2. shuttingDown \in BOOLEAN /\ cancelled \in BOOLEAN /\ stopped \in BOOLEAN
    BY DEF Init
  <2>3. participantCount \in Nat /\ activeConnections \in Nat
    BY DEF Init
  <2>4. /\ participants \in [Pid -> Participant \cup {None}]
        /\ connections \in [Conn -> Pid \cup {None}]
        /\ corrToPid \in [Conn -> Pid \cup {None}]
        /\ bindings \in [Conn -> Binding \cup {None}]
        /\ actors \in [Conn -> Actor \cup {None}]
        /\ roster \in [Conn -> SUBSET Pid]
    BY DEF Init
  <2> QED BY <2>1, <2>2, <2>3, <2>4 DEF TypeOK
<1>2. Structure
  BY DEF Init, Structure, CorrelationExact, ConnectedIsManaged, IsConnected, ActorsSupervised,
         ManagedHasActor, CorrelationHasActor, NoticeFromEnded
<1>3. Members = {} /\ Managed = {}
  BY DEF Init, Members, Managed
<1>4. CountMatches /\ GaugeCoversManaged
  BY <1>3, FS_EmptySet DEF Init, CountMatches, GaugeCoversManaged
<1>5. RosterConsistent
  BY DEF Init, RosterConsistent, IsConnected
<1> QED BY <1>1, <1>2, <1>4, <1>5 DEF IndInv

LEMMA JoinStep ==
  ASSUME IndInv, NEW c \in Conn, NEW p \in Pid, Join(c, p)
  PROVE  IndInv'
<1> USE DEF IndInv, TypeOK, Join, FreshConn, FreshPid
<1>1. MapTypes'
  BY DEF MapTypes, Participant, Binding, Actor, ActorState, JoinedRoster, Members
<1>2. Structure'
  <2>1. CorrelationExact'
    <3> SUFFICES ASSUME NEW k \in Conn, NEW q \in Pid
                 PROVE  /\ (corrToPid'[k] = q) <=> (participants'[q] # None /\ participants'[q].corr = k)
                        /\ (corrToPid'[k] = q /\ bindings'[k] # None) => bindings'[k].pid = q
      BY DEF CorrelationExact
    <3>1. /\ (corrToPid[k] = q) <=> (participants[q] # None /\ participants[q].corr = k)
          /\ (corrToPid[k] = q /\ bindings[k] # None) => bindings[k].pid = q
      BY DEF Structure, CorrelationExact
    <3>2. corrToPid[c] = None
      BY DEF Structure, CorrelationHasActor
    <3> QED BY <3>1, <3>2, NewRecords
  <2>2. ConnectedIsManaged'
    BY DEF Structure, ConnectedIsManaged, IsConnected, ManagedHasActor, Participant
  <2>3. ActorsSupervised'
    BY DEF Structure, ActorsSupervised, Actor, lifeVars
  <2>4. ManagedHasActor' /\ CorrelationHasActor'
    BY NewRecords DEF Structure, ManagedHasActor, CorrelationHasActor
  <2>5. NoticeFromEnded'
    BY DEF Structure, NoticeFromEnded, Notice, Actor
  <2> QED BY <2>1, <2>2, <2>3, <2>4, <2>5 DEF Structure
<1>3. Members' = Members \cup {p} /\ p \notin Members
  BY NewRecords DEF Members
<1>4. Managed' = Managed \cup {c} /\ c \notin Managed
  BY DEF Managed, Structure, ManagedHasActor
<1>5. CountMatches'
  BY <1>3, MembersFinite, FS_AddElement, FS_CardinalityType DEF CountMatches
<1>6. GaugeCoversManaged'
  <2>1. Cardinality(Managed') = Cardinality(Managed) + 1 /\ Cardinality(Managed) \in Nat
    BY <1>4, MembersFinite, FS_AddElement, FS_CardinalityType
  <2> QED BY <2>1 DEF GaugeCoversManaged
<1>7. RosterConsistent'
  <2> SUFFICES ASSUME NEW q \in Pid, ~shuttingDown', IsConnected(q)'
               PROVE  roster'[participants'[q].conn] = Members' \ {q}
    BY DEF RosterConsistent
  <2>1. CASE q = p
    BY <2>1, <1>3 DEF JoinedRoster, Members
  <2>2. CASE q # p
    <3>1. /\ participants'[q] = participants[q] /\ IsConnected(q)
          /\ participants[q].conn \in Conn
      BY <2>2 DEF IsConnected, Participant
    <3>2. participants[q].conn # c
      BY <3>1 DEF Structure, ConnectedIsManaged, ManagedHasActor
    <3>3. roster[participants[q].conn] = Members \ {q}
      BY <3>1 DEF RosterConsistent, lifeVars
    <3>4. participants[q].conn \in Audience(p)
      BY <2>2, <3>1 DEF Audience, IsConnected
    <3> QED BY <2>2, <3>1, <3>2, <3>3, <3>4, <1>3 DEF JoinedRoster
  <2> QED BY <2>1, <2>2
<1> QED BY <1>1, <1>2, <1>5, <1>6, <1>7 DEF MapTypes, lifeVars

LEMMA MarkDisconnectedFacts ==
  ASSUME TypeOK, NEW p \in Pid, participants' = MarkDisconnected(p)
  PROVE  /\ participants' \in [Pid -> Participant \cup {None}]
         /\ \A q \in Pid : /\ participants'[q] = None <=> participants[q] = None
                           /\ q # p => participants'[q] = participants[q]
                           /\ participants[q] # None => participants'[q].corr = participants[q].corr
         /\ ~IsConnected(p)'
         /\ Members' = Members
<1>1. CASE participants[p] = None
  BY <1>1 DEF TypeOK, MarkDisconnected, IsConnected, Members
<1>2. CASE participants[p] # None
  <2> DEFINE r == [participants[p] EXCEPT !.conn = None, !.age = 0]
  <2>1. participants[p] \in Participant
    BY <1>2 DEF TypeOK
  <2>2. r \in Participant /\ r.conn = None /\ r.corr = participants[p].corr
    BY <2>1, DroppedRecord
  <2>3. participants' = [participants EXCEPT ![p] = r]
    BY <1>2 DEF MarkDisconnected, TypeOK
  <2>4. r # None
    BY <2>2
  <2> HIDE DEF r
  <2> QED BY <1>2, <2>2, <2>3, <2>4 DEF TypeOK, IsConnected, Members
<1> QED BY <1>1, <1>2

\* Forgetting a connection of p and marking p disconnected, as the handler of
\* a notice and the health check both do.
LEMMA ForgetStep ==
  ASSUME IndInv, NEW c \in Conn, NEW p \in Pid,
         connections[c] # None => connections[c] = p,
         actors[c] # None, actors[c].st \in {"notified", "finished"},
         connections' = [connections EXCEPT ![c] = None],
         participants' = MarkDisconnected(p),
         UNCHANGED <<corrToPid, bindings, lifeVars, participantCount, actors, roster>>
  PROVE  /\ MapTypes'
         /\ CorrelationExact' /\ ConnectedIsManaged' /\ ActorsSupervised'
         /\ ManagedHasActor' /\ CorrelationHasActor'
         /\ CountMatches' /\ RosterConsistent'
<1> USE DEF IndInv
<1>0. /\ participants' \in [Pid -> Participant \cup {None}]
      /\ \A q \in Pid : /\ participants'[q] = None <=> participants[q] = None
                        /\ q # p => participants'[q] = participants[q]
                        /\ participants[q] # None => participants'[q].corr = participants[q].corr
      /\ ~IsConnected(p)'
      /\ Members' = Members
  BY MarkDisconnectedFacts
<1>1. MapTypes'
  BY <1>0 DEF TypeOK, MapTypes
<1>2. CorrelationExact'
  BY <1>0 DEF Structure, CorrelationExact
<1>3. ConnectedIsManaged'
  <2> SUFFICES ASSUME NEW q \in Pid, IsConnected(q)'
               PROVE  connections'[participants'[q].conn] = q
    BY DEF ConnectedIsManaged
  <2>1. q # p /\ participants'[q] = participants[q]
    BY <1>0
  <2>2. participants[q] # None /\ participants[q].conn # None
    BY <2>1 DEF IsConnected
  <2>3. participants[q].conn \in Conn
    BY <2>2 DEF TypeOK, Participant
  <2>4. connections[participants[q].conn] = q
    BY <2>2 DEF Structure, ConnectedIsManaged, IsConnected
  <2> QED BY <2>1, <2>3, <2>4 DEF TypeOK
<1>4. ActorsSupervised' /\ ManagedHasActor' /\ CorrelationHasActor'
  BY DEF Structure, ActorsSupervised, ManagedHasActor, CorrelationHasActor, TypeOK, lifeVars
<1>5. CountMatches'
  BY <1>0 DEF CountMatches, lifeVars
<1>6. RosterConsistent'
  BY <1>0 DEF RosterConsistent, IsConnected, lifeVars
<1> QED BY <1>1, <1>2, <1>3, <1>4, <1>5, <1>6

LEMMA ConnectionDisconnectedStep ==
  ASSUME IndInv, ConnectionDisconnected
  PROVE  IndInv'
<1> DEFINE n == Head(mailbox)
<1>1. n \in Notice /\ mailbox[1] = n /\ 1 \in DOMAIN mailbox
  BY DEF IndInv, TypeOK, ConnectionDisconnected
<1>2. n.conn \in Conn /\ n.pid \in Pid
  BY <1>1 DEF Notice
<1>3. /\ actors[n.conn] # None /\ actors[n.conn].pid = n.pid
      /\ actors[n.conn].st \in {"notified", "finished"}
  BY <1>1 DEF IndInv, Structure, NoticeFromEnded
<1>4. connections[n.conn] # None => connections[n.conn] = n.pid
  BY <1>2, <1>3 DEF IndInv, Structure, ManagedHasActor
<1>5. /\ connections' = [connections EXCEPT ![n.conn] = None]
      /\ participants' = MarkDisconnected(n.pid)
      /\ UNCHANGED <<corrToPid, bindings, lifeVars, participantCount, actors, roster>>
  BY DEF ConnectionDisconnected, Forget
<1> HIDE DEF n
<1>6. /\ MapTypes'
      /\ CorrelationExact' /\ ConnectedIsManaged' /\ ActorsSupervised'
      /\ ManagedHasActor' /\ CorrelationHasActor'
      /\ CountMatches' /\ RosterConsistent'
  BY <1>2, <1>3, <1>4, <1>5, ForgetStep
<1>7. mailbox' \in Seq(Notice) /\ NoticeFromEnded'
  BY <1>5 DEF IndInv, TypeOK, Structure, NoticeFromEnded, ConnectionDisconnected
<1>8. GaugeCoversManaged' /\ activeConnections' \in Nat
  <2>0. activeConnections' = IF connections[n.conn] = None THEN activeConnections
                             ELSE activeConnections - 1
    BY DEF ConnectionDisconnected, ClosedGauge, n
  <2>1. /\ Cardinality(Managed) \in Nat /\ Cardinality(Managed) <= activeConnections
        /\ activeConnections \in Nat
    BY MembersFinite, FS_CardinalityType DEF IndInv, GaugeCoversManaged, TypeOK
  <2>2. Managed' = Managed \ {n.conn}
    BY <1>5, <1>2 DEF Managed, IndInv, TypeOK
  <2>3. CASE connections[n.conn] = None
    <3>1. n.conn \notin Managed
      BY <2>3 DEF Managed
    <3>2. Managed' = Managed
      BY <2>2, <3>1
    <3> QED BY <2>0, <2>1, <2>3, <3>2 DEF GaugeCoversManaged
  <2>4. CASE connections[n.conn] # None
    <3>1. n.conn \in Managed
      BY <2>4, <1>2 DEF Managed
    <3>2. Cardinality(Managed') = Cardinality(Managed) - 1 /\ Cardinality(Managed') \in Nat
      BY <2>2, <3>1, MembersFinite, FS_RemoveElement, FS_CardinalityType
    <3> QED BY <2>0, <2>1, <2>4, <3>2 DEF GaugeCoversManaged
  <2> QED BY <2>3, <2>4
<1> QED BY <1>5, <1>6, <1>7, <1>8 DEF IndInv, TypeOK, MapTypes, Structure, lifeVars

LEMMA CheckConnectionHealthStep ==
  ASSUME IndInv, NEW c \in Conn, CheckConnectionHealth(c)
  PROVE  IndInv'
<1> DEFINE p == connections[c]
<1>1. p \in Pid /\ actors[c] # None /\ actors[c].st \in {"notified", "finished"}
  BY DEF CheckConnectionHealth, IndInv, TypeOK, Structure, ManagedHasActor
<1>2. /\ connections' = [connections EXCEPT ![c] = None]
      /\ participants' = MarkDisconnected(p)
      /\ UNCHANGED <<corrToPid, bindings, lifeVars, participantCount, actors, roster>>
      /\ UNCHANGED <<mailbox, activeConnections>>
  BY DEF CheckConnectionHealth, gaugeVars
<1>3. connections[c] # None => connections[c] = p
  OBVIOUS
<1> HIDE DEF p
<1>4. /\ MapTypes'
      /\ CorrelationExact' /\ ConnectedIsManaged' /\ ActorsSupervised'
      /\ ManagedHasActor' /\ CorrelationHasActor'
      /\ CountMatches' /\ RosterConsistent'
  BY <1>1, <1>2, <1>3, ForgetStep
<1>5. NoticeFromEnded'
  BY <1>2 DEF IndInv, Structure, NoticeFromEnded
<1>6. GaugeCoversManaged'
  <2>1. Managed' \subseteq Managed
    BY <1>2 DEF Managed, IndInv, TypeOK
  <2>2. /\ Cardinality(Managed') <= Cardinality(Managed)
        /\ Cardinality(Managed) \in Nat /\ Cardinality(Managed') \in Nat
    BY <2>1, MembersFinite, FS_Subset, FS_CardinalityType
  <2> QED BY <1>2, <2>2 DEF IndInv, TypeOK, GaugeCoversManaged
<1> QED BY <1>2, <1>4, <1>5, <1>6 DEF IndInv, TypeOK, MapTypes, Structure, lifeVars

LEMMA ReconnectStep ==
  ASSUME IndInv, NEW c \in Conn, NEW k \in Conn, Reconnect(c, k)
  PROVE  IndInv'
<1> DEFINE p == corrToPid[k]
           r == Rejoined(p, c)
<1>1. p \in Pid /\ participants[p] # None /\ participants[p].corr = k
  BY DEF Reconnect, IndInv, TypeOK, Structure, CorrelationExact
<1>2. participants[p] \in Participant
  BY <1>1 DEF IndInv, TypeOK
<1>3. r \in Participant /\ r # None /\ r.conn = c /\ r.corr = c
  <2>1. r \in Participant /\ r.conn = c /\ r.corr = c
    BY <1>2, ReconnectedRecord DEF Rejoined
  <2> QED BY <2>1
<1>4. actors[c] = None /\ connections[c] = None /\ corrToPid[c] = None /\ c # k
  BY <1>1 DEF Reconnect, FreshConn, IndInv, Structure, ManagedHasActor, CorrelationHasActor
<1>5. /\ connections' = [connections EXCEPT ![c] = p]
      /\ actors' = [actors EXCEPT ![c] = [pid |-> p, st |-> "running"]]
      /\ participants' = [participants EXCEPT ![p] = r]
      /\ bindings' = [bindings EXCEPT ![k] = None, ![c] = [pid |-> p, age |-> 0]]
      /\ corrToPid' = [corrToPid EXCEPT ![k] = None, ![c] = p]
      /\ roster' = [roster EXCEPT ![c] = Members \ {p}]
      /\ activeConnections' = activeConnections + 1
      /\ UNCHANGED <<mailbox, lifeVars, participantCount>>
  BY DEF Reconnect, Rotate, ReopenedGauge
<1>6. [pid |-> p, age |-> 0] \in Binding \ {None} /\ [pid |-> p, st |-> "running"] \in Actor \ {None}
  BY <1>1, NewRecords
<1>7. Members' = Members
  BY <1>1, <1>3, <1>5 DEF Members, IndInv, TypeOK
<1> HIDE DEF p, r
<1>8. MapTypes'
  BY <1>1, <1>3, <1>5, <1>6 DEF MapTypes, IndInv, TypeOK, Members
<1>9. CorrelationExact'
  <2> SUFFICES ASSUME NEW j \in Conn, NEW q \in Pid
               PROVE  /\ (corrToPid'[j] = q) <=> (participants'[q] # None /\ participants'[q].corr = j)
                      /\ (corrToPid'[j] = q /\ bindings'[j] # None) => bindings'[j].pid = q
    BY DEF CorrelationExact
  <2>1. /\ (corrToPid[j] = q) <=> (participants[q] # None /\ participants[q].corr = j)
        /\ (corrToPid[j] = q /\ bindings[j] # None) => bindings[j].pid = q
    BY DEF IndInv, Structure, CorrelationExact
  <2>2. corrToPid[k] = p
    BY DEF p
  <2>3. CASE j = c
    BY <2>1, <2>3, <1>1, <1>3, <1>4, <1>5 DEF IndInv, TypeOK
  <2>4. CASE j = k
    BY <2>1, <2>2, <2>4, <1>1, <1>3, <1>4, <1>5 DEF IndInv, TypeOK
  <2>5. CASE j # c /\ j # k
    BY <2>1, <2>5, <1>1, <1>3, <1>5 DEF IndInv, TypeOK
  <2> QED BY <2>3, <2>4, <2>5
<1>10. ConnectedIsManaged'
  <2> SUFFICES ASSUME NEW q \in Pid, IsConnected(q)'
               PROVE  connections'[participants'[q].conn] = q
    BY DEF ConnectedIsManaged
  <2>1. CASE q = p
    BY <2>1, <1>3, <1>5 DEF IndInv, TypeOK
  <2>2. CASE q # p
    <3>1. participants'[q] = participants[q] /\ IsConnected(q)
      BY <2>2, <1>5 DEF IsConnected, IndInv, TypeOK
    <3>2. participants[q].conn \in Conn
      BY <3>1 DEF IsConnected, IndInv, TypeOK, Participant
    <3>3. connections[participants[q].conn] = q
      BY <3>1 DEF IndInv, Structure, ConnectedIsManaged
    <3> QED BY <3>1, <3>2, <3>3, <1>4, <1>5 DEF IndInv, TypeOK
  <2> QED BY <2>1, <2>2
<1>11. ActorsSupervised' /\ ManagedHasActor' /\ CorrelationHasActor'
  BY <1>1, <1>4, <1>5, <1>6
     DEF IndInv, TypeOK, Structure, ActorsSupervised, ManagedHasActor, CorrelationHasActor, lifeVars
<1>12. NoticeFromEnded'
  BY <1>4, <1>5 DEF IndInv, TypeOK, Structure, NoticeFromEnded
<1>13. CountMatches'
  BY <1>5, <1>7 DEF IndInv, CountMatches, lifeVars
<1>14. GaugeCoversManaged'
  <2>1. Managed' = Managed \cup {c} /\ c \notin Managed
    BY <1>1, <1>4, <1>5 DEF Managed, IndInv, TypeOK
  <2>2. Cardinality(Managed') = Cardinality(Managed) + 1 /\ Cardinality(Managed) \in Nat
    BY <2>1, MembersFinite, FS_AddElement, FS_CardinalityType
  <2> QED BY <2>2, <1>5 DEF IndInv, TypeOK, GaugeCoversManaged
<1>15. RosterConsistent'
  <2> SUFFICES ASSUME NEW q \in Pid, ~shuttingDown', IsConnected(q)'
               PROVE  roster'[participants'[q].conn] = Members' \ {q}
    BY DEF RosterConsistent
  <2>1. CASE q = p
    BY <2>1, <1>3, <1>5, <1>7 DEF IndInv, TypeOK
  <2>2. CASE q # p
    <3>1. participants'[q] = participants[q] /\ IsConnected(q)
      BY <2>2, <1>5 DEF IsConnected, IndInv, TypeOK
    <3>2. participants[q].conn \in Conn /\ participants[q].conn # c
      BY <3>1, <1>4 DEF IsConnected, IndInv, TypeOK, Participant, Structure, ConnectedIsManaged
    <3>3. roster[participants[q].conn] = Members \ {q}
      BY <3>1, <1>5 DEF IndInv, RosterConsistent, lifeVars
    <3> QED BY <3>1, <3>2, <3>3, <1>5, <1>7 DEF IndInv, TypeOK
  <2> QED BY <2>1, <2>2
<1>16. activeConnections' \in Nat /\ participantCount' \in Nat /\ mailbox' \in Seq(Notice)
  BY <1>5 DEF IndInv, TypeOK
<1>17. shuttingDown' \in BOOLEAN /\ cancelled' \in BOOLEAN /\ stopped' \in BOOLEAN
  BY <1>5 DEF IndInv, TypeOK, lifeVars
<1> QED BY <1>8, <1>9, <1>10, <1>11, <1>12, <1>13, <1>14, <1>15, <1>16, <1>17
        DEF IndInv, TypeOK, MapTypes, Structure

-----------------------------------------------------------------------------
\* Steps that touch neither a session nor a correlation id: they may rewrite
\* the other fields of participants and drop or age bindings.
LEMMA RecordStep ==
  ASSUME IndInv,
         participants' \in [Pid -> Participant \cup {None}],
         bindings' \in [Conn -> Binding \cup {None}],
         \A q \in Pid :
            /\ participants'[q] = None <=> participants[q] = None
            /\ participants[q] # None => /\ participants'[q].conn = participants[q].conn
                                        /\ participants'[q].corr = participants[q].corr,
         \A k \in Conn : bindings'[k] # None =>
            bindings[k] # None /\ bindings'[k].pid = bindings[k].pid,
         UNCHANGED <<connections, corrToPid, mailbox, lifeVars, gaugeVars, actors, roster>>
  PROVE  IndInv'
<1> USE DEF IndInv
<1>1. MapTypes'
  BY DEF TypeOK, MapTypes
<1>2. CorrelationExact'
  BY DEF Structure, CorrelationExact
<1>3. ConnectedIsManaged'
  BY DEF Structure, ConnectedIsManaged, IsConnected
<1>4. ActorsSupervised' /\ ManagedHasActor' /\ CorrelationHasActor' /\ NoticeFromEnded'
  BY DEF Structure, ActorsSupervised, ManagedHasActor, CorrelationHasActor, NoticeFromEnded, lifeVars
<1>5. Members' = Members /\ Managed' = Managed
  BY DEF Members, Managed
<1>6. CountMatches' /\ GaugeCoversManaged'
  BY <1>5 DEF CountMatches, GaugeCoversManaged, lifeVars, gaugeVars
<1>7. RosterConsistent'
  BY <1>5 DEF RosterConsistent, IsConnected, lifeVars
<1> QED BY <1>1, <1>2, <1>3, <1>4, <1>6, <1>7
        DEF TypeOK, MapTypes, Structure, lifeVars, gaugeVars

LEMMA ReconnectExpiredStep ==
  ASSUME IndInv, NEW k \in Conn, ReconnectExpired(k)
  PROVE  IndInv'
<1>1. /\ bindings' \in [Conn -> Binding \cup {None}]
      /\ \A j \in Conn : bindings'[j] # None =>
            bindings[j] # None /\ bindings'[j].pid = bindings[j].pid
      /\ participants' = participants
      /\ UNCHANGED <<connections, corrToPid, mailbox, lifeVars, gaugeVars, actors, roster>>
  BY DEF ReconnectExpired, IndInv, TypeOK
<1>2. participants' \in [Pid -> Participant \cup {None}]
  BY <1>1 DEF IndInv, TypeOK
<1> QED BY <1>1, <1>2, RecordStep

\* A mute changes nothing but the flag it sets.
LEMMA MuteStep ==
  ASSUME IndInv, NEW p \in Pid, NEW r \in Participant,
         participants[p] # None,
         r.conn = participants[p].conn, r.corr = participants[p].corr,
         participants' = [participants EXCEPT ![p] = r],
         UNCHANGED <<connections, corrToPid, bindings, mailbox, lifeVars, gaugeVars, actors, roster>>
  PROVE  IndInv'
<1>1. r # None
  OBVIOUS
<1>2. /\ participants' \in [Pid -> Participant \cup {None}]
      /\ \A q \in Pid :
            /\ participants'[q] = None <=> participants[q] = None
            /\ participants[q] # None => /\ participants'[q].conn = participants[q].conn
                                        /\ participants'[q].corr = participants[q].corr
  BY <1>1 DEF IndInv, TypeOK
<1>3. /\ bindings' \in [Conn -> Binding \cup {None}]
      /\ \A k \in Conn : bindings'[k] # None =>
            bindings[k] # None /\ bindings'[k].pid = bindings[k].pid
  BY DEF IndInv, TypeOK
<1> QED BY <1>2, <1>3, RecordStep

LEMMA SelfMuteStep ==
  ASSUME IndInv, NEW p \in Pid, NEW on \in BOOLEAN, SelfMute(p, on)
  PROVE  IndInv'
<1> DEFINE r == [participants[p] EXCEPT !.selfMuted = on]
<1>1. participants[p] # None /\ participants[p] \in Participant
  BY DEF SelfMute, IndInv, TypeOK
<1>2. r \in Participant /\ r.conn = participants[p].conn /\ r.corr = participants[p].corr
  BY <1>1, MuteUpdate
<1>3. /\ participants' = [participants EXCEPT ![p] = r]
      /\ UNCHANGED <<connections, corrToPid, bindings, mailbox, lifeVars, gaugeVars, actors, roster>>
  BY DEF SelfMute
<1> HIDE DEF r
<1> QED BY <1>1, <1>2, <1>3, MuteStep

LEMMA HostMuteStep ==
  ASSUME IndInv, NEW p \in Pid, NEW by \in Pid, NEW on \in BOOLEAN, HostMute(p, by, on)
  PROVE  IndInv'
<1> DEFINE r == [participants[p] EXCEPT !.hostMuted = on]
<1>1. participants[p] # None /\ participants[p] \in Participant
  BY DEF HostMute, IndInv, TypeOK
<1>2. r \in Participant /\ r.conn = participants[p].conn /\ r.corr = participants[p].corr
  BY <1>1, MuteUpdate
<1>3. /\ participants' = [participants EXCEPT ![p] = r]
      /\ UNCHANGED <<connections, corrToPid, bindings, mailbox, lifeVars, gaugeVars, actors, roster>>
  BY DEF HostMute
<1> HIDE DEF r
<1> QED BY <1>1, <1>2, <1>3, MuteStep

LEMMA OlderParticipantFacts ==
  ASSUME NEW r \in Participant \cup {None}
  PROVE  /\ OlderParticipant(r) \in Participant \cup {None}
         /\ OlderParticipant(r) = None <=> r = None
         /\ r # None => /\ OlderParticipant(r).conn = r.conn
                        /\ OlderParticipant(r).corr = r.corr
                        /\ OlderParticipant(r).hostMuted = r.hostMuted
<1>1. CASE r = None \/ r.conn # None \/ r.age = Grace
  BY <1>1 DEF OlderParticipant
<1>2. CASE ~(r = None \/ r.conn # None \/ r.age = Grace)
  <2>1. r \in Participant /\ OlderParticipant(r) = [r EXCEPT !.age = r.age + 1]
    BY <1>2 DEF OlderParticipant
  <2>2. r.age \in 0..Grace /\ r.age # Grace
    BY <1>2, <2>1 DEF Participant
  <2>3. r.age + 1 \in 0..Grace
    BY <2>2
  <2> HIDE <1>2
  <2>4. /\ OlderParticipant(r) \in Participant
        /\ OlderParticipant(r).conn = r.conn /\ OlderParticipant(r).corr = r.corr
        /\ OlderParticipant(r).hostMuted = r.hostMuted
    BY <2>1, <2>3, AgeUpdate
  <2> QED BY <2>1, <2>4
<1> QED BY <1>1, <1>2

LEMMA OlderBindingFacts ==
  ASSUME NEW b \in Binding \cup {None}
  PROVE  /\ OlderBinding(b) \in Binding \cup {None}
         /\ OlderBinding(b) # None => b # None /\ OlderBinding(b).pid = b.pid
<1>1. CASE b = None \/ Expired(b)
  BY <1>1 DEF OlderBinding
<1>2. CASE ~(b = None \/ Expired(b))
  <2>1. b \in Binding /\ b # None /\ OlderBinding(b) = [b EXCEPT !.age = b.age + 1]
    BY <1>2 DEF OlderBinding
  <2>2. b.age \in 0..(Ttl + 1) /\ ~(b.age > Ttl)
    BY <1>2, <2>1 DEF Binding, Expired
  <2>3. b.age + 1 \in 0..(Ttl + 1)
    BY <2>2
  <2>4. OlderBinding(b) \in Binding /\ OlderBinding(b).pid = b.pid
    BY <2>1, <2>3, BindingUpdate
  <2> QED BY <2>1, <2>4
<1> QED BY <1>1, <1>2

LEMMA TickStep ==
  ASSUME IndInv, Tick
  PROVE  IndInv'
<1>1. /\ participants' = [p \in Pid |-> OlderParticipant(participants[p])]
      /\ bindings' = [k \in Conn |-> OlderBinding(bindings[k])]
      /\ UNCHANGED <<connections, corrToPid, mailbox, lifeVars, gaugeVars, actors, roster>>
  BY DEF Tick
<1>2. /\ participants' \in [Pid -> Participant \cup {None}]
      /\ \A q \in Pid :
            /\ participants'[q] = None <=> participants[q] = None
            /\ participants[q] # None => /\ participants'[q].conn = participants[q].conn
                                        /\ participants'[q].corr = participants[q].corr
  BY <1>1, OlderParticipantFacts DEF IndInv, TypeOK
<1>3. /\ bindings' \in [Conn -> Binding \cup {None}]
      /\ \A k \in Conn : bindings'[k] # None =>
            bindings[k] # None /\ bindings'[k].pid = bindings[k].pid
  BY <1>1, OlderBindingFacts DEF IndInv, TypeOK
<1> QED BY <1>1, <1>2, <1>3, RecordStep

-----------------------------------------------------------------------------
\* How a step may move the actors: none appears, disappears or changes its
\* participant, and one that has left its loop does not enter it again.
ActorsMove ==
    /\ actors' \in [Conn -> Actor \cup {None}]
    /\ \A c \in Conn :
        /\ actors'[c] = None <=> actors[c] = None
        /\ actors[c] # None =>
            /\ actors'[c].pid = actors[c].pid
            /\ actors[c].st \in {"notified", "finished"} => actors'[c].st \in {"notified", "finished"}

LEMMA CancelledFacts ==
  ASSUME TypeOK, NEW c \in Conn, actors[c] # None
  PROVE  /\ Cancelled(c) \in Actor
         /\ Cancelled(c).pid = actors[c].pid
         /\ actors[c].st \in {"notified", "finished"} => Cancelled(c).st = actors[c].st
<1> DEFINE s == IF actors[c].st = "running" THEN "cancelled" ELSE actors[c].st
<1>1. actors[c] \in Actor
  BY DEF TypeOK
<1>2. s \in ActorState
  BY <1>1 DEF Actor, ActorState
<1>3. Cancelled(c) = [actors[c] EXCEPT !.st = s]
  BY DEF Cancelled
<1>4. /\ [actors[c] EXCEPT !.st = s] \in Actor
      /\ [actors[c] EXCEPT !.st = s].st = s
      /\ [actors[c] EXCEPT !.st = s].pid = actors[c].pid
  BY <1>1, <1>2, ActorUpdate
<1> QED BY <1>3, <1>4

\* Cancelling some of the connections moves the actors only forward.
LEMMA CancelSome ==
  ASSUME TypeOK, NEW D \in SUBSET Conn, \A c \in D : actors[c] # None,
         actors' = [c \in Conn |-> IF c \in D THEN Cancelled(c) ELSE actors[c]]
  PROVE  ActorsMove
<1>1. \A c \in D : /\ Cancelled(c) \in Actor /\ Cancelled(c) # None
                   /\ Cancelled(c).pid = actors[c].pid
                   /\ actors[c].st \in {"notified", "finished"} => Cancelled(c).st = actors[c].st
  BY CancelledFacts
<1> QED BY <1>1 DEF ActorsMove, TypeOK

\* One actor goes to the state s.
LEMMA MoveOne ==
  ASSUME TypeOK, NEW c \in Conn, NEW s \in ActorState, actors[c] # None,
         actors[c].st \in {"notified", "finished"} => s \in {"notified", "finished"},
         actors' = [actors EXCEPT ![c].st = s]
  PROVE  ActorsMove /\ actors'[c].st = s
<1> DEFINE a == [actors[c] EXCEPT !.st = s]
<1>1. a \in Actor /\ a.st = s /\ a.pid = actors[c].pid
  BY ActorUpdate DEF TypeOK
<1>2. actors' = [actors EXCEPT ![c] = a] /\ a # None
  BY <1>1 DEF TypeOK
<1> HIDE DEF a
<1> QED BY <1>1, <1>2 DEF ActorsMove, TypeOK

LEMMA NoticeConns ==
  ASSUME mailbox \in Seq(Notice)
  PROVE  \A i \in DOMAIN mailbox : mailbox[i].conn \in Conn
<1>1. \A i \in DOMAIN mailbox : mailbox[i] \in Notice
  OBVIOUS
<1> QED BY <1>1 DEF Notice

\* The notices already in the mailbox stay true when the actors move.
LEMMA NoticesKept ==
  ASSUME IndInv, ActorsMove, mailbox' = mailbox
  PROVE  NoticeFromEnded'
<1>1. \A i \in DOMAIN mailbox : mailbox[i].conn \in Conn
  BY NoticeConns DEF IndInv, TypeOK
<1> QED BY <1>1 DEF IndInv, Structure, NoticeFromEnded, ActorsMove

\* A step of the actors that leaves the maps of the meeting alone.
LEMMA ActorStep ==
  ASSUME IndInv, ActorsMove,
         NoticeFromEnded', RosterConsistent',
         mailbox' \in Seq(Notice), roster' \in [Conn -> SUBSET Pid],
         shuttingDown' \in BOOLEAN, cancelled' \in BOOLEAN,
         \A c \in Conn : (actors[c] # None /\ actors'[c].st \in {"running", "cancelled"})
                            => actors[c].st \in {"running", "cancelled"},
         UNCHANGED <<meetingVars, stopped, gaugeVars>>
  PROVE  IndInv'
<1> USE DEF IndInv
<1>1. MapTypes'
  BY DEF TypeOK, MapTypes, ActorsMove, meetingVars
<1>2. CorrelationExact' /\ ConnectedIsManaged'
  BY DEF Structure, CorrelationExact, ConnectedIsManaged, IsConnected, meetingVars
<1>3. ActorsSupervised' /\ ManagedHasActor' /\ CorrelationHasActor'
  BY DEF Structure, ActorsSupervised, ManagedHasActor, CorrelationHasActor, ActorsMove, meetingVars
<1>4. Members' = Members /\ Managed' = Managed
  BY DEF Members, Managed, meetingVars
<1>5. CountMatches' /\ GaugeCoversManaged'
  BY <1>4 DEF CountMatches, GaugeCoversManaged, gaugeVars
<1>6. stopped' \in BOOLEAN
  BY DEF TypeOK
<1> QED BY <1>1, <1>2, <1>3, <1>5, <1>6 DEF TypeOK, MapTypes, Structure, gaugeVars

LEMMA LoopOrDone ==
  ASSUME TypeOK, NEW c \in Conn, actors[c] # None
  PROVE  actors[c].st \in {"running", "cancelled"} \/ actors[c].st \in {"notified", "finished"}
  BY DEF TypeOK, Actor, ActorState

LEMMA NeverBack ==
  ASSUME TypeOK, ActorsMove
  PROVE  \A c \in Conn : (actors[c] # None /\ actors'[c].st \in {"running", "cancelled"})
                            => actors[c].st \in {"running", "cancelled"}
  BY LoopOrDone DEF ActorsMove

LEMMA RosterKept ==
  ASSUME IndInv, UNCHANGED <<meetingVars, shuttingDown, roster>>
  PROVE  RosterConsistent' /\ roster' \in [Conn -> SUBSET Pid] /\ shuttingDown' \in BOOLEAN
<1>1. Members' = Members
  BY DEF Members, meetingVars
<1>2. RosterConsistent'
  BY <1>1 DEF IndInv, RosterConsistent, IsConnected, meetingVars
<1>3. shuttingDown' \in BOOLEAN
  BY DEF IndInv, TypeOK
<1> QED BY <1>2, <1>3 DEF IndInv, TypeOK

LEMMA CancelMeetingStep ==
  ASSUME IndInv, CancelMeeting
  PROVE  IndInv'
<1>1. cancelled' \in BOOLEAN
  BY DEF CancelMeeting
<1>2. UNCHANGED <<meetingVars, mailbox, shuttingDown, stopped, gaugeVars, actors, roster>>
  BY DEF CancelMeeting
<1>3. ActorsMove /\ mailbox' \in Seq(Notice)
  BY <1>2 DEF IndInv, TypeOK, ActorsMove
<1> QED BY <1>1, <1>2, <1>3, NoticesKept, RosterKept, NeverBack, ActorStep DEF IndInv

LEMMA ConnectionDropsStep ==
  ASSUME IndInv, NEW c \in Conn, ConnectionDrops(c)
  PROVE  IndInv'
<1> DEFINE D == {c}
<1>1. /\ D \in SUBSET Conn /\ \A d \in D : actors[d] # None
      /\ actors' = [d \in Conn |-> IF d \in D THEN Cancelled(d) ELSE actors[d]]
      /\ UNCHANGED <<meetingVars, mailbox, lifeVars, gaugeVars, roster>>
  BY DEF ConnectionDrops, IndInv, TypeOK
<1> HIDE DEF D
<1>2. ActorsMove
  BY <1>1, CancelSome DEF IndInv
<1>3. cancelled' \in BOOLEAN
  BY <1>1 DEF IndInv, TypeOK, lifeVars
<1>4. UNCHANGED <<stopped, shuttingDown>> /\ mailbox' \in Seq(Notice)
  BY <1>1 DEF IndInv, TypeOK, lifeVars
<1> QED BY <1>1, <1>2, <1>3, <1>4, NoticesKept, RosterKept, NeverBack, ActorStep DEF IndInv

\* ActorFinishes and ActorPanics.
LEMMA ActorEndsStep ==
  ASSUME IndInv, NEW c \in Conn, ActorFinishes(c) \/ ActorPanics(c)
  PROVE  IndInv'
<1>1. /\ actors[c] # None
      /\ actors' = [actors EXCEPT ![c].st = "finished"]
      /\ UNCHANGED <<meetingVars, mailbox, lifeVars, gaugeVars, roster>>
  BY DEF ActorFinishes, ActorPanics
<1>2. ActorsMove
  BY <1>1, MoveOne DEF IndInv, ActorState
<1>3. cancelled' \in BOOLEAN
  BY <1>1 DEF IndInv, TypeOK, lifeVars
<1>4. UNCHANGED <<stopped, shuttingDown>> /\ mailbox' \in Seq(Notice)
  BY <1>1 DEF IndInv, TypeOK, lifeVars
<1> QED BY <1>1, <1>2, <1>3, <1>4, NoticesKept, RosterKept, NeverBack, ActorStep DEF IndInv

LEMMA ActorNotifiesStep ==
  ASSUME IndInv, NEW c \in Conn, ActorNotifies(c)
  PROVE  IndInv'
<1> DEFINE n == [conn |-> c, pid |-> actors[c].pid]
<1>1. /\ actors[c] # None
      /\ actors' = [actors EXCEPT ![c].st = "notified"]
      /\ mailbox' = mailbox \/ mailbox' = Append(mailbox, n)
      /\ UNCHANGED <<meetingVars, lifeVars, gaugeVars, roster>>
  BY DEF ActorNotifies
<1>2. ActorsMove /\ actors'[c].st = "notified"
  BY <1>1, MoveOne DEF IndInv, ActorState
<1>3. actors[c].pid \in Pid
  BY <1>1 DEF IndInv, TypeOK, Actor
<1>4. n \in Notice /\ n.conn = c /\ n.pid = actors[c].pid
  BY <1>3 DEF Notice
<1> HIDE DEF n
<1>5. mailbox' \in Seq(Notice) /\ NoticeFromEnded'
  <2>1. CASE mailbox' = mailbox
    BY <2>1, <1>2, NoticesKept DEF IndInv, TypeOK
  <2>2. CASE mailbox' = Append(mailbox, n)
    <3>0. mailbox \in Seq(Notice)
      BY DEF IndInv, TypeOK
    <3>1. mailbox' \in Seq(Notice)
      BY <2>2, <3>0, <1>4
    <3>2. \A i \in DOMAIN mailbox' : mailbox'[i] = n \/ (i \in DOMAIN mailbox /\ mailbox'[i] = mailbox[i])
      BY <2>2, <3>0, <1>4
    <3>3. \A i \in DOMAIN mailbox : mailbox[i].conn \in Conn
      BY <3>0, NoticeConns
    <3>4. NoticeFromEnded'
      BY <3>2, <3>3, <1>1, <1>2, <1>4 DEF IndInv, Structure, NoticeFromEnded, ActorsMove
    <3> QED BY <3>1, <3>4
  <2> QED BY <1>1, <2>1, <2>2
<1>6. cancelled' \in BOOLEAN
  BY <1>1 DEF IndInv, TypeOK, lifeVars
<1>7. UNCHANGED <<stopped, shuttingDown>>
  BY <1>1 DEF lifeVars
<1> QED BY <1>1, <1>2, <1>5, <1>6, <1>7, RosterKept, NeverBack, ActorStep DEF IndInv

LEMMA EndMeetingStep ==
  ASSUME IndInv, EndMeeting
  PROVE  IndInv'
<1>1. /\ Managed \in SUBSET Conn /\ \A c \in Managed : actors[c] # None
      /\ actors' = [c \in Conn |-> IF c \in Managed THEN Cancelled(c) ELSE actors[c]]
  BY DEF EndMeeting, Managed, IndInv, Structure, ManagedHasActor
<1>2. ActorsMove
  BY <1>1, CancelSome DEF IndInv
<1>3. shuttingDown' \in BOOLEAN /\ cancelled' \in BOOLEAN /\ RosterConsistent'
  BY DEF EndMeeting, RosterConsistent
<1>4. roster' \in [Conn -> SUBSET Pid] /\ mailbox' = mailbox /\ mailbox' \in Seq(Notice)
  BY DEF EndMeeting, IndInv, TypeOK
<1>5. UNCHANGED <<meetingVars, stopped, gaugeVars>>
  BY DEF EndMeeting
<1> QED BY <1>2, <1>3, <1>4, <1>5, NoticesKept, NeverBack, ActorStep DEF IndInv

-----------------------------------------------------------------------------
\* The participants ps are removed with their correlation ids, the others are
\* told; bindings may be dropped and actors cancelled.
LEMMA RemoveStep ==
  ASSUME IndInv, NEW ps \in SUBSET Members,
         participants' = [q \in Pid |-> IF q \in ps THEN None ELSE participants[q]],
         corrToPid' = [k \in Conn |-> IF \E q \in ps : participants[q].corr = k
                                      THEN None ELSE corrToPid[k]],
         bindings' \in [Conn -> Binding \cup {None}],
         \A k \in Conn : bindings'[k] # None => bindings'[k] = bindings[k],
         ActorsMove,
         participantCount' = participantCount - Cardinality(ps),
         roster' = LeftRoster(ps),
         ~stopped,
         UNCHANGED <<connections, mailbox, lifeVars, activeConnections>>
  PROVE  IndInv'
<1> USE DEF IndInv
<1>1. MapTypes'
  <2>1. roster' \in [Conn -> SUBSET Pid]
    BY DEF TypeOK, LeftRoster
  <2> QED BY <2>1 DEF TypeOK, MapTypes, ActorsMove
<1>2. CorrelationExact'
  <2> SUFFICES ASSUME NEW k \in Conn, NEW q \in Pid
               PROVE  /\ (corrToPid'[k] = q) <=> (participants'[q] # None /\ participants'[q].corr = k)
                      /\ (corrToPid'[k] = q /\ bindings'[k] # None) => bindings'[k].pid = q
    BY DEF CorrelationExact
  <2>1. /\ (corrToPid[k] = q) <=> (participants[q] # None /\ participants[q].corr = k)
        /\ (corrToPid[k] = q /\ bindings[k] # None) => bindings[k].pid = q
    BY DEF Structure, CorrelationExact
  <2>2. \A r \in ps : participants[r] # None /\ (participants[r].corr = k => corrToPid[k] = r)
    BY DEF Structure, CorrelationExact, Members
  <2>3. CASE q \in ps
    BY <2>1, <2>2, <2>3
  <2>4. CASE q \notin ps
    <3>1. participants'[q] = participants[q]
      BY <2>4
    <3>2. corrToPid'[k] = q <=> corrToPid[k] = q
      BY <2>2, <2>4
    <3> QED BY <2>1, <3>1, <3>2
  <2> QED BY <2>3, <2>4
<1>3. ConnectedIsManaged'
  BY DEF Structure, ConnectedIsManaged, IsConnected
<1>4. ActorsSupervised' /\ ManagedHasActor' /\ CorrelationHasActor'
  BY NeverBack DEF Structure, ActorsSupervised, ManagedHasActor, CorrelationHasActor, ActorsMove, lifeVars
<1>5. NoticeFromEnded'
  BY NoticesKept
<1>6. Members' = Members \ ps /\ Managed' = Managed
  BY DEF Members, Managed
<1>7. CountMatches' /\ participantCount' \in Nat
  <2>1. ps = Members \cap ps
    OBVIOUS
  <2>2. /\ Cardinality(Members \ ps) = Cardinality(Members) - Cardinality(Members \cap ps)
        /\ IsFiniteSet(Members \ ps)
    BY MembersFinite, FS_Difference
  <2>3. Cardinality(Members \ ps) \in Nat
    BY <2>2, FS_CardinalityType
  <2>4. participantCount = Cardinality(Members)
    BY DEF CountMatches
  <2> QED BY <1>6, <2>1, <2>2, <2>3, <2>4 DEF CountMatches
<1>8. GaugeCoversManaged'
  BY <1>6 DEF GaugeCoversManaged
<1>9. RosterConsistent'
  <2> SUFFICES ASSUME NEW q \in Pid, ~shuttingDown', IsConnected(q)'
               PROVE  roster'[participants'[q].conn] = Members' \ {q}
    BY DEF RosterConsistent
  <2>1. q \notin ps /\ participants'[q] = participants[q] /\ IsConnected(q) /\ q \in Members \ ps
    BY DEF IsConnected, Members
  <2>2. participants[q].conn \in Conn
    BY <2>1 DEF IsConnected, TypeOK, Participant
  <2>3. roster[participants[q].conn] = Members \ {q}
    BY <2>1 DEF RosterConsistent, lifeVars
  <2>4. roster'[participants[q].conn] = roster[participants[q].conn] \ ps
    BY <2>1, <2>2 DEF LeftRoster
  <2> QED BY <1>6, <2>1, <2>3, <2>4
<1>10. shuttingDown' \in BOOLEAN /\ cancelled' \in BOOLEAN /\ stopped' \in BOOLEAN
  BY DEF TypeOK, lifeVars
<1>11. mailbox' \in Seq(Notice) /\ activeConnections' \in Nat
  BY DEF TypeOK
<1> QED BY <1>1, <1>2, <1>3, <1>4, <1>5, <1>7, <1>8, <1>9, <1>10, <1>11
        DEF TypeOK, MapTypes, Structure

LEMMA GraceTickStep ==
  ASSUME IndInv, GraceTick
  PROVE  IndInv'
<1>1. TimedOut \in SUBSET Members
  BY DEF TimedOut, IsDisconnected, Members
<1>2. /\ bindings' \in [Conn -> Binding \cup {None}]
      /\ \A k \in Conn : bindings'[k] # None => bindings'[k] = bindings[k]
      /\ ActorsMove
  BY DEF GraceTick, IndInv, TypeOK, ActorsMove
<1>3. /\ participants' = [q \in Pid |-> IF q \in TimedOut THEN None ELSE participants[q]]
      /\ corrToPid' = [k \in Conn |-> IF \E q \in TimedOut : participants[q].corr = k
                                      THEN None ELSE corrToPid[k]]
      /\ participantCount' = participantCount - Cardinality(TimedOut)
      /\ roster' = LeftRoster(TimedOut)
      /\ ~stopped
      /\ UNCHANGED <<connections, mailbox, lifeVars, activeConnections>>
  BY DEF GraceTick, CountAfterTimeout
<1> QED BY <1>1, <1>2, <1>3, RemoveStep

LEMMA LeaveStep ==
  ASSUME IndInv, NEW p \in Pid, Leave(p)
  PROVE  IndInv'
<1> DEFINE ps == {p}
           x  == participants[p].conn
<1>1. participants[p] \in Participant /\ participants[p] # None
  BY DEF Leave, IndInv, TypeOK
<1>2. participants[p].corr \in Conn /\ (x = None \/ x \in Conn)
  BY <1>1 DEF Participant
<1>3. ps \in SUBSET Members /\ Cardinality(ps) = 1
  BY <1>1, FS_Singleton DEF Members
<1>4. participants' = [q \in Pid |-> IF q \in ps THEN None ELSE participants[q]]
  BY DEF Leave, IndInv, TypeOK
<1>5. corrToPid' = [k \in Conn |-> IF \E q \in ps : participants[q].corr = k
                                   THEN None ELSE corrToPid[k]]
  BY <1>2 DEF Leave, IndInv, TypeOK
<1>6. /\ bindings' \in [Conn -> Binding \cup {None}]
      /\ \A k \in Conn : bindings'[k] # None => bindings'[k] = bindings[k]
  BY DEF Leave, IndInv, TypeOK
<1>7. ActorsMove
  <2>1. CASE x = None
    BY <2>1 DEF Leave, IndInv, TypeOK, ActorsMove
  <2>2. CASE x # None
    <3> DEFINE D == {x}
    <3>1. actors[x] # None /\ x \in Conn
      BY <1>1, <1>2, <2>2 DEF IndInv, Structure, ConnectedIsManaged, IsConnected, ManagedHasActor
    <3>2. actors' = [d \in Conn |-> IF d \in D THEN Cancelled(d) ELSE actors[d]]
      BY <2>2, <3>1 DEF Leave, IndInv, TypeOK
    <3>3. D \in SUBSET Conn /\ \A d \in D : actors[d] # None
      BY <3>1
    <3> HIDE DEF D
    <3> QED BY <3>2, <3>3, CancelSome DEF IndInv
  <2> QED BY <2>1, <2>2
<1>8. /\ participantCount' = participantCount - Cardinality(ps)
      /\ roster' = LeftRoster(ps)
      /\ ~stopped
      /\ UNCHANGED <<connections, mailbox, lifeVars, activeConnections>>
  BY <1>3 DEF Leave
<1> HIDE DEF ps
<1> QED BY <1>3, <1>4, <1>5, <1>6, <1>7, <1>8, RemoveStep

LEMMA GracefulShutdownStep ==
  ASSUME IndInv, GracefulShutdown
  PROVE  IndInv'
<1> USE DEF IndInv
<1>1. /\ Managed \in SUBSET Conn /\ \A c \in Managed : actors[c] # None
      /\ actors' = [c \in Conn |-> IF c \in Managed THEN Cancelled(c) ELSE actors[c]]
  BY DEF GracefulShutdown, Managed, Structure, ManagedHasActor
<1>2. ActorsMove
  BY <1>1, CancelSome
<1>3. MapTypes'
  BY <1>2 DEF GracefulShutdown, MapTypes, TypeOK, ActorsMove
<1>4. Structure'
  BY DEF GracefulShutdown, Structure, CorrelationExact, ConnectedIsManaged, IsConnected,
         ActorsSupervised, ManagedHasActor, CorrelationHasActor, NoticeFromEnded
<1>5. CountMatches' /\ RosterConsistent'
  BY DEF GracefulShutdown, CountMatches, RosterConsistent, IsConnected
<1>6. GaugeCoversManaged' /\ activeConnections' \in Nat /\ participantCount' \in Nat
  <2>1. Managed' = {}
    BY DEF GracefulShutdown, Managed
  <2>2. Cardinality(Managed') = 0
    BY <2>1, FS_EmptySet
  <2> QED BY <2>2 DEF GracefulShutdown, GaugeCoversManaged, TypeOK, gaugeVars
<1>7. shuttingDown' \in BOOLEAN /\ cancelled' \in BOOLEAN /\ stopped' \in BOOLEAN
  BY DEF GracefulShutdown, TypeOK
<1>8. mailbox' \in Seq(Notice)
  BY DEF GracefulShutdown
<1> QED BY <1>3, <1>4, <1>5, <1>6, <1>7, <1>8 DEF TypeOK, MapTypes

-----------------------------------------------------------------------------
LEMMA StutterStep ==
  ASSUME IndInv, UNCHANGED vars
  PROVE  IndInv'
<1>1. UNCHANGED <<meetingVars, mailbox, shuttingDown, stopped, gaugeVars, actors, roster>>
  BY DEF vars, lifeVars
<1>2. cancelled' \in BOOLEAN
  BY DEF vars, lifeVars, IndInv, TypeOK
<1>3. ActorsMove /\ mailbox' \in Seq(Notice)
  BY <1>1 DEF IndInv, TypeOK, ActorsMove
<1> QED BY <1>1, <1>2, <1>3, NoticesKept, RosterKept, NeverBack, ActorStep DEF IndInv

LEMMA NextIndInv ==
  ASSUME IndInv, [Next]_vars
  PROVE  IndInv'
<1>1. CASE \E c \in Conn, p \in Pid : Join(c, p)
  BY <1>1, JoinStep
<1>2. CASE ConnectionDisconnected
  BY <1>2, ConnectionDisconnectedStep
<1>3. CASE \E c, k \in Conn : Reconnect(c, k)
  BY <1>3, ReconnectStep
<1>4. CASE \E k \in Conn : ReconnectExpired(k)
  BY <1>4, ReconnectExpiredStep
<1>5. CASE \E p \in Pid : Leave(p)
  BY <1>5, LeaveStep
<1>6. CASE \E p \in Muters, on \in BOOLEAN : SelfMute(p, on)
  BY <1>6, SelfMuteStep
<1>7. CASE \E p \in Muters, by \in Pid, on \in BOOLEAN : HostMute(p, by, on)
  BY <1>7, HostMuteStep
<1>8. CASE EndMeeting
  BY <1>8, EndMeetingStep
<1>9. CASE GraceTick
  BY <1>9, GraceTickStep
<1>10. CASE \E c \in Conn : CheckConnectionHealth(c)
  BY <1>10, CheckConnectionHealthStep
<1>11. CASE GracefulShutdown
  BY <1>11, GracefulShutdownStep
<1>12. CASE CancelMeeting
  BY <1>12, CancelMeetingStep
<1>13. CASE \E c \in Conn : ConnectionDrops(c)
  BY <1>13, ConnectionDropsStep
<1>14. CASE \E c \in Conn : ActorNotifies(c)
  BY <1>14, ActorNotifiesStep
<1>15. CASE \E c \in Conn : ActorFinishes(c) \/ ActorPanics(c)
  BY <1>15, ActorEndsStep
<1>16. CASE Tick
  BY <1>16, TickStep
<1>17. CASE UNCHANGED vars
  BY <1>17, StutterStep
<1> QED BY <1>1, <1>2, <1>3, <1>4, <1>5, <1>6, <1>7, <1>8, <1>9, <1>10, <1>11, <1>12,
           <1>13, <1>14, <1>15, <1>16, <1>17 DEF Next

\* The inductive invariant holds in every reachable state of the meeting actor.
THEOREM Inductive == Spec => []IndInv
<1>1. Init => IndInv
  BY InitIndInv
<1>2. IndInv /\ [Next]_vars => IndInv'
  BY NextIndInv
<1> QED BY <1>1, <1>2, PTL DEF Spec

\* Type correctness.  With it, both gauges are natural numbers: the unsigned
\* decrements of metrics.rs never wrap.
THEOREM TypeCorrect == Spec => []TypeOK
<1>1. IndInv => TypeOK
  BY DEF IndInv
<1> QED BY <1>1, Inductive, PTL

\* The count reported to the global controller is the number of participants,
\* through every join, leave, reconnection and removal by timeout.
THEOREM CountCorrect == Spec => []CountMatches
<1>1. IndInv => CountMatches
  BY DEF IndInv
<1> QED BY <1>1, Inductive, PTL

\* A correlation id leads to the one participant whose current id it is, and
\* to no other, whatever order tokens rotate, expire and are dropped in.
THEOREM CorrelationCorrect == Spec => []CorrelationExact
<1>1. IndInv => CorrelationExact
  BY DEF IndInv, Structure
<1> QED BY <1>1, Inductive, PTL

\* Every actor that still runs is a managed connection of its participant, and
\* the connection of a connected participant is managed.
THEOREM SupervisionCorrect == Spec => []Supervised
<1>1. IndInv => Supervised
  BY DEF IndInv, Structure, Supervised
<1> QED BY <1>1, Inductive, PTL

\* The connection gauge is never below the number of managed connections.
THEOREM GaugeCorrect == Spec => []GaugeCoversManaged
<1>1. IndInv => GaugeCoversManaged
  BY DEF IndInv
<1> QED BY <1>1, Inductive, PTL

\* Both counters are right in every state.
THEOREM CountersCorrect == Spec => []Counted
<1>1. IndInv => Counted
  BY DEF IndInv, Counted
<1> QED BY <1>1, Inductive, PTL

\* Snapshots and later updates add up: a connected participant has been told
\* of exactly the other members, until the meeting ends.
THEOREM RosterCorrect == Spec => []RosterConsistent
<1>1. IndInv => RosterConsistent
  BY DEF IndInv
<1> QED BY <1>1, Inductive, PTL

-----------------------------------------------------------------------------
\* A step by which the host's mute of p does not change.
MuteKept(p) ==
    (participants[p] # None /\ participants'[p] # None)
        => participants'[p].hostMuted = participants[p].hostMuted

LEMMA MarkDisconnectedKeepsMute ==
  ASSUME TypeOK, NEW p \in Pid, NEW q \in Pid, participants' = MarkDisconnected(q)
  PROVE  MuteKept(p)
<1>1. CASE p = q /\ participants[p] # None
  <2>1. participants[p] \in Participant
    BY <1>1 DEF TypeOK
  <2>2. participants'[p] = [participants[p] EXCEPT !.conn = None, !.age = 0]
    BY <1>1 DEF MarkDisconnected, TypeOK
  <2> QED BY <2>1, <2>2, DroppedRecord DEF MuteKept
<1>2. CASE ~(p = q /\ participants[p] # None)
  BY <1>2 DEF MarkDisconnected, MuteKept, TypeOK
<1> QED BY <1>1, <1>2

\* Only HostMute, which requires a host in the meeting, changes a host's mute.
LEMMA OnlyHostMutes ==
  ASSUME IndInv, [Next]_vars, NEW p \in Pid
  PROVE  MuteKept(p) \/ \E h \in Host : participants[h] # None
<1>0. TypeOK /\ participants \in [Pid -> Participant \cup {None}]
  BY DEF IndInv, TypeOK
<1>1. CASE \E c \in Conn, q \in Pid : Join(c, q)
  BY <1>0, <1>1 DEF Join, MuteKept
<1>2. CASE ConnectionDisconnected
  <2>1. Head(mailbox).pid \in Pid
    <3>1. Head(mailbox) \in Notice
      BY <1>0, <1>2 DEF ConnectionDisconnected, TypeOK
    <3> QED BY <3>1 DEF Notice
  <2>2. participants' = MarkDisconnected(Head(mailbox).pid)
    BY <1>2 DEF ConnectionDisconnected
  <2> QED BY <1>0, <2>1, <2>2, MarkDisconnectedKeepsMute
<1>3. CASE \E c, k \in Conn : Reconnect(c, k)
  <2>1. PICK c \in Conn, k \in Conn : Reconnect(c, k)
    BY <1>3
  <2>2. corrToPid[k] \in Pid /\ participants[corrToPid[k]] \in Participant
    BY <1>0, <2>1 DEF Reconnect, TypeOK
  <2>3. participants' = [participants EXCEPT ![corrToPid[k]] =
            [participants[corrToPid[k]] EXCEPT !.conn = c, !.age = 0, !.corr = c]]
    BY <2>1 DEF Reconnect, Rejoined
  <2>4. CASE p = corrToPid[k]
    <3>1. participants[p] \in Participant
          /\ participants'[p] = [participants[p] EXCEPT !.conn = c, !.age = 0, !.corr = c]
      BY <1>0, <2>2, <2>3, <2>4
    <3>2. [participants[p] EXCEPT !.conn = c, !.age = 0, !.corr = c].hostMuted
            = participants[p].hostMuted
      BY <3>1, ReconnectedRecord
    <3> QED BY <3>1, <3>2 DEF MuteKept
  <2>5. CASE p # corrToPid[k]
    <3>1. participants'[p] = participants[p]
      BY <1>0, <2>2, <2>3, <2>5
    <3> QED BY <3>1 DEF MuteKept
  <2> QED BY <2>4, <2>5
<1>4. CASE \E q \in Pid : Leave(q)
  BY <1>0, <1>4 DEF Leave, MuteKept
<1>5. CASE \E q \in Muters, on \in BOOLEAN : SelfMute(q, on)
  <2>1. PICK q \in Pid, on \in BOOLEAN : SelfMute(q, on)
    BY <1>5
  <2>2. /\ participants[q] # None
        /\ participants' = [participants EXCEPT ![q] = [participants[q] EXCEPT !.selfMuted = on]]
    BY <2>1 DEF SelfMute
  <2>3. CASE p = q
    <3>1. participants[p] \in Participant
          /\ participants'[p] = [participants[p] EXCEPT !.selfMuted = on]
      BY <1>0, <2>2, <2>3
    <3> QED BY <3>1, MuteUpdate DEF MuteKept
  <2>4. CASE p # q
    <3>1. participants'[p] = participants[p]
      BY <1>0, <2>2, <2>4
    <3> QED BY <3>1 DEF MuteKept
  <2> QED BY <2>3, <2>4
<1>6. CASE \E q \in Muters, by \in Pid, on \in BOOLEAN : HostMute(q, by, on)
  BY <1>6 DEF HostMute
<1>7. CASE GraceTick
  BY <1>0, <1>7 DEF GraceTick, MuteKept
<1>8. CASE \E c \in Conn : CheckConnectionHealth(c)
  <2>1. PICK c \in Conn : CheckConnectionHealth(c)
    BY <1>8
  <2>2. connections[c] \in Pid /\ participants' = MarkDisconnected(connections[c])
    BY <1>0, <2>1 DEF CheckConnectionHealth, TypeOK
  <2> QED BY <1>0, <2>2, MarkDisconnectedKeepsMute
<1>9. CASE GracefulShutdown
  BY <1>9 DEF GracefulShutdown, MuteKept
<1>10. CASE Tick
  <2>1. participants'[p] = OlderParticipant(participants[p])
    BY <1>10 DEF Tick
  <2>2. participants[p] \in Participant \cup {None}
    BY <1>0
  <2> QED BY <2>1, <2>2, OlderParticipantFacts DEF MuteKept
<1>11. CASE participants' = participants
  BY <1>11 DEF MuteKept
<1>12. \/ EndMeeting \/ CancelMeeting \/ UNCHANGED vars
       \/ \E c \in Conn : \/ ReconnectExpired(c) \/ ConnectionDrops(c) \/ ActorNotifies(c)
                          \/ ActorFinishes(c) \/ ActorPanics(c)
       => participants' = participants
  BY DEF EndMeeting, CancelMeeting, ReconnectExpired, ConnectionDrops, ActorNotifies,
         ActorFinishes, ActorPanics, vars, meetingVars
<1> QED BY <1>1, <1>2, <1>3, <1>4, <1>5, <1>6, <1>7, <1>8, <1>9, <1>10, <1>11, <1>12 DEF Next

\* A host's mute never changes unless a host is in the meeting: no self mute,
\* drop, panic, reconnection or timeout of the muted participant lifts it.
THEOREM HostMuteCorrect == Spec => HostMuteBinds
<1>1. IndInv /\ [Next]_vars =>
        [\A p \in Pid :
            (/\ participants[p] # None /\ participants'[p] # None
             /\ participants[p].hostMuted # participants'[p].hostMuted)
                => \E h \in Host : participants[h] # None]_vars
  BY OnlyHostMutes DEF MuteKept
<1> QED BY <1>1, Inductive, PTL DEF Spec, HostMuteBinds
-----------------------------------------------------------------------------
(***************************************************************************)
(* The mailboxes, for any number of participants and any buffer sizes.     *)
(* The invariant ties every message under way to the state of its sender:  *)
(* a notice belongs to an actor that has closed, which no longer empties   *)
(* its own mailbox.                                                        *)
(***************************************************************************)

In(s, msg) == \E i \in 1..Len(s) : s[i] = msg

JoinOf(p)   == [kind |-> "join", from |-> p]
NoticeOf(p) == [kind |-> "notice", from |-> p]

\* The sender of a message that is under way is where it sent it.
SendersKnown ==
    \A p \in Peer :
        /\ (In(inbox, JoinOf(p)) \/ In(waiting, JoinOf(p))) => actor[p] = "joining"
        /\ In(inbox, NoticeOf(p)) => actor[p] \in {"notifying", "stopped"}
        /\ In(waiting, NoticeOf(p)) => actor[p] = "notifying"

\* The meeting has connections of participants that joined only, and a notice of
\* each one that closed is under way.
HandlesKnown ==
    \A p \in handles :
        /\ actor[p] \notin {"absent", "joining"}
        /\ actor[p] \in {"notifying", "stopped"} =>
              In(inbox, NoticeOf(p)) \/ In(waiting, NoticeOf(p))

Unique(s) == \A i, j \in 1..Len(s) : s[i] = s[j] => i = j

\* No message is under way twice.
SentOnce ==
    /\ Unique(inbox)
    /\ Unique(waiting)
    /\ \A b \in Message : ~(In(inbox, b) /\ In(waiting, b))

MailInv == MailTypeOK /\ NoSlotLost /\ SentOnce /\ SendersKnown /\ HandlesKnown

LEMMA InAppend ==
    ASSUME NEW s \in Seq(Message), NEW a \in Message, NEW b \in Message
    PROVE  In(Append(s, a), b) <=> (In(s, b) \/ a = b)
  BY DEF In

LEMMA InTail ==
    ASSUME NEW s \in Seq(Message), s # <<>>, NEW b \in Message
    PROVE  In(s, b) <=> (Head(s) = b \/ In(Tail(s), b))
  BY DEF In

LEMMA UniqueAppend ==
    ASSUME NEW s \in Seq(Message), NEW a \in Message, Unique(s), ~In(s, a)
    PROVE  Unique(Append(s, a))
  BY DEF In, Unique

LEMMA UniqueTail ==
    ASSUME NEW s \in Seq(Message), s # <<>>, Unique(s)
    PROVE  Unique(Tail(s)) /\ ~In(Tail(s), Head(s))
  BY DEF In, Unique

LEMMA Distinct ==
    ASSUME NEW p \in Peer, NEW q \in Peer
    PROVE  /\ JoinOf(p) \in Message /\ NoticeOf(p) \in Message
           /\ JoinOf(p) # NoticeOf(q)
           /\ p # q => JoinOf(p) # JoinOf(q) /\ NoticeOf(p) # NoticeOf(q)
<1>1. JoinOf(p).kind # NoticeOf(q).kind BY DEF JoinOf, NoticeOf
<1>2. p # q => JoinOf(p).from # JoinOf(q).from /\ NoticeOf(p).from # NoticeOf(q).from
  BY DEF JoinOf, NoticeOf
<1>3. JoinOf(p) \in Message /\ NoticeOf(p) \in Message BY DEF JoinOf, NoticeOf, Message
<1> QED BY <1>1, <1>2, <1>3

\* A message sent is in the mailbox or waits, and nothing else changes there.
LEMMA SendFacts ==
    ASSUME MailTypeOK, NoSlotLost, NEW a \in Message, Send(a)
    PROVE  /\ inbox' \in Seq(Message) /\ Len(inbox') <= MeetingBuffer
           /\ waiting' \in Seq(Message)
           /\ waiting' # <<>> => Len(inbox') = MeetingBuffer
           /\ \A b \in Message :
                 /\ In(inbox, b) => In(inbox', b)
                 /\ In(waiting, b) => In(waiting', b)
                 /\ In(inbox', b) => In(inbox, b) \/ a = b
                 /\ In(waiting', b) => In(waiting, b) \/ a = b
                 /\ a = b => In(inbox', b) \/ In(waiting', b)
<1> USE BuffersAssumption
<1>1. CASE waiting = <<>> /\ Len(inbox) < MeetingBuffer
  <2>1. inbox' = Append(inbox, a) /\ waiting' = waiting BY <1>1 DEF Send
  <2>2. inbox' \in Seq(Message) /\ Len(inbox') <= MeetingBuffer BY <1>1, <2>1 DEF MailTypeOK
  <2>3. \A b \in Message : In(inbox', b) <=> (In(inbox, b) \/ a = b)
    BY <2>1, InAppend DEF MailTypeOK
  <2> QED BY <1>1, <2>1, <2>2, <2>3 DEF MailTypeOK
<1>2. CASE ~(waiting = <<>> /\ Len(inbox) < MeetingBuffer)
  <2>1. inbox' = inbox /\ waiting' = Append(waiting, a) BY <1>2 DEF Send
  <2>2. waiting' \in Seq(Message) BY <2>1 DEF MailTypeOK
  <2>3. \A b \in Message : In(waiting', b) <=> (In(waiting, b) \/ a = b)
    BY <2>1, InAppend DEF MailTypeOK
  <2>4. Len(inbox) = MeetingBuffer BY <1>2 DEF MailTypeOK, NoSlotLost
  <2> QED BY <2>1, <2>2, <2>3, <2>4 DEF MailTypeOK
<1> QED BY <1>1, <1>2

\* The head leaves the mailbox, and the first sender in line takes its slot.
LEMMA TakeFacts ==
    ASSUME MailTypeOK, NoSlotLost, inbox # <<>>, TakeHead
    PROVE  /\ inbox' \in Seq(Message) /\ Len(inbox') <= MeetingBuffer
           /\ waiting' \in Seq(Message)
           /\ waiting' # <<>> => Len(inbox') = MeetingBuffer
           /\ \A b \in Message :
                 /\ (In(inbox', b) \/ In(waiting', b)) => (In(inbox, b) \/ In(waiting, b))
                 /\ In(waiting', b) => In(waiting, b)
                 /\ (In(inbox, b) \/ In(waiting, b)) =>
                        (In(inbox', b) \/ In(waiting', b) \/ Head(inbox) = b)
<1> USE BuffersAssumption
<1>0. /\ Head(inbox) \in Message /\ Tail(inbox) \in Seq(Message)
      /\ Len(Tail(inbox)) = Len(inbox) - 1
      /\ \A b \in Message : In(inbox, b) <=> (Head(inbox) = b \/ In(Tail(inbox), b))
  BY InTail DEF MailTypeOK
<1>1. CASE waiting = <<>>
  <2>1. inbox' = Tail(inbox) /\ waiting' = waiting BY <1>1 DEF TakeHead
  <2>2. Len(inbox') <= MeetingBuffer BY <1>0, <2>1 DEF MailTypeOK
  <2>3. \A b \in Message : ~In(waiting', b) BY <1>1, <2>1 DEF In
  <2>4. \A b \in Message : In(inbox, b) <=> (Head(inbox) = b \/ In(inbox', b))
    BY <1>0, <2>1
  <2> QED BY <1>0, <1>1, <2>1, <2>2, <2>3, <2>4 DEF MailTypeOK
<1>2. CASE waiting # <<>>
  <2>1. /\ Head(waiting) \in Message /\ Tail(waiting) \in Seq(Message)
        /\ \A b \in Message : In(waiting, b) <=> (Head(waiting) = b \/ In(Tail(waiting), b))
    BY <1>2, InTail DEF MailTypeOK
  <2>2. inbox' = Append(Tail(inbox), Head(waiting)) /\ waiting' = Tail(waiting)
    BY <1>2 DEF TakeHead
  <2>3. \A b \in Message : In(inbox', b) <=> (In(Tail(inbox), b) \/ Head(waiting) = b)
    BY <1>0, <2>1, <2>2, InAppend
  <2>4. inbox' \in Seq(Message) /\ Len(inbox') = Len(inbox) BY <1>0, <2>1, <2>2 DEF MailTypeOK
  <2>5. Len(inbox) = MeetingBuffer BY <1>2 DEF NoSlotLost
  <2> QED BY <1>0, <2>1, <2>2, <2>3, <2>4, <2>5 DEF MailTypeOK
<1> QED BY <1>1, <1>2

\* A message that is not under way yet may be sent.
LEMMA SendOnce ==
    ASSUME MailTypeOK, SentOnce, NEW a \in Message, Send(a), ~In(inbox, a), ~In(waiting, a)
    PROVE  SentOnce'
<1>1. CASE waiting = <<>> /\ Len(inbox) < MeetingBuffer
  <2>1. inbox' = Append(inbox, a) /\ waiting' = waiting BY <1>1 DEF Send
  <2>2. Unique(inbox') BY <2>1, UniqueAppend DEF MailTypeOK, SentOnce
  <2>3. \A b \in Message : ~In(waiting', b) BY <1>1, <2>1 DEF In
  <2> QED BY <2>1, <2>2, <2>3 DEF SentOnce
<1>2. CASE ~(waiting = <<>> /\ Len(inbox) < MeetingBuffer)
  <2>1. inbox' = inbox /\ waiting' = Append(waiting, a) BY <1>2 DEF Send
  <2>2. Unique(waiting') BY <2>1, UniqueAppend DEF MailTypeOK, SentOnce
  <2>3. \A b \in Message : In(waiting', b) <=> (In(waiting, b) \/ a = b)
    BY <2>1, InAppend DEF MailTypeOK
  <2> QED BY <2>1, <2>2, <2>3 DEF SentOnce
<1> QED BY <1>1, <1>2

\* A message that is taken is under way no more.
LEMMA TakeOnce ==
    ASSUME MailTypeOK, SentOnce, inbox # <<>>, TakeHead
    PROVE  SentOnce' /\ ~In(inbox', Head(inbox)) /\ ~In(waiting', Head(inbox))
<1>0. /\ Head(inbox) \in Message /\ Tail(inbox) \in Seq(Message)
      /\ \A b \in Message : In(inbox, b) <=> (Head(inbox) = b \/ In(Tail(inbox), b))
      /\ Unique(Tail(inbox)) /\ ~In(Tail(inbox), Head(inbox))
  BY InTail, UniqueTail DEF MailTypeOK, SentOnce
<1>1. CASE waiting = <<>>
  <2>1. inbox' = Tail(inbox) /\ waiting' = waiting BY <1>1 DEF TakeHead
  <2>2. \A b \in Message : ~In(waiting', b) BY <1>1, <2>1 DEF In
  <2> QED BY <1>0, <2>1, <2>2 DEF SentOnce
<1>2. CASE waiting # <<>>
  <2>1. /\ Head(waiting) \in Message /\ Tail(waiting) \in Seq(Message)
        /\ \A b \in Message : In(waiting, b) <=> (Head(waiting) = b \/ In(Tail(waiting), b))
        /\ Unique(Tail(waiting)) /\ ~In(Tail(waiting), Head(waiting))
    BY <1>2, InTail, UniqueTail DEF MailTypeOK, SentOnce
  <2>2. inbox' = Append(Tail(inbox), Head(waiting)) /\ waiting' = Tail(waiting)
    BY <1>2 DEF TakeHead
  <2>3. \A b \in Message : In(inbox', b) <=> (In(Tail(inbox), b) \/ Head(waiting) = b)
    BY <1>0, <2>1, <2>2, InAppend
  <2>4. ~In(Tail(inbox), Head(waiting)) /\ Head(inbox) # Head(waiting)
    BY <1>0, <2>1 DEF SentOnce
  <2>5. Unique(inbox') BY <1>0, <2>1, <2>2, <2>4, UniqueAppend
  <2> QED BY <1>0, <2>1, <2>2, <2>3, <2>4, <2>5 DEF SentOnce
<1> QED BY <1>1, <1>2

-----------------------------------------------------------------------------
(* One lemma for each action. *)

LEMMA InitMailInv == MailInit => MailInv
<1> SUFFICES ASSUME MailInit PROVE MailInv OBVIOUS
<1>1. MailTypeOK /\ NoSlotLost BY BuffersAssumption DEF MailInit, MailTypeOK, NoSlotLost, PeerState
<1>2. \A b : ~In(inbox, b) /\ ~In(waiting, b) BY DEF MailInit, In
<1>3. Unique(inbox) /\ Unique(waiting) BY DEF MailInit, Unique
<1> QED BY <1>1, <1>2, <1>3 DEF MailInit, MailInv, SentOnce, SendersKnown, HandlesKnown

LEMMA SendJoinStep ==
    ASSUME MailInv, NEW p \in Peer, SendJoin(p)
    PROVE  MailInv'
<1> DEFINE a == JoinOf(p)
<1>1. a \in Message /\ Send(a) BY Distinct DEF SendJoin, JoinOf
<1>2. /\ actor[p] = "absent" /\ actor' = [actor EXCEPT ![p] = "joining"]
      /\ UNCHANGED <<box, handles, grace, todo>>
  BY DEF SendJoin
<1>3. ~In(inbox, a) /\ ~In(waiting, a) BY <1>2 DEF MailInv, SendersKnown
<1> HIDE DEF a
<1>4. /\ inbox' \in Seq(Message) /\ Len(inbox') <= MeetingBuffer
      /\ waiting' \in Seq(Message)
      /\ waiting' # <<>> => Len(inbox') = MeetingBuffer
      /\ \A b \in Message :
            /\ In(inbox, b) => In(inbox', b)
            /\ In(waiting, b) => In(waiting', b)
            /\ In(inbox', b) => In(inbox, b) \/ a = b
            /\ In(waiting', b) => In(waiting, b) \/ a = b
            /\ a = b => In(inbox', b) \/ In(waiting', b)
  BY <1>1, SendFacts DEF MailInv
<1>5. SentOnce' BY <1>1, <1>3, SendOnce DEF MailInv
<1>6. actor' \in [Peer -> PeerState] BY <1>2 DEF MailInv, MailTypeOK, PeerState
<1>7. MailTypeOK' /\ NoSlotLost' BY <1>2, <1>4, <1>6 DEF MailInv, MailTypeOK, NoSlotLost
<1>8. SendersKnown'
  <2> SUFFICES ASSUME NEW q \in Peer
               PROVE  /\ (In(inbox', JoinOf(q)) \/ In(waiting', JoinOf(q))) => actor'[q] = "joining"
                      /\ In(inbox', NoticeOf(q)) => actor'[q] \in {"notifying", "stopped"}
                      /\ In(waiting', NoticeOf(q)) => actor'[q] = "notifying"
    BY DEF SendersKnown
  <2>1. JoinOf(q) \in Message /\ NoticeOf(q) \in Message /\ a # NoticeOf(q)
        /\ (p # q => a # JoinOf(q))
    BY Distinct DEF a
  <2> QED BY <1>2, <1>4, <2>1 DEF MailInv, MailTypeOK, SendersKnown
<1>9. HandlesKnown'
  <2> SUFFICES ASSUME NEW q \in handles
               PROVE  /\ actor'[q] \notin {"absent", "joining"}
                      /\ actor'[q] \in {"notifying", "stopped"} =>
                            In(inbox', NoticeOf(q)) \/ In(waiting', NoticeOf(q))
    BY <1>2 DEF HandlesKnown
  <2>1. q \in Peer /\ q # p BY <1>2 DEF MailInv, MailTypeOK, HandlesKnown
  <2>2. NoticeOf(q) \in Message BY <2>1, Distinct
  <2> QED BY <1>2, <1>4, <2>1, <2>2 DEF MailInv, MailTypeOK, HandlesKnown
<1> QED BY <1>5, <1>7, <1>8, <1>9 DEF MailInv

LEMMA SendNoticeStep ==
    ASSUME MailInv, NEW p \in Peer, SendNotice(p)
    PROVE  MailInv'
<1> DEFINE a == NoticeOf(p)
<1>1. a \in Message /\ Send(a) BY Distinct DEF SendNotice, NoticeOf
<1>2. /\ actor[p] = "closing" /\ actor' = [actor EXCEPT ![p] = "notifying"]
      /\ UNCHANGED <<box, handles, grace, todo>>
  BY DEF SendNotice
<1>3. ~In(inbox, a) /\ ~In(waiting, a) BY <1>2 DEF MailInv, SendersKnown
<1> HIDE DEF a
<1>4. /\ inbox' \in Seq(Message) /\ Len(inbox') <= MeetingBuffer
      /\ waiting' \in Seq(Message)
      /\ waiting' # <<>> => Len(inbox') = MeetingBuffer
      /\ \A b \in Message :
            /\ In(inbox, b) => In(inbox', b)
            /\ In(waiting, b) => In(waiting', b)
            /\ In(inbox', b) => In(inbox, b) \/ a = b
            /\ In(waiting', b) => In(waiting, b) \/ a = b
            /\ a = b => In(inbox', b) \/ In(waiting', b)
  BY <1>1, SendFacts DEF MailInv
<1>5. SentOnce' BY <1>1, <1>3, SendOnce DEF MailInv
<1>6. actor' \in [Peer -> PeerState] BY <1>2 DEF MailInv, MailTypeOK, PeerState
<1>7. MailTypeOK' /\ NoSlotLost' BY <1>2, <1>4, <1>6 DEF MailInv, MailTypeOK, NoSlotLost
<1>8. SendersKnown'
  <2> SUFFICES ASSUME NEW q \in Peer
               PROVE  /\ (In(inbox', JoinOf(q)) \/ In(waiting', JoinOf(q))) => actor'[q] = "joining"
                      /\ In(inbox', NoticeOf(q)) => actor'[q] \in {"notifying", "stopped"}
                      /\ In(waiting', NoticeOf(q)) => actor'[q] = "notifying"
    BY DEF SendersKnown
  <2>1. JoinOf(q) \in Message /\ NoticeOf(q) \in Message /\ a # JoinOf(q)
        /\ (p # q => a # NoticeOf(q))
    BY Distinct DEF a
  <2> QED BY <1>2, <1>4, <2>1 DEF MailInv, MailTypeOK, SendersKnown
<1>9. HandlesKnown'
  <2> SUFFICES ASSUME NEW q \in handles
               PROVE  /\ actor'[q] \notin {"absent", "joining"}
                      /\ actor'[q] \in {"notifying", "stopped"} =>
                            In(inbox', NoticeOf(q)) \/ In(waiting', NoticeOf(q))
    BY <1>2 DEF HandlesKnown
  <2>1. q \in Peer BY DEF MailInv, MailTypeOK
  <2>2. NoticeOf(q) \in Message /\ (p = q => a = NoticeOf(q)) BY <2>1, Distinct DEF a
  <2> QED BY <1>2, <1>4, <2>1, <2>2 DEF MailInv, MailTypeOK, HandlesKnown
<1> QED BY <1>5, <1>7, <1>8, <1>9 DEF MailInv

LEMMA HandleJoinStep ==
    ASSUME MailInv, HandleJoin
    PROVE  MailInv'
<1> DEFINE p == Head(inbox).from
<1>1. /\ inbox # <<>> /\ TakeHead
      /\ handles' = handles \cup {p} /\ todo' = handles
      /\ actor' = [actor EXCEPT ![p] = "running"]
      /\ UNCHANGED <<box, grace>>
  BY DEF HandleJoin
<1>2. Head(inbox) \in Message /\ Head(inbox).kind = "join" BY <1>1 DEF HandleJoin, MailInv, MailTypeOK
<1>3. p \in Peer /\ Head(inbox) = JoinOf(p) BY <1>2 DEF Message, JoinOf
<1>4. In(inbox, JoinOf(p)) BY <1>1, <1>2, <1>3, InTail DEF MailInv, MailTypeOK
<1>5. actor[p] = "joining" BY <1>3, <1>4 DEF MailInv, SendersKnown
<1> HIDE DEF p
<1>6. /\ inbox' \in Seq(Message) /\ Len(inbox') <= MeetingBuffer
      /\ waiting' \in Seq(Message)
      /\ waiting' # <<>> => Len(inbox') = MeetingBuffer
      /\ \A b \in Message :
            /\ (In(inbox', b) \/ In(waiting', b)) => (In(inbox, b) \/ In(waiting, b))
            /\ In(waiting', b) => In(waiting, b)
            /\ (In(inbox, b) \/ In(waiting, b)) =>
                   (In(inbox', b) \/ In(waiting', b) \/ JoinOf(p) = b)
  BY <1>1, <1>3, TakeFacts DEF MailInv
<1>7. SentOnce' /\ ~In(inbox', JoinOf(p)) /\ ~In(waiting', JoinOf(p))
  BY <1>1, <1>3, TakeOnce DEF MailInv
<1>8. actor' \in [Peer -> PeerState] BY <1>1 DEF MailInv, MailTypeOK, PeerState
<1>9. MailTypeOK' /\ NoSlotLost' BY <1>1, <1>3, <1>6, <1>8 DEF MailInv, MailTypeOK, NoSlotLost
<1>10. SendersKnown'
  <2> SUFFICES ASSUME NEW q \in Peer
               PROVE  /\ (In(inbox', JoinOf(q)) \/ In(waiting', JoinOf(q))) => actor'[q] = "joining"
                      /\ In(inbox', NoticeOf(q)) => actor'[q] \in {"notifying", "stopped"}
                      /\ In(waiting', NoticeOf(q)) => actor'[q] = "notifying"
    BY DEF SendersKnown
  <2>1. JoinOf(q) \in Message /\ NoticeOf(q) \in Message BY Distinct
  <2> QED BY <1>1, <1>3, <1>5, <1>6, <1>7, <2>1 DEF MailInv, MailTypeOK, SendersKnown
<1>11. HandlesKnown'
  <2> SUFFICES ASSUME NEW q \in handles'
               PROVE  /\ actor'[q] \notin {"absent", "joining"}
                      /\ actor'[q] \in {"notifying", "stopped"} =>
                            In(inbox', NoticeOf(q)) \/ In(waiting', NoticeOf(q))
    BY DEF HandlesKnown
  <2>1. q \in Peer BY <1>1, <1>3 DEF MailInv, MailTypeOK
  <2>2. NoticeOf(q) \in Message /\ JoinOf(p) # NoticeOf(q) BY <1>3, <2>1, Distinct
  <2> QED BY <1>1, <1>3, <1>6, <2>1, <2>2 DEF MailInv, MailTypeOK, HandlesKnown
<1> QED BY <1>7, <1>9, <1>10, <1>11 DEF MailInv

LEMMA HandleNoticeStep ==
    ASSUME MailInv, HandleNotice
    PROVE  MailInv'
<1> DEFINE p == Head(inbox).from
<1>1. /\ inbox # <<>> /\ TakeHead
      /\ handles' = handles \ {p} /\ todo' = handles \ {p} /\ grace' = grace \cup {p}
      /\ UNCHANGED <<box, actor>>
  BY DEF HandleNotice
<1>2. Head(inbox) \in Message /\ Head(inbox).kind = "notice"
  BY <1>1 DEF HandleNotice, MailInv, MailTypeOK
<1>3. p \in Peer /\ Head(inbox) = NoticeOf(p) BY <1>2 DEF Message, NoticeOf
<1> HIDE DEF p
<1>4. /\ inbox' \in Seq(Message) /\ Len(inbox') <= MeetingBuffer
      /\ waiting' \in Seq(Message)
      /\ waiting' # <<>> => Len(inbox') = MeetingBuffer
      /\ \A b \in Message :
            /\ (In(inbox', b) \/ In(waiting', b)) => (In(inbox, b) \/ In(waiting, b))
            /\ In(waiting', b) => In(waiting, b)
            /\ (In(inbox, b) \/ In(waiting, b)) =>
                   (In(inbox', b) \/ In(waiting', b) \/ NoticeOf(p) = b)
  BY <1>1, <1>3, TakeFacts DEF MailInv
<1>5. SentOnce' BY <1>1, TakeOnce DEF MailInv
<1>6. MailTypeOK' /\ NoSlotLost' BY <1>1, <1>3, <1>4 DEF MailInv, MailTypeOK, NoSlotLost
<1>7. SendersKnown'
  <2> SUFFICES ASSUME NEW q \in Peer
               PROVE  /\ (In(inbox', JoinOf(q)) \/ In(waiting', JoinOf(q))) => actor'[q] = "joining"
                      /\ In(inbox', NoticeOf(q)) => actor'[q] \in {"notifying", "stopped"}
                      /\ In(waiting', NoticeOf(q)) => actor'[q] = "notifying"
    BY DEF SendersKnown
  <2>1. JoinOf(q) \in Message /\ NoticeOf(q) \in Message BY Distinct
  <2> QED BY <1>1, <1>4, <2>1 DEF MailInv, MailTypeOK, SendersKnown
<1>8. HandlesKnown'
  <2> SUFFICES ASSUME NEW q \in handles'
               PROVE  /\ actor'[q] \notin {"absent", "joining"}
                      /\ actor'[q] \in {"notifying", "stopped"} =>
                            In(inbox', NoticeOf(q)) \/ In(waiting', NoticeOf(q))
    BY DEF HandlesKnown
  <2>1. q \in Peer /\ q \in handles /\ q # p BY <1>1 DEF MailInv, MailTypeOK
  <2>2. NoticeOf(q) \in Message /\ NoticeOf(p) # NoticeOf(q) BY <1>3, <2>1, Distinct
  <2> QED BY <1>1, <1>4, <2>1, <2>2 DEF MailInv, HandlesKnown
<1> QED BY <1>5, <1>6, <1>7, <1>8 DEF MailInv

\* The steps of one actor that leave the meeting's mailbox alone.
LEMMA LocalStep ==
    ASSUME MailInv, NEW p \in Peer,
           Close(p) \/ Stop(p) \/ Receive(p) \/ TimeOut(p) \/ Deliver(p)
    PROVE  MailInv'
<1>1. UNCHANGED <<inbox, waiting, handles>> BY DEF Close, Stop, Receive, TimeOut, Deliver
<1>2. SentOnce' /\ NoSlotLost' BY <1>1 DEF MailInv, SentOnce, NoSlotLost
<1>3. MailTypeOK'
  <2>1. /\ actor' \in [Peer -> PeerState]
        /\ todo' \subseteq Peer /\ grace' \subseteq Peer
    BY DEF Close, Stop, Receive, TimeOut, Deliver, MailInv, MailTypeOK, PeerState
  <2>2. box' \in [Peer -> 0..ParticipantBuffer]
    BY BuffersAssumption DEF Close, Stop, Receive, TimeOut, Deliver, MailInv, MailTypeOK
  <2> QED BY <1>1, <2>1, <2>2 DEF MailInv, MailTypeOK
<1>4. CASE UNCHANGED actor
  BY <1>1, <1>2, <1>3, <1>4 DEF MailInv, SendersKnown, HandlesKnown
<1>5. CASE Close(p)
  <2>1. actor[p] = "running" /\ actor' = [actor EXCEPT ![p] = "closing"] BY <1>5 DEF Close
  <2>2. SendersKnown' BY <1>1, <2>1 DEF MailInv, MailTypeOK, SendersKnown
  <2>3. HandlesKnown' BY <1>1, <2>1 DEF MailInv, MailTypeOK, HandlesKnown
  <2> QED BY <1>2, <1>3, <2>2, <2>3 DEF MailInv
<1>6. CASE Stop(p)
  <2>1. actor[p] = "notifying" /\ actor' = [actor EXCEPT ![p] = "stopped"] BY <1>6 DEF Stop
  <2>2. ~In(waiting, NoticeOf(p)) BY <1>6 DEF Stop, In, NoticeOf
  <2>3. SendersKnown' BY <1>1, <2>1, <2>2 DEF MailInv, MailTypeOK, SendersKnown
  <2>4. HandlesKnown' BY <1>1, <2>1 DEF MailInv, MailTypeOK, HandlesKnown
  <2> QED BY <1>2, <1>3, <2>3, <2>4 DEF MailInv
<1> QED BY <1>4, <1>5, <1>6 DEF Receive, TimeOut, Deliver

LEMMA NextMailInv == MailInv /\ [MailNext]_mailVars => MailInv'
<1> SUFFICES ASSUME MailInv, [MailNext]_mailVars PROVE MailInv' OBVIOUS
<1>1. CASE UNCHANGED mailVars
  BY <1>1 DEF mailVars, MailInv, MailTypeOK, NoSlotLost, SentOnce, SendersKnown, HandlesKnown
<1>2. CASE HandleJoin BY <1>2, HandleJoinStep
<1>3. CASE HandleNotice BY <1>3, HandleNoticeStep
<1>4. ASSUME NEW p \in Peer, SendJoin(p) PROVE MailInv' BY <1>4, SendJoinStep
<1>5. ASSUME NEW p \in Peer, SendNotice(p) PROVE MailInv' BY <1>5, SendNoticeStep
<1>6. ASSUME NEW p \in Peer,
             Close(p) \/ Stop(p) \/ Receive(p) \/ TimeOut(p) \/ Deliver(p)
      PROVE  MailInv'
  BY <1>6, LocalStep
<1> QED BY <1>1, <1>2, <1>3, <1>4, <1>5, <1>6 DEF MailNext, MeetingStep, PeerStep

-----------------------------------------------------------------------------
\* What every state of the mailboxes and the actors satisfies.
THEOREM MailInductive == MailSpec => []MailInv
  BY InitMailInv, NextMailInv, PTL DEF MailSpec

\* Mailboxes stay within their buffers and actors within their states.
THEOREM MailTypeCorrect == MailSpec => []MailTypeOK
<1>1. MailInv => MailTypeOK BY DEF MailInv
<1> QED BY <1>1, MailInductive, PTL

\* Nobody waits for a meeting's mailbox that has room.
THEOREM SlotsCorrect == MailSpec => []NoSlotLost
<1>1. MailInv => NoSlotLost BY DEF MailInv
<1> QED BY <1>1, MailInductive, PTL

\* A participant whose actor has stopped is forgotten by the meeting, or its notice is
\* in the mailbox: it waits no longer, because the actor awaited the send.
THEOREM NoticesCorrect == MailSpec => []NoticesOnTheWay
<1>1. ASSUME MailInv, NEW p \in handles, actor[p] = "stopped"
      PROVE  \E i \in 1..Len(inbox) : inbox[i] = [kind |-> "notice", from |-> p]
  <2>1. p \in Peer BY <1>1 DEF MailInv, MailTypeOK
  <2>2. ~In(waiting, NoticeOf(p)) BY <1>1, <2>1 DEF MailInv, SendersKnown
  <2>3. In(inbox, NoticeOf(p)) BY <1>1, <2>2 DEF MailInv, HandlesKnown
  <2> QED BY <2>3 DEF In, NoticeOf
<1>2. MailInv => NoticesOnTheWay BY <1>1 DEF NoticesOnTheWay
<1> QED BY <1>2, MailInductive, PTL

\* Nothing sent to the meeting is lost or waits beside free room.
THEOREM NothingIsLost == MailSpec => []NothingLost
<1>1. NoSlotLost /\ NoticesOnTheWay => NothingLost
  BY DEF NothingLost
<1> QED BY <1>1, SlotsCorrect, NoticesCorrect, PTL

\* No step of the meeting or of any actor ends a circular wait: the meeting takes no
\* message while it delivers, and a closing actor takes no update.
THEOREM StuckIsForever == MailSpec => StuckForever
<1>1. ASSUME MailInv, [MailNext]_mailVars, NEW p \in Peer, Stuck(p)
      PROVE  Stuck(p)'
  <2>1. /\ p \in todo /\ box[p] = ParticipantBuffer /\ In(waiting, NoticeOf(p))
    BY <1>1 DEF Stuck, In, NoticeOf
  <2>2. actor[p] = "notifying" BY <1>1, <2>1 DEF MailInv, SendersKnown
  <2>3. NoticeOf(p) \in Message BY Distinct
  <2>4. ASSUME p \in todo', box'[p] = ParticipantBuffer, In(waiting', NoticeOf(p))
        PROVE  Stuck(p)'
    BY <2>4 DEF Stuck, In, NoticeOf
  <2>5. CASE UNCHANGED mailVars BY <2>1, <2>4, <2>5 DEF mailVars
  <2>6. CASE HandleJoin \/ HandleNotice BY <2>1, <2>6 DEF HandleJoin, HandleNotice
  <2>7. ASSUME NEW q \in Peer, SendJoin(q) \/ SendNotice(q) PROVE Stuck(p)'
    <3>1. PICK a \in Message : Send(a)
      BY <2>7, Distinct DEF SendJoin, SendNotice, JoinOf, NoticeOf
    <3>2. In(waiting', NoticeOf(p)) BY <1>1, <2>1, <2>3, <3>1, SendFacts DEF MailInv
    <3> QED BY <2>1, <2>4, <2>7, <3>2 DEF SendJoin, SendNotice
  <2>8. ASSUME NEW q \in Peer, Close(q) \/ Stop(q) \/ TimeOut(q) PROVE Stuck(p)'
    BY <2>1, <2>4, <2>8 DEF Close, Stop, TimeOut
  <2>9. ASSUME NEW q \in Peer, Receive(q) PROVE Stuck(p)'
    <3>1. q # p BY <2>2, <2>9 DEF Receive
    <3>2. box'[p] = box[p] /\ UNCHANGED <<waiting, todo>>
      BY <1>1, <2>9, <3>1 DEF Receive, MailInv, MailTypeOK
    <3> QED BY <2>1, <2>4, <3>2
  <2>10. ASSUME NEW q \in Peer, Deliver(q) PROVE Stuck(p)'
    <3>1. q # p BY <1>1, <2>1, <2>2, <2>10, BuffersAssumption DEF Deliver, MailInv, MailTypeOK
    <3>2. box'[p] = box[p] /\ UNCHANGED waiting /\ todo' = todo \ {q}
      BY <1>1, <2>10, <3>1 DEF Deliver, MailInv, MailTypeOK
    <3> QED BY <2>1, <2>4, <3>1, <3>2
  <2> QED BY <1>1, <2>5, <2>6, <2>7, <2>8, <2>9, <2>10 DEF MailNext, MeetingStep, PeerStep
<1>2. MailInv /\ [MailNext]_mailVars => (\A p \in Peer : Stuck(p) => Stuck(p)')
  BY <1>1
<1> QED BY <1>2, MailInductive, PTL DEF MailSpec, StuckForever
=============================================================================
