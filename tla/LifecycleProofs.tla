-------------------------- MODULE LifecycleProofs --------------------------
(***************************************************************************)
(* Proofs about Registration, for any number of servers and any timing     *)
(* that satisfies TimingAssumption (a server is not taken for dead while   *)
(* it loses no more heartbeats than tolerated), and about Lifecycle, for   *)
(* any timeouts that satisfy GraceAssumption (what a process has begun is  *)
(* done before its grace period is over).                                  *)
(*                                                                         *)
(* And about MediaSession, for any number of connections, participants and *)
(* MCs: a connection that is served is active, a pending entry has a task  *)
(* that will remove it, and the MC knows who is connected.                 *)
(***************************************************************************)
EXTENDS Lifecycle, Registration, MediaSession, TLAPS

-----------------------------------------------------------------------------
(* Heartbeats and the rows of the registry. *)

\* Ticks that n intervals take.
Span(n) == n * Interval

\* How old the row of a running server can be: every heartbeat that failed cost an
\* interval, and the one under way another.
AgeBound(s) ==
    IF pc[s] = "idle" THEN Span(missed[s]) + timer[s] ELSE Span(missed[s] + 1) + timer[s]

\* A running server that has not lost too many heartbeats has a row that is at most
\* AgeBound old, and was not marked.
RowKept(s) ==
    (pc[s] \in {"idle", "beating"} /\ missed[s] <= Tolerated /\ row[s] # None)
        => row[s].age <= AgeBound(s) /\ row[s].health # "unhealthy"

\* The inductive invariant.
Inv ==
    /\ TypeOK
    /\ \A s \in Server : pc[s] \in {"registering", "beating", "reregistering"} => timer[s] <= RpcTimeout
    /\ \A s \in Server : RowKept(s)

-----------------------------------------------------------------------------
\* Intervals add up.
LEMMA SpanFacts ==
    /\ \A n \in Nat : Span(n) \in Nat
    /\ \A n \in Nat : Span(n + 1) = Span(n) + Interval
    /\ \A n \in Nat : n <= Tolerated => Span(n + 1) + RpcTimeout <= Staleness
    /\ \A n \in Nat : n <= Tolerated => Span(n) + Interval <= Staleness
<1>1. \A n \in Nat : Span(n) \in Nat
  BY TimingAssumption DEF Span
<1>2. \A n \in Nat : Span(n + 1) = Span(n) + Interval
  BY TimingAssumption DEF Span
<1>3. \A n \in Nat : n <= Tolerated => Span(n + 1) <= Span(Tolerated + 1)
  BY TimingAssumption DEF Span
<1>4. Span(Tolerated + 1) + RpcTimeout <= Staleness
  BY TimingAssumption DEF Span
<1>5. \A n \in Nat : n <= Tolerated => Span(n + 1) + RpcTimeout <= Staleness
  <2>1. Span(Tolerated + 1) \in Nat
    BY <1>1, TimingAssumption
  <2> QED BY <1>1, <1>3, <1>4, <2>1, TimingAssumption
<1>6. \A n \in Nat : n <= Tolerated => Span(n) + Interval <= Staleness
  BY <1>1, <1>2, <1>5, TimingAssumption
<1> QED BY <1>1, <1>2, <1>5, <1>6

\* What the statements of the GC make of a row.
LEMMA RowFacts ==
    /\ Registered \in Row /\ Registered.age = 0 /\ Registered.health = "pending"
    /\ \A r \in Row \cup {None} :
        /\ Beaten(r) \in Row \cup {None}
        /\ r # None => /\ Beaten(r) \in Row /\ Beaten(r).age = 0 /\ Beaten(r).health = "healthy"
        /\ Beaten(r) # None => r # None
<1>1. 0 \in 0..Staleness + 1
  BY TimingAssumption
<1> QED BY <1>1, TimingAssumption DEF Registered, Beaten, Reported, Row

-----------------------------------------------------------------------------
\* The initial state satisfies the invariant.
LEMMA InitInv == Init => Inv
<1> SUFFICES ASSUME Init PROVE Inv
  OBVIOUS
<1>1. TypeOK
  BY TimingAssumption DEF Init, TypeOK, Place
<1>2. \A s \in Server : pc[s] = "down"
  BY DEF Init
<1> QED BY <1>1, <1>2 DEF Inv, RowKept

\* A row that was just written is as good as the invariant asks for.
LEMMA FreshIsKept ==
    ASSUME TypeOK', NEW s \in Server, row'[s] # None,
           row'[s].age = 0, row'[s].health # "unhealthy"
    PROVE  RowKept(s)'
<1>1. missed'[s] \in Nat /\ timer'[s] \in Nat /\ missed'[s] + 1 \in Nat
  BY TimingAssumption DEF TypeOK
<1>2. Span(missed'[s]) \in Nat /\ Span(missed'[s] + 1) \in Nat
  BY <1>1, SpanFacts
<1>3. 0 <= AgeBound(s)'
  BY <1>1, <1>2 DEF AgeBound
<1> QED BY <1>3 DEF RowKept

\* Every step preserves the types.
LEMMA NextType == ASSUME Inv, [Next]_vars PROVE TypeOK'
<1> USE TimingAssumption
<1>0. TypeOK
  BY DEF Inv
<1>1. 0 \in 0..Interval /\ Interval \in 0..Interval /\ 0 \in 0..Tolerated + 1
  OBVIOUS
<1>2. CASE UNCHANGED vars
  BY <1>0, <1>2 DEF TypeOK, vars
<1>3. ASSUME NEW s \in Server, Start(s) \/ Stop(s) \/ LoseRow(s) PROVE TypeOK'
  BY <1>0, <1>1, <1>3 DEF TypeOK, Start, Stop, LoseRow, GiveUp, Place, Kind
<1>4. ASSUME NEW s \in Server, SendRegister(s) \/ HandleRegister(s) \/ RegisterFails(s) PROVE TypeOK'
  BY <1>0, <1>1, <1>4, RowFacts DEF TypeOK, SendRegister, HandleRegister, RegisterFails, GiveUp, Place, Kind
<1>5. ASSUME NEW s \in Server, SendHeartbeat(s) \/ HeartbeatNotFound(s) \/ ReregisterFails(s) PROVE TypeOK'
  BY <1>0, <1>1, <1>5 DEF TypeOK, SendHeartbeat, HeartbeatNotFound, ReregisterFails, GiveUp, Place, Kind
<1>6. ASSUME NEW s \in Server, HandleHeartbeat(s) PROVE TypeOK'
  <2>1. row[s] \in Row \cup {None} /\ Beaten(row[s]) \in Row \cup {None}
    BY <1>0, <1>6, RowFacts DEF TypeOK
  <2> QED BY <1>0, <1>1, <1>6, <2>1 DEF TypeOK, HandleHeartbeat, Place
<1>7. ASSUME NEW s \in Server, HeartbeatFails(s) PROVE TypeOK'
  BY <1>0, <1>7 DEF TypeOK, HeartbeatFails, GiveUp, Place, Kind
<1>8. ASSUME NEW s \in Server, NEW kind \in Kind, HandleLate(s, kind) PROVE TypeOK'
  <2>1. row[s] \in Row \cup {None} /\ Beaten(row[s]) \in Row \cup {None}
    BY <1>0, <1>8, RowFacts DEF TypeOK
  <2>2. row' \in [Server -> Row \cup {None}]
    BY <1>0, <1>8, <2>1, RowFacts DEF TypeOK, HandleLate
  <2> QED BY <1>0, <1>8, <2>2 DEF TypeOK, HandleLate
<1>9. ASSUME NEW s \in Server, NEW kind \in Kind, LoseLate(s, kind) PROVE TypeOK'
  BY <1>0, <1>9 DEF TypeOK, LoseLate
<1>10. CASE HealthCheck
  <2>1. \A r \in Row : [r EXCEPT !.health = "unhealthy"] \in Row
    BY DEF Row
  <2>2. row' \in [Server -> Row \cup {None}]
    BY <1>0, <1>10, <2>1 DEF TypeOK, HealthCheck
  <2> QED BY <1>0, <1>10, <2>2 DEF TypeOK, HealthCheck
<1>11. CASE Tick
  <2>1. \A r \in Row : ~(r.age > Staleness) => [r EXCEPT !.age = @ + 1] \in Row
    BY DEF Row
  <2>2. row' \in [Server -> Row \cup {None}]
    BY <1>0, <1>11, <2>1 DEF TypeOK, Tick
  <2>3. \A s \in Server : pc[s] \notin {"down", "starting", "silent"} => timer[s] < Interval
    BY <1>0, <1>11 DEF Tick, Due, TypeOK, Place
  <2>4. timer' \in [Server -> 0..Interval]
    BY <1>0, <1>11, <2>3 DEF TypeOK, Tick
  <2> QED BY <1>0, <1>11, <2>2, <2>4 DEF TypeOK, Tick
<1> QED BY <1>2, <1>3, <1>4, <1>5, <1>6, <1>7, <1>8, <1>9, <1>10, <1>11 DEF Next

\* No call lasts longer than its timeout.
LEMMA NextTimeout ==
    ASSUME Inv, [Next]_vars, NEW s \in Server,
           pc'[s] \in {"registering", "beating", "reregistering"}
    PROVE  timer'[s] <= RpcTimeout
<1> USE TimingAssumption
<1>0. TypeOK /\ (pc[s] \in {"registering", "beating", "reregistering"} => timer[s] <= RpcTimeout)
  BY DEF Inv
<1>1. CASE UNCHANGED vars
  BY <1>0, <1>1 DEF vars
<1>2. ASSUME NEW t \in Server, Start(t) \/ Stop(t) \/ LoseRow(t) PROVE timer'[s] <= RpcTimeout
  BY <1>0, <1>2 DEF TypeOK, Start, Stop, LoseRow
<1>3. ASSUME NEW t \in Server, SendRegister(t) \/ HandleRegister(t) \/ RegisterFails(t) PROVE timer'[s] <= RpcTimeout
  BY <1>0, <1>3 DEF TypeOK, SendRegister, HandleRegister, RegisterFails
<1>4. ASSUME NEW t \in Server, SendHeartbeat(t) \/ HeartbeatNotFound(t) \/ ReregisterFails(t) PROVE timer'[s] <= RpcTimeout
  BY <1>0, <1>4 DEF TypeOK, SendHeartbeat, HeartbeatNotFound, ReregisterFails
<1>5. ASSUME NEW t \in Server, HandleHeartbeat(t) \/ HeartbeatFails(t) PROVE timer'[s] <= RpcTimeout
  BY <1>0, <1>5 DEF TypeOK, HandleHeartbeat, HeartbeatFails
<1>6. ASSUME NEW t \in Server, NEW kind \in Kind, HandleLate(t, kind) \/ LoseLate(t, kind) PROVE timer'[s] <= RpcTimeout
  BY <1>0, <1>6 DEF HandleLate, LoseLate
<1>7. CASE HealthCheck
  BY <1>0, <1>7 DEF HealthCheck
<1>8. CASE Tick
  BY <1>0, <1>8 DEF Tick, Due, TypeOK
<1> QED BY <1>1, <1>2, <1>3, <1>4, <1>5, <1>6, <1>7, <1>8 DEF Next

\* A step that leaves a server and its row alone leaves its row kept.
LEMMA KeptIfSame ==
    ASSUME NEW s, RowKept(s),
           row'[s] = row[s], pc'[s] = pc[s], timer'[s] = timer[s], missed'[s] = missed[s]
    PROVE  RowKept(s)'
  BY DEF RowKept, AgeBound

\* Every step keeps the rows: a heartbeat that fails or that is sent moves the bound
\* with it, and time moves the row's age and the server's timer together.
LEMMA NextKept == ASSUME Inv, [Next]_vars, NEW s \in Server PROVE RowKept(s)'
<1>0. TypeOK /\ TypeOK' /\ RowKept(s)
  BY NextType DEF Inv
<1>t. /\ missed[s] \in Nat /\ timer[s] \in Nat /\ timer[s] <= Interval
      /\ row[s] \in Row \cup {None} /\ None \notin Row
      /\ Interval \in Nat /\ RpcTimeout \in Nat /\ Staleness \in Nat /\ Tolerated \in Nat
  BY <1>0, TimingAssumption DEF TypeOK
<1>s. /\ Span(missed[s]) \in Nat
      /\ Span(missed[s] + 1) = Span(missed[s]) + Interval
      /\ missed[s] <= Tolerated => Span(missed[s] + 1) + RpcTimeout <= Staleness
      /\ missed[s] <= Tolerated => Span(missed[s]) + Interval <= Staleness
  BY <1>t, SpanFacts
<1>1. CASE UNCHANGED vars
  BY <1>0, <1>1, KeptIfSame DEF vars
<1>2. ASSUME NEW t \in Server, Start(t) \/ Stop(t) PROVE RowKept(s)'
  <2>1. CASE s = t
    <3>1. pc'[s] \in {"starting", "down"}
      BY <1>0, <1>2, <2>1 DEF Start, Stop, TypeOK
    <3> QED BY <3>1 DEF RowKept
  <2>2. CASE s # t
    <3>1. row'[s] = row[s] /\ pc'[s] = pc[s] /\ timer'[s] = timer[s] /\ missed'[s] = missed[s]
      BY <1>0, <1>2, <2>2 DEF Start, Stop, TypeOK
    <3> QED BY <1>0, <3>1, KeptIfSame
  <2> QED BY <2>1, <2>2
<1>3. ASSUME NEW t \in Server, LoseRow(t) PROVE RowKept(s)'
  <2>1. CASE s = t
    <3>1. row'[s] = None
      BY <1>0, <1>3, <2>1 DEF LoseRow, TypeOK
    <3> QED BY <3>1 DEF RowKept
  <2>2. CASE s # t
    <3>1. row'[s] = row[s] /\ pc'[s] = pc[s] /\ timer'[s] = timer[s] /\ missed'[s] = missed[s]
      BY <1>0, <1>3, <2>2 DEF LoseRow, TypeOK
    <3> QED BY <1>0, <3>1, KeptIfSame
  <2> QED BY <2>1, <2>2
<1>4. ASSUME NEW t \in Server,
             SendRegister(t) \/ RegisterFails(t) \/ HeartbeatNotFound(t) \/ ReregisterFails(t)
      PROVE  RowKept(s)'
  <2>1. CASE s = t
    <3>1. pc'[s] \in {"registering", "starting", "reregistering", "silent"}
      BY <1>0, <1>4, <2>1 DEF SendRegister, RegisterFails, HeartbeatNotFound, ReregisterFails, TypeOK
    <3> QED BY <3>1 DEF RowKept
  <2>2. CASE s # t
    <3>1. row'[s] = row[s] /\ pc'[s] = pc[s] /\ timer'[s] = timer[s] /\ missed'[s] = missed[s]
      BY <1>0, <1>4, <2>2 DEF SendRegister, RegisterFails, HeartbeatNotFound, ReregisterFails, TypeOK
    <3> QED BY <1>0, <3>1, KeptIfSame
  <2> QED BY <2>1, <2>2
<1>5. ASSUME NEW t \in Server, HandleRegister(t) \/ HandleHeartbeat(t) PROVE RowKept(s)'
  <2>1. CASE s = t
    <3>1. row'[s] # None /\ row'[s].age = 0 /\ row'[s].health # "unhealthy"
      BY <1>0, <1>t, <1>5, <2>1, RowFacts DEF HandleRegister, HandleHeartbeat, TypeOK
    <3> QED BY <1>0, <3>1, FreshIsKept
  <2>2. CASE s # t
    <3>1. row'[s] = row[s] /\ pc'[s] = pc[s] /\ timer'[s] = timer[s] /\ missed'[s] = missed[s]
      BY <1>0, <1>5, <2>2 DEF HandleRegister, HandleHeartbeat, TypeOK
    <3> QED BY <1>0, <3>1, KeptIfSame
  <2> QED BY <2>1, <2>2
<1>6. ASSUME NEW t \in Server, SendHeartbeat(t) PROVE RowKept(s)'
  <2>1. CASE s = t
    <3>1. /\ pc[s] = "idle" /\ pc'[s] = "beating" /\ timer'[s] = 0
          /\ row'[s] = row[s] /\ missed'[s] = missed[s]
      BY <1>0, <1>6, <2>1 DEF SendHeartbeat, TypeOK
    <3>2. AgeBound(s) = Span(missed[s]) + timer[s] /\ AgeBound(s)' = Span(missed[s] + 1) + 0
      BY <3>1 DEF AgeBound
    <3>3. AgeBound(s) \in Nat /\ AgeBound(s)' \in Nat /\ AgeBound(s) <= AgeBound(s)'
      BY <1>t, <1>s, <3>2
    <3>4. row[s] # None => row[s].age \in Nat
      BY <1>t DEF Row
    <3> QED BY <1>0, <3>1, <3>3, <3>4 DEF RowKept
  <2>2. CASE s # t
    <3>1. row'[s] = row[s] /\ pc'[s] = pc[s] /\ timer'[s] = timer[s] /\ missed'[s] = missed[s]
      BY <1>0, <1>6, <2>2 DEF SendHeartbeat, TypeOK
    <3> QED BY <1>0, <3>1, KeptIfSame
  <2> QED BY <2>1, <2>2
<1>7. ASSUME NEW t \in Server, HeartbeatFails(t) PROVE RowKept(s)'
  <2>1. CASE s = t
    <3>1. /\ pc[s] = "beating" /\ pc'[s] = "idle" /\ timer'[s] = timer[s] /\ row'[s] = row[s]
          /\ missed[s] > Tolerated => missed'[s] = missed[s]
          /\ ~(missed[s] > Tolerated) => missed'[s] = missed[s] + 1
      BY <1>0, <1>7, <2>1 DEF HeartbeatFails, TypeOK
    <3>2. CASE missed[s] > Tolerated
      BY <1>t, <3>1, <3>2 DEF RowKept
    <3>3. CASE ~(missed[s] > Tolerated)
      <4>1. AgeBound(s) = Span(missed[s] + 1) + timer[s] /\ AgeBound(s)' = Span(missed[s] + 1) + timer[s]
        BY <3>1, <3>3 DEF AgeBound
      <4>2. missed[s] <= Tolerated
        BY <1>t, <3>3
      <4> QED BY <1>0, <3>1, <4>1, <4>2 DEF RowKept
    <3> QED BY <3>2, <3>3
  <2>2. CASE s # t
    <3>1. row'[s] = row[s] /\ pc'[s] = pc[s] /\ timer'[s] = timer[s] /\ missed'[s] = missed[s]
      BY <1>0, <1>7, <2>2 DEF HeartbeatFails, TypeOK
    <3> QED BY <1>0, <3>1, KeptIfSame
  <2> QED BY <2>1, <2>2
<1>8. ASSUME NEW t \in Server, NEW kind \in Kind, HandleLate(t, kind) PROVE RowKept(s)'
  <2>1. CASE s = t
    <3>1. row'[s] = None \/ (row'[s] # None /\ row'[s].age = 0 /\ row'[s].health # "unhealthy")
      BY <1>0, <1>t, <1>8, <2>1, RowFacts DEF HandleLate, TypeOK
    <3>2. CASE row'[s] = None
      BY <3>2 DEF RowKept
    <3>3. CASE row'[s] # None
      BY <1>0, <3>1, <3>3, FreshIsKept
    <3> QED BY <3>2, <3>3
  <2>2. CASE s # t
    <3>1. row'[s] = row[s] /\ pc'[s] = pc[s] /\ timer'[s] = timer[s] /\ missed'[s] = missed[s]
      BY <1>0, <1>8, <2>2 DEF HandleLate, TypeOK
    <3> QED BY <1>0, <3>1, KeptIfSame
  <2> QED BY <2>1, <2>2
<1>9. ASSUME NEW t \in Server, NEW kind \in Kind, LoseLate(t, kind) PROVE RowKept(s)'
  BY <1>0, <1>9, KeptIfSame DEF LoseLate
<1>10. CASE HealthCheck
  <2>1. pc'[s] = pc[s] /\ timer'[s] = timer[s] /\ missed'[s] = missed[s]
    BY <1>10 DEF HealthCheck
  <2>2. CASE row[s] # None /\ Stale(row[s])
    <3>1. row[s].age \in Nat /\ row[s].age > Staleness
      BY <1>t, <2>2 DEF Stale, Row
    <3>2. ~(pc[s] \in {"idle", "beating"} /\ missed[s] <= Tolerated)
      <4> SUFFICES ASSUME pc[s] \in {"idle", "beating"}, missed[s] <= Tolerated PROVE FALSE
        OBVIOUS
      <4>1. row[s].age <= AgeBound(s)
        BY <1>0, <2>2 DEF RowKept
      <4>2. pc[s] = "beating" => timer[s] <= RpcTimeout
        BY DEF Inv
      <4>3. AgeBound(s) \in Nat /\ AgeBound(s) <= Staleness
        BY <1>t, <1>s, <4>2 DEF AgeBound
      <4> QED BY <1>t, <3>1, <4>1, <4>3
    <3> QED BY <2>1, <3>2 DEF RowKept
  <2>3. CASE ~(row[s] # None /\ Stale(row[s]))
    <3>1. row'[s] = row[s]
      BY <1>10, <2>3 DEF HealthCheck
    <3> QED BY <1>0, <2>1, <3>1, KeptIfSame
  <2> QED BY <2>2, <2>3
<1>11. CASE Tick
  <2> SUFFICES ASSUME pc'[s] \in {"idle", "beating"}, missed'[s] <= Tolerated, row'[s] # None
               PROVE  row'[s].age <= AgeBound(s)' /\ row'[s].health # "unhealthy"
    BY DEF RowKept
  <2>1. pc'[s] = pc[s] /\ missed'[s] = missed[s] /\ timer'[s] = timer[s] + 1 /\ row[s] # None
    BY <1>0, <1>11 DEF Tick, TypeOK
  <2>2. row[s] \in Row /\ row[s].age \in Nat /\ row[s].age <= AgeBound(s) /\ row[s].health # "unhealthy"
    BY <1>0, <1>t, <2>1 DEF RowKept, Row
  <2>3. AgeBound(s) \in Nat /\ AgeBound(s)' = AgeBound(s) + 1
    <3>1. pc[s] = "idle" =>
            /\ AgeBound(s) = Span(missed[s]) + timer[s]
            /\ AgeBound(s)' = Span(missed[s]) + (timer[s] + 1)
      BY <2>1 DEF AgeBound
    <3>2. pc[s] # "idle" =>
            /\ AgeBound(s) = Span(missed[s] + 1) + timer[s]
            /\ AgeBound(s)' = Span(missed[s] + 1) + (timer[s] + 1)
      BY <2>1 DEF AgeBound
    <3> QED BY <1>t, <1>s, <3>1, <3>2
  <2>4. \A r \in Row : /\ [r EXCEPT !.age = @ + 1].age = r.age + 1
                       /\ [r EXCEPT !.age = @ + 1].health = r.health
    BY DEF Row
  <2>5. row'[s] = row[s] \/ row'[s] = [row[s] EXCEPT !.age = @ + 1]
    BY <1>11 DEF Tick
  <2>6. row'[s].health = row[s].health
    BY <2>2, <2>4, <2>5
  <2>7. row'[s].age = row[s].age \/ row'[s].age = row[s].age + 1
    BY <2>2, <2>4, <2>5
  <2> QED BY <2>2, <2>3, <2>6, <2>7
<1> QED BY <1>1, <1>2, <1>3, <1>4, <1>5, <1>6, <1>7, <1>8, <1>9, <1>10, <1>11 DEF Next

-----------------------------------------------------------------------------
\* The invariant holds in every reachable state, for all servers and timings.
THEOREM Inductive == Spec => []Inv
<1>1. Init => Inv
  BY InitInv
<1>2. Inv /\ [Next]_vars => Inv'
  BY NextType, NextTimeout, NextKept DEF Inv
<1> QED BY <1>1, <1>2, PTL DEF Spec

\* The tables, the servers' timers and the histories keep their types.
THEOREM TypeCorrect == Spec => []TypeOK
<1>1. Inv => TypeOK
  BY DEF Inv
<1> QED BY <1>1, Inductive, PTL

\* A server that is up and loses no more heartbeats in a row than the timing tolerates
\* is never taken for dead by the health checkers (mark_stale_controllers_unhealthy,
\* mark_stale_handlers_unhealthy).
THEOREM KeptAliveCorrect == Spec => []KeptAlive
<1>1. Inv => KeptAlive
  <2> SUFFICES ASSUME Inv, NEW s \in Server,
                      pc[s] \in {"idle", "beating"}, missed[s] <= Tolerated, row[s] # None
               PROVE  ~Stale(row[s]) /\ row[s].health # "unhealthy"
    BY DEF KeptAlive
  <2>1. row[s].age <= AgeBound(s) /\ row[s].health # "unhealthy"
    BY DEF Inv, RowKept
  <2>2. /\ missed[s] \in Nat /\ timer[s] \in Nat /\ timer[s] <= Interval
        /\ row[s] \in Row /\ row[s].age \in Nat
        /\ Interval \in Nat /\ RpcTimeout \in Nat /\ Staleness \in Nat
    BY TimingAssumption DEF Inv, TypeOK, Row
  <2>3. /\ Span(missed[s]) \in Nat /\ Span(missed[s] + 1) \in Nat
        /\ Span(missed[s] + 1) + RpcTimeout <= Staleness
        /\ Span(missed[s]) + Interval <= Staleness
    BY <2>2, SpanFacts
  <2>4. pc[s] = "beating" => timer[s] <= RpcTimeout
    BY DEF Inv
  <2>5. AgeBound(s) \in Nat /\ AgeBound(s) <= Staleness
    BY <2>2, <2>3, <2>4 DEF AgeBound
  <2> QED BY <2>1, <2>2, <2>5 DEF Stale
<1> QED BY <1>1, Inductive, PTL

-----------------------------------------------------------------------------
(* The life of the processes. *)

StopAt == {"draining", "notready", "cancel", "closing", "actors"}
StepAt == {"db", "key", "http", "token", "checkers", "serve", "redis", "grpc", "connect", "register", "wt"}
InFlight == [left: Nat, early: BOOLEAN]

LifeShapes ==
    /\ at \in [Process -> StepAt \cup StopAt \cup {"down", "serving"}]
    /\ open \in [Process -> SUBSET {"http", "grpc", "wt"}]
    /\ task \in [Backend -> {"none", "registering", "beating", "ended"}]
    /\ age \in [Process -> Nat]
    /\ req \in [Front -> InFlight \cup {Idle}]

\* The time since the signal, and what is left of a request that came before it.
FrontInTime(n) ==
    /\ at[n] \notin {"draining", "closing"} => req[n] = Idle
    /\ req[n] # Idle /\ req[n].early => age[n] + req[n].left = Request

BackInTime(n) ==
    /\ at[n] \in {"notready", "cancel"} => age[n] = 0
    /\ at[n] = "draining" => age[n] <= Window
    /\ at[n] \in {"draining", "actors"} => n \in cancelled
    /\ at[n] # "closing"

AgesGood(n) ==
    /\ at[n] \notin StopAt => age[n] = 0
    /\ at[n] = "actors" => n = "mc"
    /\ n \in Front => FrontInTime(n)
    /\ n \in Backend => BackInTime(n)

\* A media handler takes clients before it registers.
ClientsFirst ==
    /\ task["mh"] # "none" => at["mh"] \in {"serving", "notready", "cancel", "draining"}
    /\ at["mh"] \in {"connect", "register"} /\ "mh" \notin cancelled => "wt" \in open["mh"]
    /\ task["mh"] # "none" /\ "mh" \notin cancelled => "wt" \in open["mh"]

LifeInv == LifeShapes /\ ClientsFirst /\ \A n \in Process : AgesGood(n)

USE GraceAssumption

LEMMA LTypes ==
  ASSUME LifeInv
  PROVE  /\ at \in [Process -> StepAt \cup StopAt \cup {"down", "serving"}]
         /\ open \in [Process -> SUBSET {"http", "grpc", "wt"}]
         /\ task \in [Backend -> {"none", "registering", "beating", "ended"}]
         /\ age \in [Process -> Nat] /\ req \in [Front -> InFlight \cup {Idle}]
         /\ ClientsFirst /\ \A n \in Process : AgesGood(n)
  BY DEF LifeInv, LifeShapes

LEMMA LNames ==
  /\ Process = {"ac", "gc", "mc", "mh"} /\ Backend = {"mc", "mh"} /\ Front = {"ac", "gc"}
  /\ Front \subseteq Process /\ Backend \subseteq Process /\ Process = Front \cup Backend /\ Front \cap Backend = {}
  BY DEF Process, Backend, Front

\* Where main goes on.
LEMMA LAfter ==
  ASSUME NEW n \in Process, \E i \in DOMAIN Steps[n] : Steps[n][i] = at[n]
  PROVE  /\ at[n] \in StepAt /\ After(n) \in StepAt \cup {"serving"}
         /\ n = "mh" /\ After(n) \in {"connect", "register", "serving"} => at[n] \in {"wt", "connect", "register"}
         /\ n = "mh" /\ at[n] = "register" => After(n) = "serving"
<1>1. PICK q : q = Steps[n]
  OBVIOUS
<1>2. q \in {AcSteps, GcSteps, McSteps, MhSteps} /\ (n = "mh" => q = MhSteps)
  BY <1>1 DEF Steps, Process
<1>3. Len(q) \in Nat /\ DOMAIN q = 1..Len(q) /\ \A i \in 1..Len(q) : q[i] \in StepAt
  BY <1>2 DEF AcSteps, GcSteps, McSteps, MhSteps, StepAt
<1>4. PICK i : i = CHOOSE j \in DOMAIN q : q[j] = at[n]
  OBVIOUS
<1>5. i \in 1..Len(q) /\ q[i] = at[n]
  BY <1>1, <1>3, <1>4
<1>6. After(n) = IF i = Len(q) THEN "serving" ELSE q[i + 1]
  BY <1>1, <1>4 DEF After
<1>7. at[n] \in StepAt /\ After(n) \in StepAt \cup {"serving"}
  <2>1. at[n] \in StepAt
    BY <1>3, <1>5
  <2>2. CASE i # Len(q)
    <3>1. \A N \in Nat : i \in 1..N /\ i # N => i + 1 \in 1..N
      OBVIOUS
    <3>2. i + 1 \in 1..Len(q)
      BY <1>3, <1>5, <2>2, <3>1, Zenon
    <3> QED BY <1>3, <1>6, <2>1, <2>2, <3>2
  <2> QED BY <1>6, <2>1, <2>2
<1>8. CASE n = "mh"
  <2>1. /\ Len(q) = 6 /\ q[1] = "token" /\ q[2] = "http" /\ q[3] = "grpc" /\ q[4] = "wt" /\ q[5] = "connect"
        /\ q[6] = "register"
    BY <1>2, <1>8 DEF MhSteps
  <2>2. i \in {1, 2, 3, 4, 5, 6}
    BY <1>5, <2>1
  <2> QED BY <1>5, <1>6, <1>7, <2>1, <2>2
<1> QED BY <1>7, <1>8

LEMMA LifeInitInv == LifeInit => LifeInv
<1> SUFFICES ASSUME LifeInit PROVE LifeInv
  OBVIOUS
<1>1. LifeShapes
  BY DEF LifeInit, LifeShapes
<1>2. ClientsFirst
  BY LNames DEF LifeInit, ClientsFirst
<1>3. \A n \in Process : AgesGood(n)
  BY LNames DEF LifeInit, AgesGood, FrontInTime, BackInTime, StopAt
<1> QED BY <1>1, <1>2, <1>3 DEF LifeInv

\* A process that the step passes by.
LEMMA LSame ==
  ASSUME LifeInv, NEW n \in Process, at'[n] = at[n], age'[n] = age[n], n \in Front => req'[n] = req[n],
         n \in cancelled => n \in cancelled'
  PROVE  AgesGood(n)'
<1>1. AgesGood(n)
  BY DEF LifeInv
<1> QED BY <1>1 DEF AgesGood, FrontInTime, BackInTime

\* A step of one process that takes no time.
LEMMA LMoves ==
  ASSUME LifeInv, NEW n \in Process, NEW a \in StepAt \cup StopAt \cup {"down", "serving"},
         at' = [at EXCEPT ![n] = a], \A m \in Process \ {n} : age'[m] = age[m], age' \in [Process -> Nat],
         \A m \in Front \ {n} : req'[m] = req[m], req' \in [Front -> InFlight \cup {Idle}],
         open' \in [Process -> SUBSET {"http", "grpc", "wt"}], cancelled \ {n} \subseteq cancelled',
         task' \in [Backend -> {"none", "registering", "beating", "ended"}],
         AgesGood(n)', ClientsFirst'
  PROVE  LifeInv'
<1>1. LifeShapes'
  BY LTypes DEF LifeShapes
<1>2. ASSUME NEW m \in Process \ {n} PROVE AgesGood(m)'
  BY LSame, LTypes
<1> QED BY <1>1, <1>2 DEF LifeInv

LEMMA LAt ==
  ASSUME LifeInv, NEW n \in Process
  PROVE  /\ at[n] \in StepAt \cup StopAt \cup {"down", "serving"} /\ at = [at EXCEPT ![n] = at[n]]
         /\ age[n] \in Nat /\ AgesGood(n) /\ ClientsFirst /\ (n \in Front => req[n] \in InFlight \cup {Idle})
  BY LTypes

LEMMA LGone ==
  ASSUME LifeInv, NEW n \in Process, Gone(n)
  PROVE  LifeInv'
<1>1. /\ at' = [at EXCEPT ![n] = "down"] /\ open' = [open EXCEPT ![n] = {}] /\ age' = [age EXCEPT ![n] = 0]
      /\ cancelled' = cancelled \ {n}
      /\ task' = IF n \in Backend THEN [task EXCEPT ![n] = "none"] ELSE task
      /\ req' = IF n \in Front THEN [req EXCEPT ![n] = Idle] ELSE req
  BY DEF Gone
<1>2. at'[n] = "down" /\ age'[n] = 0 /\ (n \in Front => req'[n] = Idle)
  BY <1>1, LTypes
<1>3. AgesGood(n)'
  BY <1>2 DEF AgesGood, FrontInTime, BackInTime, StopAt
<1>4. ClientsFirst'
  <2>1. CASE n = "mh"
    <3>1. at'["mh"] = "down" /\ task'["mh"] = "none"
      BY <1>1, <1>2, <2>1, LTypes, LNames
    <3> QED BY <3>1 DEF ClientsFirst
  <2>2. CASE n # "mh"
    <3>1. /\ at'["mh"] = at["mh"] /\ task'["mh"] = task["mh"] /\ open'["mh"] = open["mh"]
          /\ "mh" \in cancelled' <=> "mh" \in cancelled
      BY <1>1, <2>2, LTypes, LNames
    <3> QED BY <3>1, LTypes DEF ClientsFirst
  <2> QED BY <2>1, <2>2
<1>5. /\ \A m \in Process \ {n} : age'[m] = age[m] /\ (m \in Front => req'[m] = req[m])
      /\ age' \in [Process -> Nat] /\ req' \in [Front -> InFlight \cup {Idle}]
      /\ open' \in [Process -> SUBSET {"http", "grpc", "wt"}]
      /\ task' \in [Backend -> {"none", "registering", "beating", "ended"}]
  BY <1>1, LTypes
<1>6. \A m \in Front \ {n} : req'[m] = req[m]
  BY <1>5, LNames
<1> QED BY <1>1, <1>3, <1>4, <1>5, <1>6, LMoves

LEMMA LBegins ==
  ASSUME LifeInv, NEW n \in Process, Begin(n)
  PROVE  LifeInv'
<1>1. PICK a : a = Steps[n][1]
  OBVIOUS
<1>2. a \in {"db", "redis", "token"}
  BY <1>1 DEF Steps, Process, AcSteps, GcSteps, McSteps, MhSteps
<1>3. /\ at[n] = "down" /\ at' = [at EXCEPT ![n] = a] /\ UNCHANGED <<open, task, cancelled, age, req>>
  BY <1>1 DEF Begin
<1>4. at'[n] = a /\ a \in StepAt
  BY <1>2, <1>3, LTypes DEF StepAt
<1>5. AgesGood(n)'
  <2>1. AgesGood(n)
    BY LAt
  <2> QED BY <1>2, <1>3, <1>4, <2>1 DEF AgesGood, FrontInTime, BackInTime, StopAt
<1>6. ClientsFirst'
  <2>1. n # "mh" => at'["mh"] = at["mh"]
    BY <1>3, LTypes, LNames
  <2> QED BY <1>2, <1>3, <1>4, <2>1, LTypes DEF ClientsFirst
<1> QED BY <1>3, <1>4, <1>5, <1>6, LTypes, LMoves

LEMMA LPasses ==
  ASSUME LifeInv, NEW n \in Process, Pass(n)
  PROVE  LifeInv'
<1>1. PICK a, s : a = After(n) /\ s = (CASE at[n] \in {"http", "wt"} -> {at[n]} [] at[n] = "serve" -> {"grpc"} [] OTHER -> {})
  OBVIOUS
<1>2. s \subseteq {"http", "grpc", "wt"} /\ (at[n] = "wt" => "wt" \in s)
  BY <1>1
<1>3. /\ at' = [at EXCEPT ![n] = a] /\ UNCHANGED <<cancelled, age, req>>
      /\ task' = IF at[n] = "register" THEN [task EXCEPT ![n] = "registering"] ELSE task
      /\ \E i \in DOMAIN Steps[n] : Steps[n][i] = at[n]
  BY <1>1 DEF Pass
<1>4. open' = [open EXCEPT ![n] = @ \cup s]
  BY <1>1 DEF Pass, Opens
<1>5. /\ at[n] \in StepAt /\ a \in StepAt \cup {"serving"}
      /\ n = "mh" /\ a \in {"connect", "register", "serving"} => at[n] \in {"wt", "connect", "register"}
      /\ n = "mh" /\ at[n] = "register" => a = "serving"
  BY <1>1, <1>3, LAfter
<1>6. at'[n] = a /\ open'[n] = open[n] \cup s
  BY <1>3, <1>4, LTypes
<1>7. AgesGood(n)'
  <2>1. AgesGood(n)
    BY LAt
  <2> QED BY <1>3, <1>5, <1>6, <2>1 DEF AgesGood, FrontInTime, BackInTime, StopAt, StepAt
<1>8. ClientsFirst'
  <2>1. CASE n = "mh"
    <3>1. at["mh"] = "register" => task'["mh"] = "registering"
      BY <1>3, <2>1, LTypes, LNames
    <3>2. at["mh"] # "register" => task'["mh"] = task["mh"]
      BY <1>3, <2>1
    <3>3. task["mh"] = "none"
      BY <1>5, <2>1, LTypes DEF ClientsFirst, StepAt
    <3>4. a \in {"connect", "register", "serving"} /\ "mh" \notin cancelled => "wt" \in open'["mh"]
      BY <1>2, <1>5, <1>6, <2>1, LTypes DEF ClientsFirst
    <3> QED BY <1>3, <1>5, <1>6, <2>1, <3>1, <3>2, <3>3, <3>4 DEF ClientsFirst
  <2>2. CASE n # "mh"
    <3>1. at'["mh"] = at["mh"] /\ task'["mh"] = task["mh"] /\ open'["mh"] = open["mh"]
      BY <1>3, <1>4, <2>2, LTypes, LNames
    <3> QED BY <1>3, <3>1, LTypes DEF ClientsFirst
  <2> QED BY <2>1, <2>2
<1>9. /\ open' \in [Process -> SUBSET {"http", "grpc", "wt"}]
      /\ task' \in [Backend -> {"none", "registering", "beating", "ended"}]
  BY <1>2, <1>3, <1>4, LTypes
<1> QED BY <1>3, <1>5, <1>7, <1>8, <1>9, LTypes, LMoves

\* Steps that leave main, its servers and its clock alone, but may open a server.
LEMMA LQuiet ==
  ASSUME LifeInv, at' = at, age' = age, req' = req, task' = task,
         open' \in [Process -> SUBSET {"http", "grpc", "wt"}], open["mh"] \subseteq open'["mh"],
         cancelled \subseteq cancelled'
  PROVE  LifeInv'
<1>1. LifeShapes'
  BY LTypes DEF LifeShapes
<1>2. ClientsFirst'
  BY LTypes DEF ClientsFirst
<1>3. \A n \in Process : AgesGood(n)'
  BY LSame
<1> QED BY <1>1, <1>2, <1>3 DEF LifeInv

LEMMA LTasks ==
  ASSUME LifeInv, NEW n \in Backend, RegisterOk(n) \/ TaskEnds(n)
  PROVE  LifeInv'
<1>1. /\ UNCHANGED <<at, open, age, req, cancelled>> /\ task[n] \in {"registering", "beating"}
      /\ task' = [task EXCEPT ![n] = "beating"] \/ task' = [task EXCEPT ![n] = "ended"]
  BY DEF RegisterOk, TaskEnds
<1>2. task' \in [Backend -> {"none", "registering", "beating", "ended"}]
  BY <1>1, LTypes
<1>3. task'["mh"] # "none" => task["mh"] # "none"
  BY <1>1, LTypes, LNames
<1>4. LifeShapes'
  BY <1>1, <1>2, LTypes DEF LifeShapes
<1>5. ClientsFirst'
  BY <1>1, <1>3, LTypes DEF ClientsFirst
<1>6. \A m \in Process : AgesGood(m)'
  BY <1>1, LSame
<1> QED BY <1>4, <1>5, <1>6 DEF LifeInv

LEMMA LCloses ==
  ASSUME LifeInv, NEW n \in Backend, NEW s \in {"http", "grpc", "wt"}, Closes(n, s)
  PROVE  LifeInv'
<1>1. UNCHANGED <<at, task, age, req, cancelled>> /\ n \in cancelled /\ open' = [open EXCEPT ![n] = @ \ {s}]
  BY DEF Closes
<1>2. /\ open' \in [Process -> SUBSET {"http", "grpc", "wt"}]
      /\ "mh" \notin cancelled => open'["mh"] = open["mh"]
  BY <1>1, LTypes, LNames
<1>3. LifeShapes'
  BY <1>1, <1>2, LTypes DEF LifeShapes
<1>4. ClientsFirst'
  BY <1>1, <1>2, LTypes DEF ClientsFirst
<1>5. \A m \in Process : AgesGood(m)'
  BY <1>1, LSame
<1> QED BY <1>3, <1>4, <1>5 DEF LifeInv

\* Main moves on in its shutdown.
LEMMA LStops ==
  ASSUME LifeInv, NEW n \in Process, NEW a \in StopAt, at' = [at EXCEPT ![n] = a],
         UNCHANGED <<task, age>>, n = "mh" => a \in {"notready", "cancel", "draining"} /\ open' = open,
         n # "mh" => open'["mh"] = open["mh"],
         open' \in [Process -> SUBSET {"http", "grpc", "wt"}], cancelled \subseteq cancelled',
         at[n] \in {"serving", "notready", "cancel", "draining"},
         \A m \in Front \ {n} : req'[m] = req[m], req' \in [Front -> InFlight \cup {Idle}],
         AgesGood(n)'
  PROVE  LifeInv'
<1>1. ClientsFirst'
  <2>1. CASE n = "mh"
    <3>1. at'["mh"] = a
      BY <2>1, LTypes
    <3>2. a \notin {"connect", "register"}
      BY DEF StopAt
    <3> QED BY <2>1, <3>1, <3>2, LTypes DEF ClientsFirst
  <2>2. CASE n # "mh"
    <3>1. at'["mh"] = at["mh"]
      BY <2>2, LTypes, LNames
    <3> QED BY <2>2, <3>1, LTypes DEF ClientsFirst
  <2> QED BY <2>1, <2>2
<1> QED BY <1>1, LTypes, LMoves

LEMMA LSigterm ==
  ASSUME LifeInv, NEW n \in Process, Sigterm(n)
  PROVE  LifeInv'
<1>1. PICK a, r : a = (IF n \in Front THEN "draining" ELSE "notready") /\ r = [left |-> Request, early |-> TRUE]
  OBVIOUS
<1>2. r \in InFlight /\ r.left = Request /\ r.early = TRUE /\ Request \in Nat
  BY <1>1 DEF InFlight
<1>3. /\ at[n] = "serving" /\ at' = [at EXCEPT ![n] = a] /\ UNCHANGED <<open, task, age>> /\ cancelled \subseteq cancelled'
      /\ req' = req \/ (n \in Front /\ req' = [req EXCEPT ![n] = r])
  BY <1>1 DEF Sigterm
<1>4. at'[n] = a /\ AgesGood(n) /\ age[n] = 0 /\ (n \in Front => req[n] = Idle)
  BY <1>3, LTypes, LAt DEF AgesGood, FrontInTime, StopAt
<1>5. /\ req' \in [Front -> InFlight \cup {Idle}] /\ \A m \in Front \ {n} : req'[m] = req[m]
      /\ n \in Front => req'[n] \in {r, req[n]}
  BY <1>2, <1>3, LTypes
<1>6. AgesGood(n)'
  <2>1. CASE n \in Front
    <3>1. a = "draining" /\ n \notin Backend
      BY <1>1, <2>1, LNames
    <3>2. FrontInTime(n)'
      BY <1>2, <1>3, <1>4, <1>5, <2>1, <3>1 DEF FrontInTime
    <3> QED BY <1>4, <3>1, <3>2 DEF AgesGood, StopAt
  <2>2. CASE n \notin Front
    <3>1. a = "notready"
      BY <1>1, <2>2
    <3> QED BY <1>3, <1>4, <2>2, <3>1 DEF AgesGood, BackInTime, StopAt
  <2> QED BY <2>1, <2>2
<1>7. n = "mh" => a \in {"notready", "cancel", "draining"}
  BY <1>1, LNames
<1>8. a \in StopAt
  BY <1>1 DEF StopAt
<1>9. open' = open /\ open' \in [Process -> SUBSET {"http", "grpc", "wt"}]
  BY <1>3, LTypes
<1> QED BY <1>3, <1>5, <1>6, <1>7, <1>8, <1>9, LStops

LEMMA LShutsDown ==
  ASSUME LifeInv, NEW n \in Process,
         (n \in Backend /\ (NotReady(n) \/ CancelAll(n))) \/ (n = "mc" /\ StopActors)
  PROVE  LifeInv'
<1>1. PICK a : \/ a = "cancel" /\ at[n] = "notready"
               \/ a = "draining" /\ at[n] = "cancel"
               \/ a = "actors" /\ at[n] = "draining" /\ n = "mc"
            /\ at' = [at EXCEPT ![n] = a]
  BY DEF NotReady, CancelAll, StopActors
<1>2. at' = [at EXCEPT ![n] = a] /\ UNCHANGED <<open, task, age, req>> /\ cancelled \subseteq cancelled' /\ n \in Backend
  BY <1>1, LNames DEF NotReady, CancelAll, StopActors
<1>3. at'[n] = a /\ AgesGood(n) /\ age[n] \in Nat /\ n \notin Front
  BY <1>2, LTypes, LNames
<1>4. a \in StopAt /\ at[n] \in {"serving", "notready", "cancel", "draining"}
      /\ (n = "mh" => a \in {"notready", "cancel", "draining"})
  BY <1>1 DEF StopAt
<1>5. AgesGood(n)'
  <2>1. a \in {"draining", "actors"} => n \in cancelled'
    BY <1>1, <1>2, <1>3 DEF AgesGood, BackInTime, CancelAll, NotReady, StopActors
  <2> QED BY <1>1, <1>2, <1>3, <2>1 DEF AgesGood, BackInTime, StopAt
<1>6. /\ open' = open /\ open' \in [Process -> SUBSET {"http", "grpc", "wt"}] /\ req' \in [Front -> InFlight \cup {Idle}]
  BY <1>2, LTypes
<1> QED BY <1>2, <1>4, <1>5, <1>6, LStops

LEMMA LDrained ==
  ASSUME LifeInv, NEW n \in Front, DrainEnds(n)
  PROVE  LifeInv'
<1>1. /\ at[n] = "draining" /\ at' = [at EXCEPT ![n] = "closing"] /\ UNCHANGED <<task, age, req, cancelled>>
      /\ open' = [open EXCEPT ![n] = @ \ {"http"}] /\ n # "mh" /\ n \in Process /\ n \notin Backend
  BY LNames DEF DrainEnds
<1>2. at'[n] = "closing" /\ AgesGood(n)
  BY <1>1, LTypes
<1>3. AgesGood(n)'
  BY <1>1, <1>2 DEF AgesGood, FrontInTime, StopAt
<1>4. /\ open' \in [Process -> SUBSET {"http", "grpc", "wt"}] /\ open'["mh"] = open["mh"]
      /\ req' \in [Front -> InFlight \cup {Idle}]
  BY <1>1, LTypes, LNames
<1>5. "closing" \in StopAt
  BY DEF StopAt
<1> QED BY <1>1, <1>3, <1>4, <1>5, LStops

LEMMA LRequests ==
  ASSUME LifeInv, NEW n \in Front, Come(n) \/ Answered(n)
  PROVE  LifeInv'
<1>1. PICK r, a : r = [left |-> Request, early |-> FALSE] /\ a = at[n]
  OBVIOUS
<1>2. r \in InFlight /\ r.early = FALSE
  BY <1>1 DEF InFlight
<1>3. /\ (at[n] = "draining" /\ req' = [req EXCEPT ![n] = r]) \/ req' = [req EXCEPT ![n] = Idle]
      /\ UNCHANGED <<at, open, task, age, cancelled>>
  BY <1>1 DEF Come, Answered
<1>4. /\ req' \in [Front -> InFlight \cup {Idle}] /\ \A m \in Front \ {n} : req'[m] = req[m]
      /\ (at[n] = "draining" /\ req'[n] = r) \/ req'[n] = Idle
  BY <1>2, <1>3, LTypes
<1>5. n \in Process /\ n \notin Backend
  BY LNames
<1>6. AgesGood(n) /\ at' = [at EXCEPT ![n] = a] /\ a \in StepAt \cup StopAt \cup {"down", "serving"}
  BY <1>1, <1>3, <1>5, LAt
<1>7. AgesGood(n)'
  <2>1. FrontInTime(n)'
    BY <1>2, <1>3, <1>4 DEF FrontInTime
  <2> QED BY <1>3, <1>5, <1>6, <2>1 DEF AgesGood
<1>8. ClientsFirst'
  BY <1>3, LTypes DEF ClientsFirst
<1> QED BY <1>3, <1>4, <1>5, <1>6, <1>7, <1>8, LTypes, LMoves

LEMMA LTicks ==
  ASSUME LifeInv, LifeTick
  PROVE  LifeInv'
<1>1. /\ UNCHANGED <<at, open, task, cancelled>> /\ \A n \in Process : ~Urgent(n)
      /\ age' = [n \in Process |-> IF Stopping(n) THEN age[n] + 1 ELSE 0]
      /\ req' = [n \in Front |-> IF req[n] = Idle THEN req[n]
                                 ELSE [req[n] EXCEPT !.left = IF @ > 0 THEN @ - 1 ELSE @]]
  BY DEF LifeTick
<1>2. \A n \in Process : Stopping(n) <=> at[n] \in StopAt
  BY DEF Stopping, StopAt
<1>3. ASSUME NEW n \in Front
      PROVE  /\ req'[n] \in InFlight \cup {Idle}
             /\ req[n] = Idle => req'[n] = Idle
             /\ req'[n] # Idle => /\ req[n] \in InFlight /\ req[n] # Idle /\ req'[n].early = req[n].early
                                  /\ req[n].left > 0 => req'[n].left = req[n].left - 1
                                  /\ req[n].left \in Nat
  <2>1. CASE req[n] = Idle
    BY <1>1, <2>1
  <2>2. CASE req[n] # Idle
    <3>1. PICK q, k : q = req[n] /\ k = (IF q.left > 0 THEN q.left - 1 ELSE q.left)
      OBVIOUS
    <3>2. q \in InFlight /\ q.left \in Nat
      BY <2>2, <3>1, LTypes DEF InFlight
    <3>3. k \in Nat /\ (q.left > 0 => k = q.left - 1)
      BY <3>1, <3>2
    <3>4. PICK w : w = [q EXCEPT !.left = k]
      OBVIOUS
    <3>5. w \in InFlight /\ w.left = k /\ w.early = q.early
      BY <3>2, <3>3, <3>4 DEF InFlight
    <3>6. req'[n] = w
      BY <1>1, <2>2, <3>1, <3>4
    <3> QED BY <2>2, <3>1, <3>2, <3>3, <3>5, <3>6
  <2> QED BY <2>1, <2>2
<1>4. age' \in [Process -> Nat] /\ req' \in [Front -> InFlight \cup {Idle}]
  <2>1. age' \in [Process -> Nat]
    BY <1>1, LTypes
  <2>2. req' = [n \in Front |-> req'[n]]
    BY <1>1
  <2> QED BY <1>3, <2>1, <2>2
<1>5. LifeShapes'
  BY <1>1, <1>4, LTypes DEF LifeShapes
<1>6. ClientsFirst'
  BY <1>1, LTypes DEF ClientsFirst
<1>7. ASSUME NEW n \in Process PROVE AgesGood(n)'
  <2>1. AgesGood(n) /\ age[n] \in Nat /\ ~Urgent(n) /\ at'[n] = at[n]
    BY <1>1, LTypes
  <2>2. age'[n] = IF at[n] \in StopAt THEN age[n] + 1 ELSE 0
    BY <1>1, <1>2
  <2>3. ASSUME n \in Front PROVE FrontInTime(n)'
    <3>1. req[n] # Idle => req[n].left # 0 /\ at[n] \in {"draining", "closing"}
      BY <2>1, <2>3 DEF Urgent, TimedOut, AgesGood, FrontInTime
    <3>2. at'[n] \notin {"draining", "closing"} => req'[n] = Idle
      BY <1>3, <2>1, <2>3 DEF AgesGood, FrontInTime
    <3>3. ASSUME req'[n] # Idle, req'[n].early PROVE age'[n] + req'[n].left = Request
      <4>1. /\ req[n] # Idle /\ req[n].left \in Nat /\ req[n].left > 0 /\ req'[n].left = req[n].left - 1
            /\ req[n].early /\ at[n] \in StopAt
        BY <1>3, <2>3, <3>1, <3>3 DEF StopAt
      <4>2. age[n] + req[n].left = Request
        BY <2>1, <2>3, <4>1 DEF AgesGood, FrontInTime
      <4> QED BY <2>1, <2>2, <4>1, <4>2
    <3> QED BY <3>2, <3>3 DEF FrontInTime
  <2>4. ASSUME n \in Backend PROVE BackInTime(n)'
    <3>1. at[n] \notin {"notready", "cancel"} /\ (at[n] = "draining" => ~(age[n] >= Window))
      BY <2>1, <2>4 DEF Urgent
    <3> QED BY <1>1, <2>1, <2>2, <2>4, <3>1 DEF AgesGood, BackInTime
  <2> QED BY <2>1, <2>2, <2>3, <2>4 DEF AgesGood
<1> QED BY <1>5, <1>6, <1>7 DEF LifeInv

LEMMA LifeInductive == LifeInv /\ [LifeNext]_lifeVars => LifeInv'
<1> SUFFICES ASSUME LifeInv, [LifeNext]_lifeVars PROVE LifeInv'
  OBVIOUS
<1>1. ASSUME NEW n \in Process, Crashes(n) \/ Killed(n) \/ Refused(n) \/ BindFails(n) \/ Returns(n) PROVE LifeInv'
  BY <1>1, LGone DEF Crashes, Killed, Refused, BindFails, Returns
<1>2. ASSUME NEW n \in Backend, GrpcUp(n) PROVE LifeInv'
  <2>1. /\ open' = [open EXCEPT ![n] = @ \cup {"grpc"}] /\ UNCHANGED <<at, task, cancelled, age, req>>
    BY <1>2 DEF GrpcUp
  <2>2. open' \in [Process -> SUBSET {"http", "grpc", "wt"}] /\ open["mh"] \subseteq open'["mh"]
    BY <2>1, LTypes, LNames
  <2> QED BY <2>1, <2>2, LQuiet
<1>3. ASSUME \/ \E n \in Backend : GrpcFails(n) \/ TryAgain(n)
             \/ \E c \in Checker : Round(c) \/ CheckerEnds(c)
             \/ \E d \in {"db", "redis"} : Outage(d) \/ Repair(d)
             \/ UNCHANGED lifeVars
      PROVE  LifeInv'
  <2>1. UNCHANGED <<at, open, task, cancelled, age, req>>
    BY <1>3 DEF GrpcFails, TryAgain, Round, CheckerEnds, Outage, Repair, lifeVars
  <2>2. open' \in [Process -> SUBSET {"http", "grpc", "wt"}] /\ open["mh"] \subseteq open'["mh"]
    BY <2>1, LTypes
  <2> QED BY <2>1, <2>2, LQuiet
<1>4. ASSUME NEW n \in Backend, NotReady(n) \/ CancelAll(n) PROVE LifeInv'
  BY <1>4, LShutsDown, LNames
<1>5. ASSUME StopActors PROVE LifeInv'
  BY <1>5, LShutsDown, LNames
<1>6. ASSUME NEW n \in Backend, NEW s \in {"http", "grpc", "wt"}, Closes(n, s) PROVE LifeInv'
  BY <1>6, LCloses
<1> QED BY <1>1, <1>2, <1>3, <1>4, <1>5, <1>6, LBegins, LPasses, LSigterm, LTasks, LRequests, LDrained, LTicks DEF LifeNext

(* For every length of the drain periods and timeouts that fits into the      *)
(* grace period: a request under way at SIGTERM is answered before the        *)
(* process is killed, a media handler has ended by then, a meeting controller *)
(* has at least cancelled everything and waits only for its actors, which has *)
(* no limit, and a media handler that the global controller may name to       *)
(* clients takes them.                                                        *)
THEOREM LifeCorrectProved == LifeSpec => []LifeCorrect
<1>1. LifeInv => LifeCorrect
  <2> SUFFICES ASSUME LifeInv PROVE LifeCorrect
    OBVIOUS
  <2>1. EarlyServed
    <3> SUFFICES ASSUME NEW n \in Front, req[n] # Idle, req[n].early PROVE age[n] < Grace
      BY DEF EarlyServed
    <3>1. AgesGood(n) /\ age[n] \in Nat /\ req[n].left \in Nat
      BY LTypes, LNames DEF InFlight
    <3>2. age[n] + req[n].left = Request
      BY <3>1 DEF AgesGood, FrontInTime
    <3> QED BY <3>1, <3>2
  <2>2. ASSUME NEW n \in Backend, ~(age[n] < Grace)
        PROVE  n = "mc" /\ at[n] = "actors" /\ n \in cancelled
    <3>1. AgesGood(n) /\ age[n] \in Nat
      BY LTypes, LNames
    <3> QED BY <2>2, <3>1 DEF AgesGood, BackInTime, StopAt
  <2>3. task["mh"] \in {"registering", "beating"} /\ "mh" \notin cancelled => "wt" \in open["mh"]
    BY LTypes DEF ClientsFirst
  <2>4. age["mh"] < Grace /\ (age["mc"] = Grace => at["mc"] = "actors" /\ "mc" \in cancelled)
    <3>1. age["mc"] = Grace => ~(age["mc"] < Grace)
      OBVIOUS
    <3> QED BY <2>2, <3>1, LNames
  <2> QED BY <2>1, <2>3, <2>4 DEF LifeCorrect, ServersInTime
<1> QED BY <1>1, LifeInitInv, LifeInductive, PTL DEF LifeSpec

HIDE GraceAssumption

-----------------------------------------------------------------------------
(* Sessions.  The invariant follows a connection through its phases: where  *)
(* it is in the session manager's tables before, during and after its wait, *)
(* and which of its notices can be under way.                               *)

\* A connection the session manager has not been given is in none of its tables.
Unlisted == \A c \in Conn : phase[c] \in {"new", "adding", "provisional"} => c \notin active

\* A task that waits, or is about to, is pending or has been promoted.
WaitersListed == \A c \in Conn : phase[c] \in {"subscribing", "waiting"} => c \in pending \cup active

\* Only promoted connections are woken.
WokenPromoted == \A c \in woken : phase[c] = "waiting" /\ c \in active

\* A notice tells of what has happened, and the MC knows of it only from a notice.
Told == {"held", "closing", "leaving", "closed"}
NoticesTrue ==
    /\ \A n \in notices : /\ n.kind = "connected" => phase[n.conn] \in Told
                          /\ n.kind = "disconnected" => phase[n.conn] = "closed"
    /\ \A c \in Conn : known[c] # NoMc => phase[c] \in Told

Tables == ServedIsActive /\ PendingHasTask /\ Unlisted /\ WaitersListed /\ WokenPromoted

MediaInv == MediaTypeOK /\ Tables /\ NoticesTrue /\ HeldIsKnown

USE MediaAssumption

-----------------------------------------------------------------------------
LEMMA MediaStarts == MediaInit => MediaInv
<1> SUFFICES ASSUME MediaInit PROVE MediaInv
  OBVIOUS
<1>1. MediaTypeOK
  BY DEF MediaInit, MediaTypeOK, Phase
<1>2. Tables
  BY DEF MediaInit, Tables, ServedIsActive, PendingHasTask, Unlisted, WaitersListed, WokenPromoted
<1>3. NoticesTrue /\ HeldIsKnown
  BY DEF MediaInit, NoticesTrue, HeldIsKnown
<1> QED BY <1>1, <1>2, <1>3 DEF MediaInv

\* A step of a connection task moves one connection, and adds at most a true notice.
LEMMA TaskStep ==
  ASSUME MediaInv, NEW c \in Conn, NEW p \in Phase, Goto(c, p), Tables',
         registered' \in Mc \cup {NoMc},
         active' \subseteq Conn, pending' \subseteq Conn, woken' \subseteq Conn,
         phase[c] # "closed",
         p = "held" => phase[c] = "announcing",
         phase[c] \in Told => p \in Told,
         \A n \in notices' : n \in notices
             \/ /\ n \in Notice /\ n.conn = c
                /\ n.kind = "connected" => p \in Told
                /\ n.kind = "disconnected" => p = "closed"
  PROVE  MediaInv'
<1>1. phase' = [phase EXCEPT ![c] = p] /\ UNCHANGED <<calls, registry, known>>
  BY DEF Goto
<1>2. /\ phase' \in [Conn -> Phase] /\ phase'[c] = p
      /\ \A d \in Conn : d # c => phase'[d] = phase[d]
  BY <1>1 DEF MediaInv, MediaTypeOK
<1>3. notices' \subseteq Notice
  BY DEF MediaInv, MediaTypeOK
<1>4. MediaTypeOK'
  BY <1>1, <1>2, <1>3 DEF MediaInv, MediaTypeOK
<1>5. NoticesTrue'
  <2>1. ASSUME NEW n \in notices'
        PROVE  /\ n.kind = "connected" => phase'[n.conn] \in Told
               /\ n.kind = "disconnected" => phase'[n.conn] = "closed"
    <3>1. CASE n \in notices
      <4>1. n.conn \in Conn
        BY <3>1 DEF MediaInv, MediaTypeOK, Notice
      <4> QED BY <1>2, <3>1, <4>1 DEF MediaInv, NoticesTrue
    <3>2. CASE n \notin notices
      BY <1>2, <3>2
    <3> QED BY <3>1, <3>2
  <2>2. ASSUME NEW d \in Conn, known'[d] # NoMc PROVE phase'[d] \in Told
    BY <1>1, <1>2, <2>2 DEF MediaInv, NoticesTrue
  <2> QED BY <2>1, <2>2 DEF NoticesTrue
<1>6. HeldIsKnown'
  <2> SUFFICES ASSUME NEW d \in Conn, phase'[d] = "held", known'[d] # NoMc,
                      \A e \in Conn : (e # d /\ PartOf[e] = PartOf[d]) => phase'[e] # "closed"
               PROVE  PartOf[d] \in registry'[known'[d]]
    BY DEF HeldIsKnown
  <2>1. d # c
    BY <1>1, <1>2 DEF MediaInv, NoticesTrue, Told
  <2>2. \A e \in Conn : (e # d /\ PartOf[e] = PartOf[d]) => phase[e] # "closed"
    BY <1>2
  <2> QED BY <1>1, <1>2, <2>1, <2>2 DEF MediaInv, HeldIsKnown
<1> QED BY <1>4, <1>5, <1>6 DEF MediaInv

LEMMA ConnStepStep ==
  ASSUME MediaInv, NEW c \in Conn, ConnStep(c) \/ Cancel(c) \/ Leave(c)
  PROVE  MediaInv'
<1> USE DEF Tables, ServedIsActive, PendingHasTask, Unlisted, WaitersListed, WokenPromoted
<1>0. MediaTypeOK /\ Tables
  BY DEF MediaInv
<1>1. CASE CheckRegistered(c)
  <2> DEFINE p == IF registered = NoMc THEN "provisional" ELSE "adding"
  <2>1. Tables'
    BY <1>0, <1>1 DEF CheckRegistered, Goto, MediaTypeOK
  <2>2. p \in Phase /\ Goto(c, p) /\ p # "held" /\ phase[c] = "new"
    BY <1>1 DEF CheckRegistered, Phase
  <2> QED BY <1>0, <1>1, <2>1, <2>2, TaskStep DEF CheckRegistered, MediaTypeOK, Told
<1>2. CASE AddConnection(c)
  <2>1. Tables'
    BY <1>0, <1>2 DEF AddConnection, Goto, MediaTypeOK
  <2> QED BY <1>0, <1>2, <2>1, TaskStep DEF AddConnection, MediaTypeOK, Told, Phase
<1>3. CASE AddPendingConnection(c)
  <2>1. Tables'
    BY <1>0, <1>3 DEF AddPendingConnection, Goto, MediaTypeOK
  <2> QED BY <1>0, <1>3, <2>1, TaskStep DEF AddPendingConnection, MediaTypeOK, Told, Phase
<1>4. CASE AwaitRegistration(c)
  <2>1. Tables'
    BY <1>0, <1>4 DEF AwaitRegistration, Goto, MediaTypeOK
  <2> QED BY <1>0, <1>4, <2>1, TaskStep DEF AwaitRegistration, MediaTypeOK, Told, Phase
<1>5. CASE Promoted(c)
  <2>1. Tables'
    BY <1>0, <1>5 DEF Promoted, Goto, MediaTypeOK
  <2> QED BY <1>0, <1>5, <2>1, TaskStep DEF Promoted, MediaTypeOK, Told, Phase
<1>6. CASE Timeout(c)
  <2>1. Tables'
    BY <1>0, <1>6 DEF Timeout, Goto, MediaTypeOK
  <2> QED BY <1>0, <1>6, <2>1, TaskStep DEF Timeout, MediaTypeOK, Told, Phase
<1>7. CASE Cancel(c)
  <2>1. Tables'
    BY <1>0, <1>7 DEF Cancel, Goto, MediaTypeOK
  <2> QED BY <1>0, <1>7, <2>1, TaskStep DEF Cancel, MediaTypeOK, Told, Phase
<1>8. CASE RemovePendingConnection(c)
  <2>1. Tables'
    BY <1>0, <1>8 DEF RemovePendingConnection, Goto, MediaTypeOK
  <2> QED BY <1>0, <1>8, <2>1, TaskStep DEF RemovePendingConnection, MediaTypeOK, Told, Phase
<1>9. CASE Announce(c)
  <2> DEFINE n == [kind |-> "connected", conn |-> c, to |-> registered, left |-> Attempts]
  <2>1. Tables'
    BY <1>0, <1>9 DEF Announce, Goto, MediaTypeOK
  <2>2. registered # NoMc => n \in Notice /\ n.conn = c /\ n.kind = "connected"
    BY <1>0 DEF MediaTypeOK, Notice
  <2>3. \A k \in notices' : k \in notices \/ (registered # NoMc /\ k = n)
    BY <1>9 DEF Announce, Notify
  <2> HIDE DEF n
  <2> QED BY <1>0, <1>9, <2>1, <2>2, <2>3, TaskStep DEF Announce, MediaTypeOK, Told, Phase
<1>10. CASE Leave(c)
  <2>1. Tables'
    BY <1>0, <1>10 DEF Leave, Goto, MediaTypeOK
  <2> QED BY <1>0, <1>10, <2>1, TaskStep DEF Leave, MediaTypeOK, Told, Phase
<1>11. CASE RemoveConnection(c)
  <2>1. Tables'
    BY <1>0, <1>11 DEF RemoveConnection, Goto, MediaTypeOK
  <2> QED BY <1>0, <1>11, <2>1, TaskStep DEF RemoveConnection, MediaTypeOK, Told, Phase
<1>12. CASE AnnounceEnd(c)
  <2> DEFINE n == [kind |-> "disconnected", conn |-> c, to |-> registered, left |-> Attempts]
  <2>1. Tables'
    BY <1>0, <1>12 DEF AnnounceEnd, Goto, MediaTypeOK
  <2>2. registered # NoMc => n \in Notice /\ n.conn = c /\ n.kind = "disconnected"
    BY <1>0 DEF MediaTypeOK, Notice
  <2>3. \A k \in notices' : k \in notices \/ (registered # NoMc /\ k = n)
    BY <1>12 DEF AnnounceEnd, Notify
  <2> HIDE DEF n
  <2> QED BY <1>0, <1>12, <2>1, <2>2, <2>3, TaskStep DEF AnnounceEnd, MediaTypeOK, Told, Phase
<1> QED BY <1>1, <1>2, <1>3, <1>4, <1>5, <1>6, <1>7, <1>8, <1>9, <1>10, <1>11, <1>12 DEF ConnStep

LEMMA McStepStep ==
  ASSUME MediaInv, NEW m \in Mc, McStep(m)
  PROVE  MediaInv'
<1>0. MediaTypeOK /\ Tables
  BY DEF MediaInv
<1>1. CASE StartRegistration(m) \/ RegistrationFails(m)
  <2>1. UNCHANGED <<registered, active, pending, woken, phase, notices, registry, known>>
    BY <1>1 DEF StartRegistration, RegistrationFails
  <2>2. calls' \in [Mc -> 0..Attempts]
    BY <1>0, <1>1 DEF StartRegistration, RegistrationFails, MediaTypeOK
  <2>3. MediaTypeOK' /\ NoticesTrue' /\ HeldIsKnown'
    BY <2>1, <2>2 DEF MediaInv, MediaTypeOK, NoticesTrue, HeldIsKnown
  <2>4. Tables'
    BY <1>0, <2>1 DEF Tables, ServedIsActive, PendingHasTask, Unlisted, WaitersListed, WokenPromoted
  <2> QED BY <2>3, <2>4 DEF MediaInv
<1>2. CASE RegisterMeeting(m)
  <2>1. /\ registered' = m /\ active' = active \cup pending /\ pending' = {}
        /\ woken' = woken \cup Waiting
        /\ UNCHANGED <<phase, notices, registry, known>>
    BY <1>2 DEF RegisterMeeting, HandleRegisterMeeting
  <2>2. calls' \in [Mc -> 0..Attempts]
    BY <1>0, <1>2 DEF RegisterMeeting, MediaTypeOK
  <2>3. MediaTypeOK' /\ NoticesTrue' /\ HeldIsKnown'
    BY <2>1, <2>2 DEF MediaInv, MediaTypeOK, NoticesTrue, HeldIsKnown, Waiting
  <2>4. Tables'
    BY <1>0, <2>1 DEF Tables, ServedIsActive, PendingHasTask, Unlisted, WaitersListed,
                      WokenPromoted, Waiting, MediaTypeOK
  <2> QED BY <2>3, <2>4 DEF MediaInv
<1>3. CASE RemoveMeeting(m)
  <2>1. /\ registry' = [registry EXCEPT ![m] = {}]
        /\ known' = [c \in Conn |-> IF known[c] = m THEN NoMc ELSE known[c]]
        /\ UNCHANGED <<registered, active, pending, woken, phase, calls, notices>>
    BY <1>3 DEF RemoveMeeting
  <2>2. MediaTypeOK' /\ NoticesTrue'
    BY <2>1 DEF MediaInv, MediaTypeOK, NoticesTrue
  <2>3. HeldIsKnown'
    BY <1>0, <2>1 DEF MediaInv, MediaTypeOK, HeldIsKnown
  <2>4. Tables'
    BY <1>0, <2>1 DEF Tables, ServedIsActive, PendingHasTask, Unlisted, WaitersListed, WokenPromoted
  <2> QED BY <2>2, <2>3, <2>4 DEF MediaInv
<1> QED BY <1>1, <1>2, <1>3 DEF McStep

LEMMA AgainFacts ==
  ASSUME MediaTypeOK, NEW n \in notices, notices' \in {notices \ {n}, Again(n)}
  PROVE  \A k \in notices' : k \in Notice /\ \E o \in notices : k.kind = o.kind /\ k.conn = o.conn
<1>1. n \in Notice /\ notices \subseteq Notice
  BY DEF MediaTypeOK
<1>2. \A x \in Notice : x.left # 1 => /\ [x EXCEPT !.left = x.left - 1] \in Notice
                                      /\ [x EXCEPT !.left = x.left - 1].kind = x.kind
                                      /\ [x EXCEPT !.left = x.left - 1].conn = x.conn
  BY DEF Notice
<1>3. \A k \in notices' : k \in notices \/ (n.left # 1 /\ k = [n EXCEPT !.left = n.left - 1])
  BY DEF Again
<1> QED BY <1>1, <1>2, <1>3

LEMMA NoticeStep ==
  ASSUME MediaInv, NEW n \in notices, DeliverNotice(n) \/ LoseNotice(n)
  PROVE  MediaInv'
<1>0. MediaTypeOK /\ Tables /\ n \in Notice /\ n.to \in Mc /\ n.conn \in Conn
  BY DEF MediaInv, MediaTypeOK, Notice
<1>1. /\ notices' \in {notices \ {n}, Again(n)}
      /\ UNCHANGED <<registered, active, pending, woken, phase, calls>>
  BY DEF DeliverNotice, LoseNotice
<1>2. \A k \in notices' : k \in Notice /\ \E o \in notices : k.kind = o.kind /\ k.conn = o.conn
  BY <1>0, <1>1, AgainFacts
<1>3. Tables'
  BY <1>0, <1>1 DEF Tables, ServedIsActive, PendingHasTask, Unlisted, WaitersListed, WokenPromoted
<1>4. \A k \in notices' : /\ k.kind = "connected" => phase[k.conn] \in Told
                          /\ k.kind = "disconnected" => phase[k.conn] = "closed"
  BY <1>2 DEF MediaInv, NoticesTrue
<1>5. CASE UNCHANGED <<registry, known>>
  <2>1. MediaTypeOK' /\ NoticesTrue' /\ HeldIsKnown'
    BY <1>1, <1>2, <1>4, <1>5 DEF MediaInv, MediaTypeOK, NoticesTrue, HeldIsKnown
  <2> QED BY <1>3, <2>1 DEF MediaInv
<1>6. CASE /\ n.kind = "connected"
           /\ registry' = [registry EXCEPT ![n.to] = @ \cup {PartOf[n.conn]}]
           /\ known' = [known EXCEPT ![n.conn] = n.to]
  <2>1. MediaTypeOK'
    BY <1>0, <1>1, <1>2, <1>6 DEF MediaTypeOK
  <2>2. NoticesTrue'
    BY <1>0, <1>1, <1>4, <1>6 DEF MediaInv, MediaTypeOK, NoticesTrue
  <2>3. HeldIsKnown'
    <3> SUFFICES ASSUME NEW d \in Conn, phase[d] = "held", known'[d] # NoMc,
                        \A e \in Conn : (e # d /\ PartOf[e] = PartOf[d]) => phase[e] # "closed"
                 PROVE  PartOf[d] \in registry'[known'[d]]
      BY <1>1 DEF HeldIsKnown
    <3>1. CASE d = n.conn
      BY <1>0, <1>6, <3>1 DEF MediaTypeOK
    <3>2. CASE d # n.conn
      <4>1. known'[d] = known[d] /\ known[d] \in Mc /\ PartOf[d] \in registry[known[d]]
        BY <1>0, <1>6, <3>2 DEF MediaInv, MediaTypeOK, HeldIsKnown
      <4> QED BY <1>0, <1>6, <4>1 DEF MediaTypeOK
    <3> QED BY <3>1, <3>2
  <2> QED BY <1>3, <2>1, <2>2, <2>3 DEF MediaInv
<1>7. CASE /\ n.kind = "disconnected"
           /\ registry' = [registry EXCEPT ![n.to] = @ \ {PartOf[n.conn]}]
           /\ known' = known
  <2>1. MediaTypeOK'
    BY <1>0, <1>1, <1>2, <1>7 DEF MediaTypeOK
  <2>2. NoticesTrue'
    BY <1>1, <1>4, <1>7 DEF MediaInv, NoticesTrue
  <2>3. HeldIsKnown'
    <3> SUFFICES ASSUME NEW d \in Conn, phase[d] = "held", known[d] # NoMc,
                        \A e \in Conn : (e # d /\ PartOf[e] = PartOf[d]) => phase[e] # "closed"
                 PROVE  PartOf[d] \in registry'[known[d]]
      BY <1>1, <1>7 DEF HeldIsKnown
    <3>1. phase[n.conn] = "closed"
      BY <1>7 DEF MediaInv, NoticesTrue
    <3>2. PartOf[n.conn] # PartOf[d]
      BY <1>0, <3>1
    <3>3. known[d] \in Mc /\ PartOf[d] \in registry[known[d]]
      BY <1>0 DEF MediaInv, MediaTypeOK, HeldIsKnown
    <3> QED BY <1>0, <1>7, <3>2, <3>3 DEF MediaTypeOK
  <2> QED BY <1>3, <2>1, <2>2, <2>3 DEF MediaInv
<1> QED BY <1>5, <1>6, <1>7 DEF DeliverNotice, LoseNotice, NotifyConnected, NotifyDisconnected

LEMMA MediaSteps == MediaInv /\ [MediaNext]_mediaVars => MediaInv'
<1> SUFFICES ASSUME MediaInv, [MediaNext]_mediaVars PROVE MediaInv'
  OBVIOUS
<1>1. CASE UNCHANGED mediaVars
  BY <1>1 DEF mediaVars, MediaInv, MediaTypeOK, Tables, ServedIsActive, PendingHasTask, Unlisted,
              WaitersListed, WokenPromoted, NoticesTrue, HeldIsKnown
<1> QED BY <1>1, ConnStepStep, McStepStep, NoticeStep DEF MediaNext

-----------------------------------------------------------------------------
\* What every state of the media handler, its connections and the registries satisfies.
THEOREM MediaInductive == MediaSpec => []MediaInv
  BY MediaStarts, MediaSteps, PTL DEF MediaSpec

\* Tables, tasks, notices and registries keep their types.
THEOREM MediaTypeCorrect == MediaSpec => []MediaTypeOK
<1>1. MediaInv => MediaTypeOK
  BY DEF MediaInv
<1> QED BY <1>1, MediaInductive, PTL

\* handle_connection serves no connection that the session manager does not count.
THEOREM ServedCorrect == MediaSpec => []ServedIsActive
<1>1. MediaInv => ServedIsActive
  BY DEF MediaInv, Tables
<1> QED BY <1>1, MediaInductive, PTL

\* await_meeting_registration leaves no pending entry behind, whatever it raced.
THEOREM PendingCorrect == MediaSpec => []PendingHasTask
<1>1. MediaInv => PendingHasTask
  BY DEF MediaInv, Tables
<1> QED BY <1>1, MediaInductive, PTL

\* The MC that took up a held connection knows its participant is connected.
THEOREM KnownCorrect == MediaSpec => []HeldIsKnown
<1>1. MediaInv => HeldIsKnown
  BY DEF MediaInv
<1> QED BY <1>1, MediaInductive, PTL

\* The session manager's tables and the connections' tasks agree in every state,
\* and with what the MCs know.
THEOREM TablesCorrect == MediaSpec => []Tracked
<1>1. MediaInv => Tracked
  BY DEF MediaInv, Tables, Tracked
<1> QED BY <1>1, MediaInductive, PTL
=============================================================================
