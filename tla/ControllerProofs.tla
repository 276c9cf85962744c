-------------------------- MODULE ControllerProofs --------------------------
(***************************************************************************)
(* A meeting controller process and the fenced Redis client it stores      *)
(* assignments with, for any number of calls, meetings, connections and    *)
(* generations.                                                            *)
(*                                                                         *)
(* FencedRedis.  DataFenced is inductive with the types.  That a higher    *)
(* generation wins strictly needs to know of the stores under way: each    *)
(* has claimed a generation, no two the same one, and none the one that    *)
(* the present assignment was written with.                                *)
(*                                                                         *)
(* Controller.  The counters are sizes of sets: a step adds one element to *)
(* a set, removes one or leaves it, and the counter moves alike.  What     *)
(* must be known besides is how shutdown proceeds (Halting), that a call   *)
(* under way is about a meeting, and that a call which has stored its      *)
(* assignment still finds it unless a refused call deleted it (StoreKept). *)
(***************************************************************************)
EXTENDS Controller, FencedRedis, FiniteSetTheorems, TLAPS


\* A store under way holds a token that was claimed for it alone.
Claimed ==
    \A c \in Call : call[c].pc = "store" =>
        /\ gen # None /\ call[c].tok <= gen
        /\ mh # None => mh.tok # call[c].tok
        /\ \A d \in Call : (d # c /\ call[d].pc = "store") => call[d].tok # call[c].tok

IndInv == TypeOK /\ DataFenced /\ (~cleaned => Claimed)

USE FencingAssumption

LEMMA ValueFields ==
  ASSUME NEW c \in Call, NEW t \in Nat
  PROVE  [by |-> c, tok |-> t] \in Value /\ [by |-> c, tok |-> t] # None
<1>1. [by |-> c, tok |-> t] \in Value
  BY DEF Value
<1> QED BY <1>1

LEMMA InitIndInv == Init => IndInv
<1> SUFFICES ASSUME Init PROVE IndInv
  OBVIOUS
<1>1. cleaned \in BOOLEAN
  BY DEF Init
<1>2. /\ gen \in Nat \cup {None} /\ mh \in Value \cup {None}
      /\ state \in [Field -> Value \cup {None}] /\ call \in [Call -> [pc: Phase, tok: Nat]]
  BY DEF Init, Idle, Phase
<1>3. DataFenced /\ Claimed
  BY DEF Init, DataFenced, Claimed, Idle
<1> QED BY <1>1, <1>2, <1>3 DEF IndInv, TypeOK

\* What every step finds: the token of a call is a number and so is Current.
LEMMA Tokens ==
  ASSUME TypeOK
  PROVE  /\ Current \in Nat
         /\ gen # None => gen \in Nat /\ Current = gen
         /\ \A c \in Call : call[c].tok \in Nat /\ call[c].pc \in Phase
         /\ mh # None => mh.tok \in Nat
         /\ \A f \in Field : state[f] # None => state[f].tok \in Nat
<1>1. /\ Current \in Nat
      /\ gen # None => gen \in Nat /\ Current = gen
  BY DEF TypeOK, Current
<1>2. \A c \in Call : call[c].tok \in Nat /\ call[c].pc \in Phase
  BY DEF TypeOK
<1>3. mh # None => mh.tok \in Nat
  BY DEF TypeOK, Value
<1>4. \A f \in Field : state[f] # None => state[f].tok \in Nat
  BY DEF TypeOK, Value
<1> QED BY <1>1, <1>2, <1>3, <1>4

\* A call goes to a phase other than store, and nothing else changes.
LEMMA QuietStep ==
  ASSUME IndInv, NEW c \in Call, NEW r \in [pc: Phase, tok: Nat], r.pc # "store",
         call' = [call EXCEPT ![c] = r], UNCHANGED <<gen, mh, state, cleaned>>
  PROVE  IndInv'
<1>1. TypeOK' /\ DataFenced'
  BY DEF IndInv, TypeOK, DataFenced
<1>2. ~cleaned' => Claimed'
  BY DEF IndInv, TypeOK, Claimed
<1> QED BY <1>1, <1>2 DEF IndInv

LEMMA IdleRecord == Idle \in [pc: Phase, tok: Nat] /\ Idle.pc = "idle"
  BY DEF Idle, Phase

LEMMA TakeTokenStep ==
  ASSUME IndInv, NEW c \in Call, NEW p \in {"store", "holding"}, TakeToken(c, p)
  PROVE  IndInv'
<1>1. TypeOK
  BY DEF IndInv
<1>2. /\ gen' = Current + 1 /\ gen' \in Nat /\ gen' # None
      /\ call' = [call EXCEPT ![c] = [pc |-> p, tok |-> gen']]
      /\ mh' = mh /\ state' = state /\ cleaned' = cleaned
  BY <1>1, Tokens DEF TakeToken
<1>3. TypeOK'
  BY <1>1, <1>2 DEF TypeOK, Phase
<1>4. /\ mh # None => mh.tok < gen'
      /\ \A f \in Field : state[f] # None => state[f].tok < gen'
  BY <1>1, <1>2, Tokens DEF IndInv, DataFenced
<1>5. DataFenced'
  BY <1>1, <1>2, <1>4, Tokens DEF DataFenced
<1>6. ASSUME ~cleaned' PROVE Claimed'
  <2>1. \A d \in Call : call[d].pc = "store" => call[d].tok < gen'
    BY <1>1, <1>2, <1>6, Tokens DEF IndInv, Claimed
  <2>2. /\ call'[c].tok = gen'
        /\ \A d \in Call : d # c => call'[d] = call[d]
    BY <1>1, <1>2 DEF TypeOK
  <2>3. \A d \in Call : (d # c /\ call[d].pc = "store") =>
            /\ mh # None => mh.tok # call[d].tok
            /\ \A e \in Call : (e # d /\ call[e].pc = "store") => call[e].tok # call[d].tok
    BY <1>2, <1>6 DEF IndInv, Claimed
  <2> SUFFICES ASSUME NEW d \in Call, call'[d].pc = "store"
               PROVE  /\ call'[d].tok <= gen'
                      /\ mh # None => mh.tok # call'[d].tok
                      /\ \A e \in Call : (e # d /\ call'[e].pc = "store") => call'[e].tok # call'[d].tok
    BY <1>2 DEF Claimed
  <2>4. CASE d = c
    <3>1. \A e \in Call : (e # c /\ call'[e].pc = "store") => call'[e].tok < gen'
      BY <2>1, <2>2
    <3> QED BY <2>2, <2>4, <1>1, <1>2, <1>4, <3>1, Tokens
  <2>5. CASE d # c
    BY <2>1, <2>2, <2>3, <2>5, <1>1, <1>2, Tokens
  <2> QED BY <2>4, <2>5
<1> QED BY <1>3, <1>5, <1>6 DEF IndInv

LEMMA FinishStoreStep ==
  ASSUME IndInv, NEW c \in Call, FinishStore(c)
  PROVE  IndInv'
<1> DEFINE t == call[c].tok
<1>1. TypeOK
  BY DEF IndInv
<1>2. CASE ~Passes(t)
  BY <1>2, IdleRecord, QuietStep DEF FinishStore
<1>3. CASE Passes(t)
  <2>1. /\ gen' = t /\ t \in Nat /\ mh' = [by |-> c, tok |-> t] /\ state' = state
        /\ call' = [call EXCEPT ![c] = Idle] /\ cleaned' = cleaned
    BY <1>1, <1>3, Tokens DEF FinishStore
  <2>2. gen # None => gen <= gen'
    BY <1>1, <1>3, <2>1, Tokens DEF Passes
  <2>3. mh' \in Value /\ mh' # None /\ mh'.tok = t /\ gen' # None
    BY <2>1, ValueFields
  <2> HIDE DEF t
  <2>4. TypeOK'
    BY <1>1, <2>1, <2>3, IdleRecord DEF TypeOK
  <2>5. DataFenced'
    BY <1>1, <2>1, <2>2, <2>3, Tokens DEF IndInv, DataFenced
  <2>6. ASSUME ~cleaned' PROVE Claimed'
    <3> SUFFICES ASSUME NEW d \in Call, call'[d].pc = "store"
                 PROVE  /\ call'[d].tok <= gen'
                        /\ mh'.tok # call'[d].tok
                        /\ \A e \in Call : (e # d /\ call'[e].pc = "store")
                                => call'[e].tok # call'[d].tok
      BY <2>3 DEF Claimed
    <3>1. d # c /\ call'[d] = call[d]
      BY <1>1, <2>1, IdleRecord DEF TypeOK
    <3>2. /\ gen # None /\ call[d].tok <= gen
          /\ \A e \in Call : (e # d /\ call[e].pc = "store") => call[e].tok # call[d].tok
      BY <2>1, <2>6, <3>1 DEF IndInv, Claimed
    <3>3. \A e \in Call : call'[e].pc = "store" => call'[e] = call[e]
      BY <1>1, <2>1, IdleRecord DEF TypeOK
    <3>4. call[d].tok # t
      BY <3>1, <3>2 DEF FinishStore, t
    <3> QED BY <1>1, <2>1, <2>2, <2>3, <3>1, <3>2, <3>3, <3>4, Tokens
  <2> QED BY <2>4, <2>5, <2>6 DEF IndInv
<1> QED BY <1>2, <1>3

LEMMA FinishDeleteStep ==
  ASSUME IndInv, NEW c \in Call, FinishDelete(c)
  PROVE  IndInv'
<1> DEFINE t == call[c].tok
<1>1. TypeOK
  BY DEF IndInv
<1>2. CASE ~(gen # None /\ Passes(t))
  BY <1>2, IdleRecord, QuietStep DEF FinishDelete
<1>3. CASE gen # None /\ Passes(t)
  <2>1. /\ gen' = t /\ t \in Nat /\ mh' = None /\ state' = state
        /\ call' = [call EXCEPT ![c] = Idle] /\ call[c].pc = "delete" /\ cleaned' = cleaned
    BY <1>1, <1>3, Tokens DEF FinishDelete
  <2>2. gen <= gen' /\ gen' # None /\ gen \in Nat
    BY <1>1, <1>3, <2>1, Tokens DEF Passes
  <2> HIDE DEF t
  <2>3. TypeOK'
    BY <1>1, <2>1, IdleRecord DEF TypeOK
  <2>4. DataFenced'
    BY <1>1, <2>1, <2>2, Tokens DEF IndInv, DataFenced
  <2>5. ASSUME ~cleaned' PROVE Claimed'
    <3>1. \A e \in Call : call'[e].pc = "store" => call'[e] = call[e]
      BY <1>1, <2>1, IdleRecord DEF TypeOK
    <3> QED BY <1>1, <2>1, <2>2, <2>5, <3>1, Tokens DEF IndInv, Claimed
  <2> QED BY <2>3, <2>4, <2>5 DEF IndInv
<1> QED BY <1>2, <1>3

LEMMA StoreMeetingStateStep ==
  ASSUME IndInv, NEW c \in Call, NEW F \in SUBSET Field, StoreMeetingState(c, F)
  PROVE  IndInv'
<1> DEFINE t == call[c].tok
<1>1. TypeOK
  BY DEF IndInv
<1>2. /\ gen' = t /\ t \in Nat /\ gen' # None /\ mh' = mh /\ call' = call
      /\ cleaned' = cleaned
      /\ state' = [f \in Field |-> IF f \in F THEN [by |-> c, tok |-> t] ELSE state[f]]
  BY <1>1, Tokens DEF StoreMeetingState
<1>3. gen # None => gen <= gen'
  BY <1>1, <1>2, Tokens DEF StoreMeetingState, Passes
<1>4. [by |-> c, tok |-> t] \in Value
  BY <1>2, ValueFields
<1> HIDE DEF t
<1>5. TypeOK'
  BY <1>1, <1>2, <1>4 DEF TypeOK
<1>6. DataFenced'
  <2>1. \A f \in Field : state'[f] # None => state'[f].tok <= gen'
    BY <1>1, <1>2, <1>3, Tokens DEF IndInv, DataFenced
  <2>2. mh' # None => mh'.tok <= gen'
    BY <1>1, <1>2, <1>3, Tokens DEF IndInv, DataFenced
  <2> QED BY <1>2, <2>1, <2>2 DEF DataFenced
<1>7. ~cleaned' => Claimed'
  BY <1>1, <1>2, <1>3, Tokens DEF IndInv, Claimed
<1> QED BY <1>5, <1>6, <1>7 DEF IndInv

LEMMA NextIndInv ==
  ASSUME IndInv, [Next]_vars
  PROVE  IndInv'
<1>1. TypeOK
  BY DEF IndInv
<1>2. ASSUME NEW c \in Call, GetGeneration(c) \/ BeginDelete(c) \/ Abandon(c)
      PROVE  IndInv'
  <2> DEFINE h == [pc |-> "holding", tok |-> Current]
             d == [pc |-> "delete", tok |-> Current + 1]
  <2>1. /\ h \in [pc: Phase, tok: Nat] /\ h.pc # "store"
        /\ d \in [pc: Phase, tok: Nat] /\ d.pc # "store"
    BY <1>1, Tokens DEF Phase
  <2>2. UNCHANGED <<gen, mh, state, cleaned>> /\ (call' = [call EXCEPT ![c] = h]
            \/ call' = [call EXCEPT ![c] = d] \/ call' = [call EXCEPT ![c] = Idle])
    BY <1>2 DEF GetGeneration, BeginDelete, Abandon
  <2> HIDE DEF h, d
  <2> QED BY <2>1, <2>2, IdleRecord, QuietStep
<1>3. ASSUME NEW c \in Call, IncrementGeneration(c) \/ BeginStore(c)
      PROVE  IndInv'
  BY <1>3, TakeTokenStep DEF IncrementGeneration, BeginStore
<1>4. CASE DeleteMeeting
  <2>1. TypeOK' /\ DataFenced'
    BY <1>1, <1>4 DEF DeleteMeeting, TypeOK, DataFenced
  <2>2. cleaned'
    BY <1>4 DEF DeleteMeeting
  <2> QED BY <2>1, <2>2 DEF IndInv
<1>5. CASE UNCHANGED vars
  BY <1>5 DEF vars, IndInv, TypeOK, DataFenced, Claimed
<1> QED BY <1>2, <1>3, <1>4, <1>5, FinishStoreStep, FinishDeleteStep, StoreMeetingStateStep DEF Next

\* Values, generations and tokens stay well formed.
THEOREM TypeCorrect == Spec => []TypeOK
<1>1. IndInv => TypeOK
  BY DEF IndInv
<1>2. IndInv /\ [Next]_vars => IndInv'
  BY NextIndInv
<1> QED BY <1>1, <1>2, InitIndInv, PTL DEF Spec

\* No value is newer than the generation, cleanups or not.
THEOREM FenceCorrect == Spec => []DataFenced
<1>1. IndInv => DataFenced
  BY DEF IndInv
<1>2. IndInv /\ [Next]_vars => IndInv'
  BY NextIndInv
<1> QED BY <1>1, <1>2, InitIndInv, PTL DEF Spec

\* Concurrent stores hold different tokens.
THEOREM TokensUnique == Spec => []StoresOrdered
<1>1. IndInv => StoresOrdered
  BY DEF IndInv, Claimed, StoresOrdered
<1>2. IndInv /\ [Next]_vars => IndInv'
  BY NextIndInv
<1> QED BY <1>1, <1>2, InitIndInv, PTL DEF Spec

-----------------------------------------------------------------------------
\* What a step may do to the assignment: keep it, drop it, or replace it with
\* one whose token passed the fence.
LEMMA AssignmentStep ==
  ASSUME IndInv, [Next]_vars, mh # None, mh' # None
  PROVE  /\ mh'.tok >= mh.tok
         /\ (~cleaned /\ mh' # mh) => mh'.tok > mh.tok
<1>1. TypeOK
  BY DEF IndInv
<1>2. mh.tok \in Nat /\ gen \in Nat /\ mh.tok <= gen
  BY <1>1, Tokens DEF IndInv, DataFenced
<1>3. CASE mh' = mh
  BY <1>2, <1>3
<1>4. CASE mh' # mh
  <2>1. PICK c \in Call : FinishStore(c) /\ Passes(call[c].tok)
    BY <1>4 DEF Next, vars, GetGeneration, IncrementGeneration, BeginStore, TakeToken, FinishStore,
                BeginDelete, FinishDelete, Abandon, StoreMeetingState, DeleteMeeting
  <2>2. mh' = [by |-> c, tok |-> call[c].tok] /\ call[c].pc = "store"
    BY <2>1 DEF FinishStore
  <2>3. mh'.tok = call[c].tok /\ call[c].tok \in Nat /\ call[c].tok >= gen
    BY <1>1, <1>2, <2>1, <2>2, Tokens DEF Passes
  <2>4. ~cleaned => mh.tok # call[c].tok
    BY <2>2 DEF IndInv, Claimed
  <2> QED BY <1>2, <2>3, <2>4
<1> QED BY <1>3, <1>4

LEMMA StateStep ==
  ASSUME IndInv, [Next]_vars, NEW f \in Field, state[f] # None, state'[f] # None
  PROVE  state'[f].tok >= state[f].tok
<1>1. TypeOK
  BY DEF IndInv
<1>2. state[f].tok \in Nat /\ gen \in Nat /\ state[f].tok <= gen
  BY <1>1, Tokens DEF IndInv, DataFenced
<1>3. CASE state'[f] = state[f]
  BY <1>2, <1>3
<1>4. CASE state'[f] # state[f]
  <2>1. PICK c \in Call, F \in SUBSET Field : StoreMeetingState(c, F)
    BY <1>4 DEF Next, vars, GetGeneration, IncrementGeneration, BeginStore, TakeToken, FinishStore,
                BeginDelete, FinishDelete, Abandon, DeleteMeeting
  <2>2. state'[f] = [by |-> c, tok |-> call[c].tok]
    BY <1>4, <2>1 DEF StoreMeetingState
  <2>3. call[c].tok \in Nat /\ call[c].tok >= gen
    BY <1>1, <1>2, <2>1, Tokens DEF StoreMeetingState, Passes
  <2> QED BY <1>2, <2>2, <2>3
<1> QED BY <1>3, <1>4

\* A late write never replaces a newer one.
THEOREM NoStaleCorrect == Spec => NoStaleOverwrite
<1>1. IndInv /\ [Next]_vars =>
        [/\ (mh # None /\ mh' # None) => mh'.tok >= mh.tok
         /\ \A f \in Field : (state[f] # None /\ state'[f] # None)
                                => state'[f].tok >= state[f].tok]_vars
  BY AssignmentStep, StateStep
<1>2. IndInv /\ [Next]_vars => IndInv'
  BY NextIndInv
<1> QED BY <1>1, <1>2, InitIndInv, PTL DEF Spec, NoStaleOverwrite

\* Of two owners of a meeting the one with the higher generation wins.
THEOREM HigherWins == Spec => HigherGenerationWins
<1>1. IndInv /\ [Next]_vars =>
        [(~cleaned /\ mh # None /\ mh' # None /\ mh' # mh) => mh'.tok > mh.tok]_vars
  BY AssignmentStep
<1>2. IndInv /\ [Next]_vars => IndInv'
  BY NextIndInv
<1> QED BY <1>1, <1>2, InitIndInv, PTL DEF Spec, HigherGenerationWins

\* Values are covered by the generation, and concurrent stores hold different tokens.
THEOREM FencedCorrect == Spec => []Fenced
<1>1. DataFenced /\ StoresOrdered => Fenced
  BY DEF Fenced
<1> QED BY <1>1, FenceCorrect, TokensUnique, PTL

\* A value is only ever replaced by a newer one.
THEOREM NewerWinsCorrect == Spec => NewerWins
  BY NoStaleCorrect, HigherWins, PTL DEF NewerWins

-----------------------------------------------------------------------------
(* The controller process. *)

\* What shutdown leaves behind.
Halting ==
    /\ ctl # "running" => ~acceptingNew /\ life \in {"stopping", "exited"}
    /\ ctl = "stopped" => \A m \in MeetingId : meetings[m] = "none"

\* A call that came in is about a meeting.
CallsNamed == \A r \in Rpc : rpc[r].st # "idle" => rpc[r].meeting \in MeetingId

\* AssignmentKept, for a meeting that is about to be created as well: its call has
\* stored an assignment, which only the clean-up of a refused call can have deleted.
StoreKept ==
    \A m \in MeetingId :
        (redis[m] = Nil /\ \/ meetings[m] = "running"
                           \/ \E r \in Rpc : rpc[r] = [st |-> "stored", meeting |-> m])
            => \E r \in Rpc : rpc[r].meeting = m /\ rpc[r].st = "undone"

MeetingsInv == Halting /\ CallsNamed /\ CountCoversManaged /\ GaugeExact /\ StoreKept
CtlInv == CtlTypeOK /\ MeetingsInv /\ ConnectionsEnd

USE ControllerAssumption

Uncounted == {r \in Rpc : rpc[r].st \in {"created", "dropped"}}
Slots == {c \in Client : InHandler(c) \/ conn[c].st = "leaked"}

Connection == [st: ConnState, meeting: MeetingId \cup {Nil}, first: BOOLEAN, actor: ActorState]

\* Changes of a connection's record.
LEMMA NewState ==
  ASSUME NEW r \in Connection, NEW s \in ConnState
  PROVE  /\ [r EXCEPT !.st = s] \in Connection /\ [r EXCEPT !.st = s].st = s
         /\ [r EXCEPT !.st = s].actor = r.actor
  BY DEF Connection

LEMMA NewActor ==
  ASSUME NEW r \in Connection, NEW a \in ActorState
  PROVE  /\ [r EXCEPT !.actor = a] \in Connection /\ [r EXCEPT !.actor = a].actor = a
         /\ [r EXCEPT !.actor = a].st = r.st
  BY DEF Connection

LEMMA NewMeeting ==
  ASSUME NEW r \in Connection, NEW m \in MeetingId \cup {Nil}
  PROVE  /\ [r EXCEPT !.meeting = m] \in Connection /\ [r EXCEPT !.meeting = m].st = r.st
         /\ [r EXCEPT !.meeting = m].actor = r.actor
  BY DEF Connection

LEMMA NewStateActor ==
  ASSUME NEW r \in Connection, NEW s \in ConnState, NEW a \in ActorState
  PROVE  [r EXCEPT !.st = s, !.actor = a] \in Connection
  BY DEF Connection

LEMMA NewStateMeeting ==
  ASSUME NEW r \in Connection, NEW s \in ConnState, NEW m \in MeetingId \cup {Nil}
  PROVE  /\ [r EXCEPT !.st = s, !.meeting = m] \in Connection
         /\ [r EXCEPT !.st = s, !.meeting = m].st = s
  BY DEF Connection

LEMMA NewStateActorFirst ==
  ASSUME NEW r \in Connection, NEW s \in ConnState, NEW a \in ActorState
  PROVE  /\ [r EXCEPT !.st = s, !.actor = a, !.first = TRUE] \in Connection
         /\ [r EXCEPT !.st = s, !.actor = a, !.first = FALSE] \in Connection
         /\ [r EXCEPT !.st = s, !.actor = a, !.first = TRUE].st = s
         /\ [r EXCEPT !.st = s, !.actor = a, !.first = FALSE].st = s
  BY DEF Connection

LEMMA SetsFinite ==
  /\ IsFiniteSet(Managed) /\ IsFiniteSet(Managed') /\ IsFiniteSet(Uncounted) /\ IsFiniteSet(Uncounted')
  /\ IsFiniteSet(Slots) /\ IsFiniteSet(Slots')
<1>1. IsFiniteSet(Managed) /\ IsFiniteSet(Managed')
  BY FS_Subset DEF Managed
<1>2. IsFiniteSet(Uncounted) /\ IsFiniteSet(Uncounted')
  BY FS_Subset DEF Uncounted
<1>3. IsFiniteSet(Slots) /\ IsFiniteSet(Slots')
  BY FS_Subset DEF Slots
<1> QED BY <1>1, <1>2, <1>3

LEMMA CardAdd ==
  ASSUME NEW S, NEW T, NEW x, IsFiniteSet(S), T = S \cup {x}, x \notin S
  PROVE  Cardinality(T) = Cardinality(S) + 1 /\ Cardinality(S) \in Nat
  BY FS_AddElement, FS_CardinalityType

LEMMA CardRemove ==
  ASSUME NEW S, NEW T, NEW x, IsFiniteSet(S), T = S \ {x}, x \in S
  PROVE  Cardinality(T) = Cardinality(S) - 1 /\ Cardinality(S) \in Nat \ {0} /\ Cardinality(T) \in Nat
<1>1. IsFiniteSet(T) /\ Cardinality(T) = Cardinality(S) - 1
  BY FS_RemoveElement
<1>2. Cardinality(S) \in Nat /\ Cardinality(T) \in Nat
  BY <1>1, FS_CardinalityType
<1> QED BY <1>1, <1>2

LEMMA CardSub ==
  ASSUME NEW S, NEW T, IsFiniteSet(S), T \subseteq S
  PROVE  Cardinality(T) <= Cardinality(S) /\ Cardinality(T) \in Nat /\ Cardinality(S) \in Nat
  BY FS_Subset, FS_CardinalityType

LEMMA CtlInitInv == CtlInit => CtlInv
<1> SUFFICES ASSUME CtlInit PROVE CtlInv
  OBVIOUS
<1>1. CtlTypeOK
  BY DEF CtlInit, CtlTypeOK, Life, RpcState, ConnState, ActorState, NoConn
<1>2. Managed = {} /\ Uncounted = {} /\ Slots = {}
  BY DEF CtlInit, Managed, Uncounted, Slots, InHandler, NoConn
<1>3. Cardinality(Managed) = 0 /\ Cardinality(Uncounted) = 0 /\ Cardinality(Slots) = 0
  BY <1>2, FS_EmptySet
<1>4. Halting /\ CallsNamed /\ StoreKept /\ ClosedIsCancelled
  BY DEF CtlInit, Halting, CallsNamed, StoreKept, ClosedIsCancelled, NoConn
<1>5. CountCoversManaged /\ GaugeExact /\ SlotsExact
  BY <1>3 DEF CtlInit, CountCoversManaged, GaugeExact, SlotsExact, Uncounted, Slots
<1> QED BY <1>1, <1>4, <1>5 DEF CtlInv, MeetingsInv, ConnectionsEnd

-----------------------------------------------------------------------------
(* Connections. *)

ConnTypes == conn \in [Client -> Connection] /\ activeConnections \in Nat

\* A connection moves without giving its slot back: it stays in the handler, or out of it.
LEMMA MoveStep ==
  ASSUME ConnTypes, ConnectionsEnd, NEW c \in Client, NEW r \in Connection,
         conn' = [conn EXCEPT ![c] = r], activeConnections' = activeConnections,
         r.st = conn[c].st \/ (InHandler(c) /\ r.st \in {"open", "asked", "joined", "answering", "bridged", "leaked"}),
         r.actor = "running" => (conn[c].actor = "running" \/ r.st # "closed")
  PROVE  ConnectionsEnd' /\ ConnTypes'
<1>1. ConnTypes'
  BY DEF ConnTypes
<1>2. conn'[c] = r /\ \A d \in Client \ {c} : conn'[d] = conn[d]
  BY DEF ConnTypes
<1>3. Slots' = Slots
  BY <1>2 DEF Slots, InHandler
<1>4. ClosedIsCancelled'
  BY <1>2 DEF ConnectionsEnd, ClosedIsCancelled, InHandler
<1> QED BY <1>1, <1>3, <1>4 DEF ConnectionsEnd, SlotsExact, Slots

LEMMA ClosingStep ==
  ASSUME ConnTypes, ConnectionsEnd, NEW c \in Client, InHandler(c),
         NEW s \in {"closed", "unanswered"}, NEW a \in ActorState, s = "closed" => a # "running",
         Closing(c, s, a)
  PROVE  ConnectionsEnd' /\ ConnTypes'
<1>1. /\ conn' = [conn EXCEPT ![c].st = s, ![c].actor = a]
      /\ activeConnections' = activeConnections - 1
  BY DEF Closing
<1>2. conn' \in [Client -> Connection]
  <2>1. conn' = [conn EXCEPT ![c] = [conn[c] EXCEPT !.st = s, !.actor = a]]
    BY <1>1 DEF ConnTypes
  <2>2. s \in ConnState
    BY DEF ConnState
  <2>3. [conn[c] EXCEPT !.st = s, !.actor = a] \in Connection
    BY <2>2, NewStateActor DEF ConnTypes
  <2> QED BY <2>1, <2>3 DEF ConnTypes
<1>3. conn'[c].st = s /\ conn'[c].actor = a /\ \A d \in Client \ {c} : conn'[d] = conn[d]
  BY <1>1 DEF ConnTypes, Connection
<1>4. Slots' = Slots \ {c} /\ c \in Slots
  BY <1>3 DEF Slots, InHandler
<1>5. activeConnections = Cardinality(Slots)
  BY DEF ConnectionsEnd, SlotsExact, Slots
<1>6. activeConnections' = Cardinality(Slots') /\ activeConnections' \in Nat
  BY <1>1, <1>4, <1>5, SetsFinite, CardRemove
<1>7. ClosedIsCancelled'
  BY <1>3 DEF ConnectionsEnd, ClosedIsCancelled
<1> QED BY <1>2, <1>6, <1>7 DEF ConnectionsEnd, ConnTypes, SlotsExact, Slots

LEMMA AcceptStep ==
  ASSUME ConnTypes, ConnectionsEnd, NEW c \in Client, Accept(c)
  PROVE  ConnectionsEnd' /\ ConnTypes'
<1> DEFINE r == [conn[c] EXCEPT !.st = "open"]
<1>1. conn' = [conn EXCEPT ![c] = r] /\ activeConnections' = activeConnections + 1 /\ conn[c].st = "none"
  BY DEF Accept
<1>s. "open" \in ConnState
  BY DEF ConnState
<1>2. r \in Connection /\ r.st = "open"
  BY <1>s, NewState DEF ConnTypes
<1> HIDE DEF r
<1>3. conn'[c] = r /\ \A d \in Client \ {c} : conn'[d] = conn[d]
  BY <1>1 DEF ConnTypes
<1>4. Slots' = Slots \cup {c} /\ c \notin Slots
  BY <1>1, <1>2, <1>3 DEF Slots, InHandler
<1>5. Cardinality(Slots') = Cardinality(Slots) + 1
  BY <1>4, SetsFinite, CardAdd
<1>6. ClosedIsCancelled'
  BY <1>2, <1>3 DEF ConnectionsEnd, ClosedIsCancelled
<1>7. ConnTypes'
  BY <1>1, <1>2 DEF ConnTypes
<1> QED BY <1>1, <1>5, <1>6, <1>7 DEF ConnectionsEnd, SlotsExact, Slots

LEMMA DismissedStep ==
  ASSUME ConnTypes, ConnectionsEnd, NEW m \in MeetingId,
         conn' = Dismissed(m), activeConnections' = activeConnections
  PROVE  ConnectionsEnd' /\ ConnTypes'
<1>1. Nil \in MeetingId \cup {Nil} /\ "cancelled" \in ActorState
  BY DEF ActorState
<1>2. \A c \in Client : conn'[c] \in {conn[c], [conn[c] EXCEPT !.meeting = Nil], [conn[c] EXCEPT !.actor = "cancelled"]}
  BY DEF Dismissed
<1>3. \A c \in Client : conn'[c] \in Connection /\ conn'[c].st = conn[c].st
                           /\ (conn'[c].actor = "running" => conn[c].actor = "running")
  <2> TAKE c \in Client
  <2>1. conn[c] \in Connection
    BY DEF ConnTypes
  <2>2. /\ [conn[c] EXCEPT !.meeting = Nil] \in Connection /\ [conn[c] EXCEPT !.meeting = Nil].st = conn[c].st
        /\ [conn[c] EXCEPT !.meeting = Nil].actor = conn[c].actor
    BY <2>1, <1>1, NewMeeting
  <2>3. /\ [conn[c] EXCEPT !.actor = "cancelled"] \in Connection /\ [conn[c] EXCEPT !.actor = "cancelled"].st = conn[c].st
        /\ [conn[c] EXCEPT !.actor = "cancelled"].actor = "cancelled"
    BY <2>1, <1>1, NewActor
  <2> QED BY <1>2, <2>1, <2>2, <2>3
<1>4. conn' \in [Client -> Connection]
  BY <1>3 DEF Dismissed
<1>5. Slots' = Slots
  BY <1>3 DEF Slots, InHandler
<1>6. ClosedIsCancelled'
  BY <1>3 DEF ConnectionsEnd, ClosedIsCancelled
<1> QED BY <1>4, <1>5, <1>6 DEF ConnectionsEnd, ConnTypes, SlotsExact, Slots

\* The steps of a connection's task and of its participant.
LEMMA ConnActions ==
  ASSUME ConnTypes, ConnectionsEnd, [CtlNext]_mcVars
  PROVE  ConnectionsEnd' /\ ConnTypes'
<1> USE DEF ConnTypes
<1>u. ASSUME UNCHANGED connVars PROVE ConnectionsEnd' /\ ConnTypes'
  BY <1>u DEF connVars, ConnectionsEnd, SlotsExact, ClosedIsCancelled, InHandler
<1>s. /\ {"open", "asked", "joined", "answering", "bridged", "leaked"} \subseteq ConnState
      /\ {"running", "none", "ended", "gone", "cancelled"} \subseteq ActorState
  BY DEF ConnState, ActorState
<1>1. ASSUME NEW c \in Client, NEW m \in MeetingId, AskToJoin(c, m) PROVE ConnectionsEnd' /\ ConnTypes'
  <2> DEFINE n == IF meetings[m] = "running" THEN m ELSE Nil
             r == [conn[c] EXCEPT !.st = "asked", !.meeting = n]
  <2>1. conn' = [conn EXCEPT ![c] = r] /\ activeConnections' = activeConnections /\ InHandler(c)
    BY <1>1 DEF AskToJoin, InHandler
  <2>2. r \in Connection /\ r.st = "asked"
    <3>1. n \in MeetingId \cup {Nil} /\ conn[c] \in Connection
      OBVIOUS
    <3> HIDE DEF n
    <3> QED BY <1>s, <3>1, NewStateMeeting
  <2> QED BY <2>1, <2>2, MoveStep
<1>2. ASSUME NEW c \in Client, NEW ok \in BOOLEAN, BuildJoinResponse(c, ok) PROVE ConnectionsEnd' /\ ConnTypes'
  <2>1. InHandler(c)
    BY <1>2 DEF BuildJoinResponse, InHandler
  <2>2. CASE Closing(c, "closed", CancelHandle(c))
    <3>1. CancelHandle(c) \in ActorState /\ CancelHandle(c) # "running"
      BY <1>s DEF CancelHandle, Connection
    <3> QED BY <2>1, <2>2, <3>1, ClosingStep
  <2>3. CASE ~Closing(c, "closed", CancelHandle(c))
    <3> DEFINE r == [conn[c] EXCEPT !.st = "answering"]
    <3>1. conn' = [conn EXCEPT ![c] = r] /\ activeConnections' = activeConnections
      BY <1>2, <2>3 DEF BuildJoinResponse
    <3>2. r \in Connection /\ r.st = "answering"
      BY <1>s, NewState
    <3> QED BY <2>1, <3>1, <3>2, MoveStep
  <2> QED BY <2>2, <2>3
<1>3. ASSUME NEW c \in Client, JoinImpossible(c) \/ JoinRefused(c) PROVE ConnectionsEnd' /\ ConnTypes'
  BY <1>3, <1>s, ClosingStep DEF JoinImpossible, JoinRefused, InHandler
<1>4. ASSUME NEW c \in Client, JoinGranted(c) PROVE ConnectionsEnd' /\ ConnTypes'
  <2>1. \/ conn' = [conn EXCEPT ![c] = [conn[c] EXCEPT !.st = "joined", !.actor = "running", !.first = TRUE]]
        \/ conn' = [conn EXCEPT ![c] = [conn[c] EXCEPT !.st = "joined", !.actor = "running", !.first = FALSE]]
    BY <1>4 DEF JoinGranted
  <2>2. PICK r \in Connection : r.st = "joined" /\ conn' = [conn EXCEPT ![c] = r]
    BY <1>s, <2>1, NewStateActorFirst
  <2>3. activeConnections' = activeConnections /\ InHandler(c)
    BY <1>4 DEF JoinGranted, InHandler
  <2> QED BY <2>2, <2>3, MoveStep
<1>5. ASSUME NEW c \in Client, JoinAnswered(c) \/ ConnectionPanics(c) PROVE ConnectionsEnd' /\ ConnTypes'
  <2>1. PICK s \in {"bridged", "leaked"} :
            conn' = [conn EXCEPT ![c].st = s] /\ activeConnections' = activeConnections /\ InHandler(c)
    BY <1>5 DEF JoinAnswered, ConnectionPanics, InHandler
  <2> DEFINE r == [conn[c] EXCEPT !.st = s]
  <2>2. r \in Connection /\ r.st = s
    BY <1>s, NewState
  <2> QED BY <2>1, <2>2, MoveStep
<1>6. ASSUME NEW c \in Client, AnswerFails(c) PROVE ConnectionsEnd' /\ ConnTypes'
  BY <1>6, ClosingStep DEF AnswerFails, InHandler, Connection
<1>7. ASSUME NEW c \in Client, BridgeEnds(c) PROVE ConnectionsEnd' /\ ConnTypes'
  <2>1. CancelHandle(c) \in ActorState /\ CancelHandle(c) # "running"
    BY <1>s DEF CancelHandle, Connection
  <2> QED BY <1>7, <2>1, ClosingStep DEF BridgeEnds, InHandler
<1>8. ASSUME NEW c \in Client, ActorEnds(c) \/ ParticipantRemoved(c) PROVE ConnectionsEnd' /\ ConnTypes'
  <2>1. PICK a \in {"ended", "gone"} :
            conn' = [conn EXCEPT ![c].actor = a] /\ activeConnections' = activeConnections
    BY <1>8 DEF ActorEnds, ParticipantRemoved
  <2> DEFINE r == [conn[c] EXCEPT !.actor = a]
  <2>2. r \in Connection /\ r.st = conn[c].st /\ r.actor = a
    BY <1>s, NewActor
  <2> QED BY <2>1, <2>2, MoveStep
<1>9. ASSUME NEW m \in MeetingId, MeetingFinishes(m) \/ RemoveMeeting(m) PROVE ConnectionsEnd' /\ ConnTypes'
  BY <1>9, DismissedStep DEF MeetingFinishes, RemoveMeeting
<1> QED BY <1>u, <1>1, <1>2, <1>3, <1>4, <1>5, <1>6, <1>7, <1>8, <1>9, AcceptStep
        DEF CtlNext, mcVars, SpawnGrpc, SpawnGcTask, SpawnAcceptLoop, StartFails, Signal, InitiateShutdown, Exit, GrpcBinds,
            AssignChecked, AssignStored, AssignCleanedUp, CreateMeeting, AssignAccepted, AssignDropped,
            CheckMeetingHealth, GracefulShutdown, RegisterSucceeds, RegisterFails, RegisterCancelled
-----------------------------------------------------------------------------
(* Calls and meetings. *)

CallRecord == [st: RpcState, meeting: MeetingId \cup {Nil}]

\* The types of what calls and meetings change.
MeetTypes ==
    /\ acceptingNew \in BOOLEAN /\ ctl \in {"running", "halted", "stopped"}
    /\ meetings \in [MeetingId -> {"none", "running", "finished"}]
    /\ gauge \in Nat /\ currentMeetings \in Nat
    /\ rpc \in [Rpc -> CallRecord]
    /\ redis \in [MeetingId -> Rpc \cup {Nil}]

LEMMA NewCall ==
  ASSUME NEW q \in CallRecord, NEW s \in RpcState
  PROVE  /\ [q EXCEPT !.st = s] \in CallRecord /\ [q EXCEPT !.st = s].st = s
         /\ [q EXCEPT !.st = s].meeting = q.meeting
  BY DEF CallRecord

\* A call moves on: what the others and it itself look like afterwards.
LEMMA CallMoves ==
  ASSUME MeetTypes, NEW r \in Rpc, NEW s \in RpcState, rpc' = [rpc EXCEPT ![r].st = s]
  PROVE  /\ rpc' \in [Rpc -> CallRecord]
         /\ rpc'[r].st = s /\ rpc'[r].meeting = rpc[r].meeting
         /\ \A q \in Rpc \ {r} : rpc'[q] = rpc[q]
<1>1. rpc' = [rpc EXCEPT ![r] = [rpc[r] EXCEPT !.st = s]] /\ rpc[r] \in CallRecord
  BY DEF MeetTypes
<1>2. PICK q \in CallRecord : rpc' = [rpc EXCEPT ![r] = q] /\ q.st = s /\ q.meeting = rpc[r].meeting
  BY <1>1, NewCall
<1> QED BY <1>2 DEF MeetTypes

\* A call that is neither new in Uncounted nor leaves it, and the map unchanged.
LEMMA CountsKept ==
  ASSUME MeetTypes, MeetingsInv, UNCHANGED <<ctl, meetings, gauge, currentMeetings>>,
         Uncounted \subseteq Uncounted'
  PROVE  CountCoversManaged' /\ GaugeExact'
<1>1. Managed' = Managed
  BY DEF Managed
<1>2. Cardinality(Uncounted) <= Cardinality(Uncounted') /\ Cardinality(Uncounted) \in Nat /\ Cardinality(Uncounted') \in Nat
  BY SetsFinite, CardSub
<1>3. Cardinality(Managed) \in Nat
  BY SetsFinite, FS_CardinalityType
<1> QED BY <1>1, <1>2, <1>3 DEF MeetTypes, MeetingsInv, CountCoversManaged, GaugeExact, Uncounted

LEMMA MeetingLeaves ==
  ASSUME MeetTypes, MeetingsInv, NEW m \in MeetingId, meetings[m] # "none",
         meetings' = [meetings EXCEPT ![m] = "none"], gauge' = gauge - 1,
         UNCHANGED <<life, acceptingNew, ctl, rpc, currentMeetings, redis>>
  PROVE  MeetingsInv' /\ MeetTypes'
<1>1. Managed' = Managed \ {m} /\ m \in Managed /\ Uncounted' = Uncounted
  BY DEF Managed, Uncounted, MeetTypes
<1>2. /\ Cardinality(Managed') = Cardinality(Managed) - 1
      /\ Cardinality(Managed) \in Nat \ {0} /\ Cardinality(Managed') \in Nat
      /\ Cardinality(Uncounted) \in Nat
  BY <1>1, SetsFinite, CardRemove, FS_CardinalityType
<1>3. ctl # "stopped"
  BY DEF MeetingsInv, Halting
<1>4. GaugeExact' /\ gauge' \in Nat
  BY <1>2, <1>3 DEF MeetingsInv, GaugeExact
<1>5. CountCoversManaged'
  BY <1>1, <1>2, <1>3 DEF MeetingsInv, CountCoversManaged, Uncounted, MeetTypes
<1>6. Halting' /\ CallsNamed' /\ StoreKept'
  BY DEF MeetingsInv, Halting, CallsNamed, StoreKept, MeetTypes
<1>7. MeetTypes'
  BY <1>4 DEF MeetTypes
<1> QED BY <1>4, <1>5, <1>6, <1>7 DEF MeetingsInv

LEMMA CreateStep ==
  ASSUME MeetTypes, MeetingsInv, NEW r \in Rpc, CreateMeeting(r)
  PROVE  MeetingsInv' /\ MeetTypes'
<1> DEFINE m == rpc[r].meeting
           s == IF Creatable(m) THEN "created" ELSE "failed"
<1>1. m \in MeetingId /\ s \in RpcState
  BY DEF MeetingsInv, CallsNamed, CreateMeeting, RpcState
<1>2. rpc' = [rpc EXCEPT ![r].st = s]
  BY DEF CreateMeeting
<1>3. /\ rpc' \in [Rpc -> CallRecord] /\ rpc'[r].st = s /\ rpc'[r].meeting = m
      /\ \A q \in Rpc \ {r} : rpc'[q] = rpc[q]
  BY <1>1, <1>2, CallMoves
<1>4. CASE Creatable(m)
  <2>1. meetings' = [meetings EXCEPT ![m] = "running"] /\ gauge' = gauge + 1 /\ meetings[m] = "none" /\ acceptingNew
    BY <1>4 DEF CreateMeeting, Creatable
  <2>2. ctl = "running" /\ ctl' = "running"
    BY <2>1 DEF MeetingsInv, Halting, CreateMeeting, MeetTypes
  <2>3. Managed' = Managed \cup {m} /\ m \notin Managed
    BY <1>1, <2>1 DEF Managed, MeetTypes
  <2>4. Uncounted' = Uncounted \cup {r} /\ r \notin Uncounted
    BY <1>3, <1>4 DEF Uncounted, CreateMeeting
  <2>5. /\ Cardinality(Managed') = Cardinality(Managed) + 1 /\ Cardinality(Managed) \in Nat
        /\ Cardinality(Uncounted') = Cardinality(Uncounted) + 1 /\ Cardinality(Uncounted) \in Nat
    BY <2>3, <2>4, SetsFinite, CardAdd
  <2>6. CountCoversManaged' /\ GaugeExact' /\ gauge' \in Nat
    BY <2>1, <2>2, <2>5 DEF MeetingsInv, CountCoversManaged, GaugeExact, Uncounted, CreateMeeting, MeetTypes
  <2>7. Halting' /\ CallsNamed'
    BY <1>1, <1>3, <2>2 DEF Halting, CallsNamed, MeetingsInv
  <2>8. StoreKept'
    <3> SUFFICES ASSUME NEW n \in MeetingId, redis'[n] = Nil,
                        \/ meetings'[n] = "running"
                        \/ \E q \in Rpc : rpc'[q] = [st |-> "stored", meeting |-> n]
                 PROVE  \E q \in Rpc : rpc'[q].meeting = n /\ rpc'[q].st = "undone"
      BY DEF StoreKept
    <3>1. redis[n] = Nil
      BY DEF CreateMeeting
    <3>2. \/ meetings[n] = "running"
          \/ \E q \in Rpc : rpc[q] = [st |-> "stored", meeting |-> n]
      <4>1. CASE meetings'[n] = "running" /\ n # m
        BY <4>1, <2>1, <1>1 DEF MeetTypes
      <4>2. CASE n = m
        BY <4>2 DEF CreateMeeting, MeetTypes, CallRecord
      <4>3. CASE \E q \in Rpc : rpc'[q] = [st |-> "stored", meeting |-> n]
        BY <4>3, <1>3, <1>4
      <4> QED BY <4>1, <4>2, <4>3
    <3>3. PICK q \in Rpc : rpc[q].meeting = n /\ rpc[q].st = "undone"
      BY <3>1, <3>2 DEF MeetingsInv, StoreKept
    <3> QED BY <3>3, <1>3 DEF CreateMeeting
  <2> QED BY <1>1, <1>3, <2>1, <2>6, <2>7, <2>8 DEF MeetingsInv, MeetTypes, CreateMeeting
<1>5. CASE ~Creatable(m)
  <2>1. UNCHANGED <<life, acceptingNew, ctl, meetings, gauge, currentMeetings, redis>>
    BY <1>5 DEF CreateMeeting, procVars
  <2>2. Uncounted \subseteq Uncounted'
    BY <1>3 DEF Uncounted, CreateMeeting
  <2>3. Halting' /\ CallsNamed'
    BY <1>1, <1>3, <2>1 DEF Halting, CallsNamed, MeetingsInv
  <2>4. StoreKept'
    BY <1>3, <1>5, <2>1 DEF StoreKept, MeetingsInv, CreateMeeting
  <2> QED BY <1>3, <2>1, <2>2, <2>3, <2>4, CountsKept DEF MeetingsInv, MeetTypes
<1> QED BY <1>4, <1>5

LEMMA CountStep ==
  ASSUME MeetTypes, MeetingsInv, NEW r \in Rpc, AssignAccepted(r)
  PROVE  MeetingsInv' /\ MeetTypes'
<1>1. /\ rpc' = [rpc EXCEPT ![r].st = "accepted"] /\ currentMeetings' = currentMeetings + 1
      /\ UNCHANGED <<life, acceptingNew, ctl, meetings, gauge, redis>> /\ rpc[r].st = "created"
  BY DEF AssignAccepted, procVars, ctlVars
<1>2. "accepted" \in RpcState
  BY DEF RpcState
<1>3. /\ rpc' \in [Rpc -> CallRecord] /\ rpc'[r].st = "accepted" /\ rpc'[r].meeting = rpc[r].meeting
      /\ \A q \in Rpc \ {r} : rpc'[q] = rpc[q]
  BY <1>1, <1>2, CallMoves
<1>4. Uncounted' = Uncounted \ {r} /\ r \in Uncounted /\ Managed' = Managed
  BY <1>1, <1>3 DEF Uncounted, Managed
<1>5. /\ Cardinality(Uncounted') = Cardinality(Uncounted) - 1
      /\ Cardinality(Uncounted) \in Nat /\ Cardinality(Managed) \in Nat
  BY <1>4, SetsFinite, CardRemove, FS_CardinalityType
<1>6. CountCoversManaged' /\ GaugeExact'
  BY <1>1, <1>4, <1>5 DEF MeetingsInv, CountCoversManaged, GaugeExact, Uncounted, MeetTypes
<1>7. Halting' /\ CallsNamed' /\ StoreKept'
  BY <1>1, <1>3 DEF MeetingsInv, Halting, CallsNamed, StoreKept
<1> QED BY <1>1, <1>3, <1>6, <1>7 DEF MeetingsInv, MeetTypes

\* The steps of a call that change neither the map nor the count.
LEMMA CallStep ==
  ASSUME MeetTypes, MeetingsInv, NEW r \in Rpc,
         \/ \E m \in MeetingId : AssignChecked(r, m)
         \/ \E ok \in BOOLEAN : AssignStored(r, ok)
         \/ AssignCleanedUp(r)
         \/ AssignDropped(r)
  PROVE  MeetingsInv' /\ MeetTypes'
<1>1. UNCHANGED <<life, acceptingNew, ctl, meetings, gauge, currentMeetings>>
  BY DEF AssignChecked, AssignStored, AssignCleanedUp, AssignDropped, procVars, ctlVars
<1>2. ASSUME rpc' \in [Rpc -> CallRecord], redis' \in [MeetingId -> Rpc \cup {Nil}], CallsNamed', StoreKept',
             Uncounted \subseteq Uncounted'
      PROVE  MeetingsInv' /\ MeetTypes'
  <2>1. Halting'
    BY <1>1 DEF Halting, MeetingsInv
  <2> QED BY <1>1, <1>2, <2>1, CountsKept DEF MeetingsInv, MeetTypes
<1>3. ASSUME NEW m \in MeetingId, AssignChecked(r, m) PROVE MeetingsInv' /\ MeetTypes'
  <2>1. PICK s \in {"checked", "refused"} : rpc' = [rpc EXCEPT ![r] = [st |-> s, meeting |-> m]]
    BY <1>3 DEF AssignChecked
  <2>2. [st |-> s, meeting |-> m] \in CallRecord
    BY DEF CallRecord, RpcState
  <2>3. PICK q \in CallRecord : q.st = s /\ q.meeting = m /\ rpc' = [rpc EXCEPT ![r] = q]
    BY <2>1, <2>2
  <2>4. rpc'[r] = q /\ (\A p \in Rpc \ {r} : rpc'[p] = rpc[p]) /\ rpc' \in [Rpc -> CallRecord]
    BY <2>3 DEF MeetTypes
  <2>5. rpc[r].st = "idle" /\ redis' = redis
    BY <1>3 DEF AssignChecked
  <2>6. CallsNamed' /\ Uncounted \subseteq Uncounted'
    BY <2>3, <2>4, <2>5 DEF MeetingsInv, CallsNamed, Uncounted
  <2>7. StoreKept'
    BY <1>1, <2>3, <2>4, <2>5 DEF MeetingsInv, StoreKept
  <2> QED BY <1>2, <2>4, <2>5, <2>6, <2>7 DEF MeetTypes
<1>4. ASSUME NEW ok \in BOOLEAN, AssignStored(r, ok) PROVE MeetingsInv' /\ MeetTypes'
  <2>1. PICK s \in {"stored", "refused"} :
            /\ rpc' = [rpc EXCEPT ![r].st = s]
            /\ \/ s = "stored" /\ redis' = [redis EXCEPT ![rpc[r].meeting] = r]
               \/ s = "refused" /\ redis' \in {redis, [redis EXCEPT ![rpc[r].meeting] = r]}
    BY <1>4 DEF AssignStored, MayWrite
  <2>2. s \in RpcState
    BY DEF RpcState
  <2>3. /\ rpc' \in [Rpc -> CallRecord] /\ rpc'[r].st = s /\ rpc'[r].meeting = rpc[r].meeting
        /\ \A q \in Rpc \ {r} : rpc'[q] = rpc[q]
    BY <2>1, <2>2, CallMoves
  <2>4. rpc[r].st = "checked" /\ rpc[r].meeting \in MeetingId
    BY <1>4 DEF AssignStored, MeetingsInv, CallsNamed
  <2>5. CallsNamed' /\ Uncounted \subseteq Uncounted'
    BY <2>3, <2>4 DEF MeetingsInv, CallsNamed, Uncounted
  <2>6. redis' \in [MeetingId -> Rpc \cup {Nil}]
    BY <2>1 DEF MeetTypes
  <2>7. StoreKept'
    <3>1. CASE redis' = [redis EXCEPT ![rpc[r].meeting] = r]
      <4>1. redis'[rpc[r].meeting] # Nil /\ \A n \in MeetingId : n # rpc[r].meeting => redis'[n] = redis[n]
        BY <2>4, <3>1 DEF MeetTypes
      <4> QED BY <1>1, <2>3, <2>4, <4>1 DEF MeetingsInv, StoreKept
    <3>2. CASE redis' = redis /\ s = "refused"
      BY <1>1, <2>3, <2>4, <3>2 DEF MeetingsInv, StoreKept
    <3> QED BY <2>1, <3>1, <3>2
  <2> QED BY <1>2, <2>3, <2>5, <2>6, <2>7
<1>5. ASSUME rpc[r].st = "failed", AssignCleanedUp(r) \/ AssignDropped(r) PROVE MeetingsInv' /\ MeetTypes'
  <2>1. /\ rpc' = [rpc EXCEPT ![r].st = "undone"]
        /\ redis' \in {redis, [redis EXCEPT ![rpc[r].meeting] = Nil]}
    BY <1>5 DEF AssignCleanedUp, AssignDropped, MayWrite
  <2>2. "undone" \in RpcState
    BY DEF RpcState
  <2>3. /\ rpc' \in [Rpc -> CallRecord] /\ rpc'[r].st = "undone" /\ rpc'[r].meeting = rpc[r].meeting
        /\ \A q \in Rpc \ {r} : rpc'[q] = rpc[q]
    BY <2>1, <2>2, CallMoves
  <2>4. rpc[r].st = "failed" /\ rpc[r].meeting \in MeetingId
    BY <1>5 DEF MeetingsInv, CallsNamed
  <2>5. CallsNamed' /\ Uncounted \subseteq Uncounted'
    BY <2>3, <2>4 DEF MeetingsInv, CallsNamed, Uncounted
  <2>6. redis' \in [MeetingId -> Rpc \cup {Nil}] /\ \A n \in MeetingId : n # rpc[r].meeting => redis'[n] = redis[n]
    BY <2>1, <2>4 DEF MeetTypes
  <2>7. StoreKept'
    <3> SUFFICES ASSUME NEW n \in MeetingId, redis'[n] = Nil,
                        \/ meetings'[n] = "running"
                        \/ \E q \in Rpc : rpc'[q] = [st |-> "stored", meeting |-> n]
                 PROVE  \E q \in Rpc : rpc'[q].meeting = n /\ rpc'[q].st = "undone"
      BY DEF StoreKept
    <3>1. CASE n = rpc[r].meeting
      BY <3>1, <2>3
    <3>2. CASE n # rpc[r].meeting
      <4>1. PICK q \in Rpc : rpc[q].meeting = n /\ rpc[q].st = "undone"
        BY <1>1, <2>3, <2>6, <3>2 DEF MeetingsInv, StoreKept
      <4> QED BY <4>1, <2>3, <2>4
    <3> QED BY <3>1, <3>2
  <2> QED BY <1>2, <2>3, <2>5, <2>6, <2>7
<1>6. ASSUME rpc[r].st # "failed", AssignDropped(r) PROVE MeetingsInv' /\ MeetTypes'
  <2>1. /\ rpc' = [rpc EXCEPT ![r].st = "dropped"] /\ rpc[r].st \notin {"idle", "undone"}
        /\ \/ redis' = redis
           \/ redis' = [redis EXCEPT ![rpc[r].meeting] = r] /\ rpc[r].meeting \in MeetingId
    BY <1>6 DEF AssignDropped, MayWrite, MeetingsInv, CallsNamed
  <2>2. "dropped" \in RpcState
    BY DEF RpcState
  <2>3. /\ rpc' \in [Rpc -> CallRecord] /\ rpc'[r].st = "dropped" /\ rpc'[r].meeting = rpc[r].meeting
        /\ \A q \in Rpc \ {r} : rpc'[q] = rpc[q]
    BY <2>1, <2>2, CallMoves
  <2>4. CallsNamed' /\ Uncounted \subseteq Uncounted'
    BY <2>1, <2>3 DEF MeetingsInv, CallsNamed, Uncounted
  <2>5. StoreKept' /\ redis' \in [MeetingId -> Rpc \cup {Nil}]
    <3>1. CASE redis' = redis
      BY <1>1, <2>1, <2>3, <3>1 DEF MeetingsInv, StoreKept, MeetTypes
    <3>2. CASE redis' = [redis EXCEPT ![rpc[r].meeting] = r] /\ rpc[r].meeting \in MeetingId
      <4>1. /\ redis' \in [MeetingId -> Rpc \cup {Nil}] /\ redis'[rpc[r].meeting] # Nil
            /\ \A n \in MeetingId : n # rpc[r].meeting => redis'[n] = redis[n]
        BY <3>2 DEF MeetTypes
      <4> QED BY <1>1, <2>1, <2>3, <4>1 DEF MeetingsInv, StoreKept
    <3> QED BY <2>1, <3>1, <3>2
  <2> QED BY <1>2, <2>3, <2>4, <2>5
<1>7. AssignCleanedUp(r) => rpc[r].st = "failed"
  BY DEF AssignCleanedUp
<1> QED BY <1>3, <1>4, <1>5, <1>6, <1>7
\* What shutdown does to the map and the flags.
LEMMA ShutdownStep ==
  ASSUME MeetTypes, MeetingsInv, InitiateShutdown \/ GracefulShutdown \/ Exit
  PROVE  MeetingsInv' /\ MeetTypes'
<1>1. ASSUME InitiateShutdown PROVE MeetingsInv' /\ MeetTypes'
  <2>1. ctl # "stopped"
    BY <1>1 DEF InitiateShutdown, MeetingsInv, Halting
  <2>2. UNCHANGED <<meetings, gauge, rpc, currentMeetings, redis>>
    BY <1>1 DEF InitiateShutdown, rpcVars
  <2>3. Managed' = Managed /\ Uncounted' = Uncounted
    BY <2>2 DEF Managed, Uncounted
  <2>4. CountCoversManaged' /\ GaugeExact'
    BY <2>1, <2>2, <2>3 DEF MeetingsInv, CountCoversManaged, GaugeExact, Uncounted
  <2>5. Halting' /\ CallsNamed' /\ StoreKept'
    BY <1>1, <2>2 DEF InitiateShutdown, MeetingsInv, Halting, CallsNamed, StoreKept
  <2>6. MeetTypes'
    BY <1>1, <2>2 DEF InitiateShutdown, MeetTypes
  <2> QED BY <2>4, <2>5, <2>6 DEF MeetingsInv
<1>2. ASSUME GracefulShutdown PROVE MeetingsInv' /\ MeetTypes'
  <2>1. /\ ctl' = "stopped" /\ meetings' = [m \in MeetingId |-> "none"] /\ ctl = "halted"
        /\ UNCHANGED <<life, acceptingNew, gauge, rpc, currentMeetings, redis>>
    BY <1>2 DEF GracefulShutdown, procVars, rpcVars
  <2>2. Halting' /\ CallsNamed' /\ StoreKept' /\ CountCoversManaged' /\ GaugeExact'
    BY <2>1 DEF MeetingsInv, Halting, CallsNamed, StoreKept, CountCoversManaged, GaugeExact
  <2>3. MeetTypes'
    BY <2>1 DEF MeetTypes
  <2> QED BY <2>2, <2>3 DEF MeetingsInv
<1>3. ASSUME Exit PROVE MeetingsInv' /\ MeetTypes'
  BY <1>3 DEF Exit, ctlVars, rpcVars, MeetTypes, MeetingsInv, Halting, CallsNamed, StoreKept,
      CountCoversManaged, GaugeExact, Managed
<1> QED BY <1>1, <1>2, <1>3

LEMMA MeetingActions ==
  ASSUME MeetTypes, MeetingsInv, [CtlNext]_mcVars
  PROVE  MeetingsInv' /\ MeetTypes'
<1>u. ASSUME UNCHANGED <<ctlVars, rpcVars>>, ctl # "running" => life' = life PROVE MeetingsInv' /\ MeetTypes'
  BY <1>u DEF ctlVars, rpcVars, MeetTypes, MeetingsInv, Halting, CallsNamed, StoreKept,
      CountCoversManaged, GaugeExact, Managed
<1>1. ASSUME SpawnGrpc \/ SpawnGcTask \/ SpawnAcceptLoop \/ StartFails \/ Signal PROVE MeetingsInv' /\ MeetTypes'
  <2>1. ctl = "running"
    BY <1>1 DEF SpawnGrpc, SpawnGcTask, SpawnAcceptLoop, StartFails, Signal, MeetingsInv, Halting
  <2> QED BY <1>1, <1>u, <2>1 DEF SpawnGrpc, SpawnGcTask, SpawnAcceptLoop, StartFails, Signal
<1>2. ASSUME NEW m \in MeetingId, MeetingFinishes(m) PROVE MeetingsInv' /\ MeetTypes'
  <2>1. /\ meetings' = [meetings EXCEPT ![m] = "finished"] /\ meetings[m] = "running"
        /\ UNCHANGED <<life, acceptingNew, ctl, gauge, rpc, currentMeetings, redis>>
    BY <1>2 DEF MeetingFinishes, procVars, rpcVars
  <2>2. Managed' = Managed /\ Uncounted' = Uncounted
    BY <2>1 DEF Managed, Uncounted, MeetTypes
  <2>3. CountCoversManaged' /\ GaugeExact'
    BY <2>1, <2>2 DEF MeetingsInv, CountCoversManaged, GaugeExact, Uncounted
  <2>4. Halting' /\ CallsNamed' /\ StoreKept'
    BY <2>1 DEF MeetingsInv, Halting, CallsNamed, StoreKept, MeetTypes
  <2> QED BY <2>1, <2>3, <2>4 DEF MeetingsInv, MeetTypes
<1>3. ASSUME NEW m \in MeetingId, CheckMeetingHealth(m) \/ RemoveMeeting(m) PROVE MeetingsInv' /\ MeetTypes'
  BY <1>3, MeetingLeaves DEF CheckMeetingHealth, RemoveMeeting, HealthGauge, procVars, rpcVars
<1>4. ASSUME NEW c \in Client,
             \/ \E m \in MeetingId : AskToJoin(c, m)
             \/ \E ok \in BOOLEAN : BuildJoinResponse(c, ok)
             \/ Accept(c) \/ JoinImpossible(c) \/ JoinRefused(c) \/ JoinGranted(c)
             \/ JoinAnswered(c) \/ AnswerFails(c) \/ BridgeEnds(c) \/ ConnectionPanics(c)
             \/ ActorEnds(c) \/ ParticipantRemoved(c)
             \/ RegisterSucceeds(c) \/ RegisterFails(c) \/ RegisterCancelled(c)
      PROVE  MeetingsInv' /\ MeetTypes'
  BY <1>4, <1>u DEF procVars, AskToJoin, BuildJoinResponse, Accept, JoinImpossible, JoinRefused, JoinGranted,
      JoinAnswered, AnswerFails, BridgeEnds, ConnectionPanics, ActorEnds, ParticipantRemoved,
      RegisterSucceeds, RegisterFails, RegisterCancelled
<1>5. ASSUME NEW ok \in BOOLEAN, GrpcBinds(ok) PROVE MeetingsInv' /\ MeetTypes'
  BY <1>5, <1>u DEF GrpcBinds
<1>6. ASSUME UNCHANGED mcVars PROVE MeetingsInv' /\ MeetTypes'
  BY <1>6, <1>u DEF mcVars, procVars
<1> QED BY <1>1, <1>2, <1>3, <1>4, <1>5, <1>6, CallStep, CreateStep, CountStep, ShutdownStep DEF CtlNext

\* The types of what is left: main's progress, the server task, the RegisterMeeting tasks.
TaskTypes ==
    /\ life \in Life /\ grpc \in {"off", "binding", "up", "failed"}
    /\ todo \in [Client -> Seq(STRING)] /\ tries \in [Client -> 0..Attempts]

LEMMA TaskActions ==
  ASSUME TaskTypes, [CtlNext]_mcVars
  PROVE  TaskTypes'
<1>u. ASSUME UNCHANGED regVars, life' \in Life, grpc' \in {grpc, "binding", "up", "failed"} PROVE TaskTypes'
  BY <1>u DEF TaskTypes, regVars
<1>l. life \in Life
  BY DEF TaskTypes
<1>n. ASSUME NEW c \in Client, NextHandler(c), todo[c] # <<>>, UNCHANGED procVars PROVE TaskTypes'
  <2>1. Tail(todo[c]) \in Seq(STRING)
    BY <1>n DEF TaskTypes
  <2>2. 0 \in 0..Attempts
    OBVIOUS
  <2> QED BY <1>n, <2>1, <2>2 DEF NextHandler, TaskTypes, procVars
<1>1. ASSUME SpawnGrpc \/ SpawnGcTask \/ SpawnAcceptLoop \/ StartFails \/ Signal \/ InitiateShutdown \/ Exit
      PROVE  TaskTypes'
  BY <1>1, <1>u DEF SpawnGrpc, SpawnGcTask, SpawnAcceptLoop, StartFails, Signal, InitiateShutdown, Exit, Life
<1>2. ASSUME NEW ok \in BOOLEAN, GrpcBinds(ok) PROVE TaskTypes'
  BY <1>2, <1>l, <1>u DEF GrpcBinds
<1>3. ASSUME NEW r \in Rpc, \/ \E m \in MeetingId : AssignChecked(r, m)
                            \/ \E ok \in BOOLEAN : AssignStored(r, ok)
                            \/ CreateMeeting(r) \/ AssignAccepted(r) \/ AssignCleanedUp(r) \/ AssignDropped(r)
      PROVE  TaskTypes'
  BY <1>3, <1>l, <1>u DEF AssignChecked, AssignStored, AssignCleanedUp, CreateMeeting, AssignAccepted, AssignDropped, procVars
<1>4. ASSUME NEW m \in MeetingId, MeetingFinishes(m) \/ CheckMeetingHealth(m) \/ RemoveMeeting(m) PROVE TaskTypes'
  BY <1>4, <1>l, <1>u DEF MeetingFinishes, CheckMeetingHealth, RemoveMeeting, procVars
<1>5. ASSUME GracefulShutdown \/ UNCHANGED mcVars PROVE TaskTypes'
  BY <1>5, <1>l, <1>u DEF GracefulShutdown, mcVars, procVars
<1>6. ASSUME NEW c \in Client,
             \/ \E m \in MeetingId : AskToJoin(c, m)
             \/ \E ok \in BOOLEAN : BuildJoinResponse(c, ok)
             \/ Accept(c) \/ JoinImpossible(c) \/ JoinRefused(c) \/ JoinGranted(c)
             \/ AnswerFails(c) \/ BridgeEnds(c) \/ ConnectionPanics(c)
             \/ ActorEnds(c) \/ ParticipantRemoved(c)
      PROVE  TaskTypes'
  BY <1>6, <1>l, <1>u DEF procVars, AskToJoin, BuildJoinResponse, Accept, JoinImpossible, JoinRefused, JoinGranted,
      AnswerFails, BridgeEnds, ConnectionPanics, ActorEnds, ParticipantRemoved
<1>7. ASSUME NEW c \in Client, JoinAnswered(c) PROVE TaskTypes'
  BY <1>7 DEF JoinAnswered, TaskTypes, procVars
<1>8. ASSUME NEW c \in Client, RegisterSucceeds(c) PROVE TaskTypes'
  BY <1>8, <1>n DEF RegisterSucceeds
<1>9. ASSUME NEW c \in Client, RegisterFails(c) PROVE TaskTypes'
  <2>1. CASE NextHandler(c)
    BY <1>9, <1>n, <2>1 DEF RegisterFails
  <2>2. CASE ~NextHandler(c)
    <3>1. /\ tries' = [tries EXCEPT ![c] = @ + 1] /\ tries[c] + 1 < Attempts
          /\ UNCHANGED <<todo, life, grpc>>
      BY <1>9, <2>2 DEF RegisterFails, procVars
    <3>2. tries[c] + 1 \in 0..Attempts
      BY <3>1 DEF TaskTypes
    <3> QED BY <3>1, <3>2 DEF TaskTypes
  <2> QED BY <2>1, <2>2
<1>10. ASSUME NEW c \in Client, RegisterCancelled(c) PROVE TaskTypes'
  BY <1>10 DEF RegisterCancelled, TaskTypes, procVars
<1> QED BY <1>1, <1>2, <1>3, <1>4, <1>5, <1>6, <1>7, <1>8, <1>9, <1>10 DEF CtlNext

LEMMA CtlTypesSplit == CtlTypeOK <=> ConnTypes /\ MeetTypes /\ TaskTypes
  BY DEF CtlTypeOK, ConnTypes, Connection, MeetTypes, CallRecord, TaskTypes

\* Every step of the process keeps the invariant.
LEMMA CtlStepInv == CtlInv /\ [CtlNext]_mcVars => CtlInv'
<1> SUFFICES ASSUME CtlInv, [CtlNext]_mcVars PROVE CtlInv'
  OBVIOUS
<1>1. ConnTypes /\ MeetTypes /\ TaskTypes /\ MeetingsInv /\ ConnectionsEnd
  BY CtlTypesSplit DEF CtlInv
<1>2. ConnTypes' /\ ConnectionsEnd'
  BY <1>1, ConnActions
<1>3. MeetTypes' /\ MeetingsInv'
  BY <1>1, MeetingActions
<1>4. TaskTypes'
  BY <1>1, TaskActions
<1>5. CtlTypeOK'
  BY <1>2, <1>3, <1>4 DEF CtlTypeOK, ConnTypes, Connection, MeetTypes, CallRecord, TaskTypes
<1> QED BY <1>2, <1>3, <1>5 DEF CtlInv

LEMMA CtlInvariant == CtlSpec => []CtlInv
  BY CtlInitInv, CtlStepInv, PTL DEF CtlSpec

\* The count of meetings that the capacity check of AssignMeetingWithMh reads never
\* misses a managed meeting, except those whose call has not resumed or was dropped,
\* and the gauge follows the map: for any number of calls, meetings and connections.
THEOREM MeetingsCountedCorrect == CtlSpec => []MeetingsCounted
<1>1. CtlInv => MeetingsCounted
  BY DEF CtlInv, MeetingsInv, MeetingsCounted
<1> QED BY <1>1, CtlInvariant, PTL

\* A running meeting has its MH assignment in Redis unless a refused call for the
\* same meeting deleted it in its clean-up.
THEOREM AssignmentKeptCorrect == CtlSpec => []AssignmentKept
<1>1. CtlInv => AssignmentKept
  BY DEF CtlInv, MeetingsInv, StoreKept, AssignmentKept
<1> QED BY <1>1, CtlInvariant, PTL

\* Every way out of handle_connection gives the slot back once and cancels the
\* participant; only a panic keeps the slot and only a failed JoinResponse or a
\* panic leaves the participant running.
THEOREM ConnectionsEndCorrect == CtlSpec => []ConnectionsEnd
<1>1. CtlInv => ConnectionsEnd
  BY DEF CtlInv
<1> QED BY <1>1, CtlInvariant, PTL
=============================================================================
