----------------------------- MODULE FencedRedis -----------------------------
(***************************************************************************)
(* The Redis keys of one meeting and the calls of FencedRedisClient        *)
(* (mc-service/src/redis) that meeting controllers have under way on them. *)
(*                                                                         *)
(* A Lua script is one step.  A client call that makes two round trips is  *)
(* two steps, and anything may happen between them: other calls of the     *)
(* same or of other controllers, and a crash or a lost connection, after   *)
(* which the call is abandoned.                                            *)
(*                                                                         *)
(* A value is abstracted to the call that wrote it and the fencing token   *)
(* it was written with.  local_generation is written and never read, so it *)
(* is left out; the -1 replies need a generation key that is not a number, *)
(* which no script writes.                                                 *)
(***************************************************************************)
EXTENDS Naturals

CONSTANTS
    Call,        \* client calls, of any controllers
    Field,       \* fields of the meeting:{id}:state hash
    None,        \* a missing key
    MaxGen       \* bound: no generation past this one is handed out

Value == [by: Call, tok: Nat]

ASSUME FencingAssumption ==
    /\ MaxGen \in Nat
    /\ None \notin Nat /\ None \notin Value

VARIABLES
    gen,     \* meeting:{id}:generation
    mh,      \* meeting:{id}:mh
    state,   \* meeting:{id}:state, by field
    call,    \* what each call is in the middle of, with its fencing token
    cleaned  \* history: delete_meeting was called

vars == <<gen, mh, state, call, cleaned>>

Phase == {"idle", "store", "delete", "holding"}

TypeOK ==
    /\ gen   \in Nat \cup {None}
    /\ mh    \in Value \cup {None}
    /\ state \in [Field -> Value \cup {None}]
    /\ call  \in [Call -> [pc: Phase, tok: Nat]]
    /\ cleaned \in BOOLEAN

Idle == [pc |-> "idle", tok |-> 0]

Init ==
    /\ gen = None
    /\ mh = None
    /\ state = [f \in Field |-> None]
    /\ call = [c \in Call |-> Idle]
    /\ cleaned = FALSE

-----------------------------------------------------------------------------
\* A missing generation reads as 0.
Current == IF gen = None THEN 0 ELSE gen

\* Mutant: the scripts accept every token.
AlwaysPasses(t) == TRUE
\* Mutant: a token one behind is accepted.
OneBehindPasses(t) == gen # None => t + 1 >= gen
\* The comparison of all three fenced scripts.
Passes(t) == gen # None => t >= gen

\* get_generation: the caller goes on to use what it read.
GetGeneration(c) ==
    /\ call[c].pc = "idle"
    /\ call' = [call EXCEPT ![c] = [pc |-> "holding", tok |-> Current]]
    /\ UNCHANGED <<gen, mh, state, cleaned>>

\* Mutant: the generation is read and the write is left to raise it.
TakeTokenByReading(c, pc) ==
    /\ Current < MaxGen
    /\ call[c].pc = "idle"
    /\ call' = [call EXCEPT ![c] = [pc |-> pc, tok |-> Current + 1]]
    /\ UNCHANGED <<gen, mh, state, cleaned>>
\* INCREMENT_GENERATION: the next generation is claimed in one script.
TakeToken(c, pc) ==
    /\ Current < MaxGen
    /\ call[c].pc = "idle"
    /\ gen' = Current + 1
    /\ call' = [call EXCEPT ![c] = [pc |-> pc, tok |-> Current + 1]]
    /\ UNCHANGED <<mh, state, cleaned>>

\* increment_generation called for itself, by a controller taking over.
IncrementGeneration(c) == TakeToken(c, "holding")

\* store_mh_assignment, first round trip.
BeginStore(c) == TakeToken(c, "store")

\* store_mh_assignment, FENCED_WRITE: Ok, or FencedOut.
FinishStore(c) ==
    /\ call[c].pc = "store"
    /\ LET t == call[c].tok IN
        IF Passes(t) THEN gen' = t /\ mh' = [by |-> c, tok |-> t]
                     ELSE UNCHANGED <<gen, mh>>
    /\ call' = [call EXCEPT ![c] = Idle]
    /\ UNCHANGED <<state, cleaned>>

\* delete_mh_assignment, first round trip: the next generation is computed from
\* the one read, and not claimed.
BeginDelete(c) ==
    /\ Current < MaxGen
    /\ call[c].pc = "idle"
    /\ call' = [call EXCEPT ![c] = [pc |-> "delete", tok |-> Current + 1]]
    /\ UNCHANGED <<gen, mh, state, cleaned>>

\* delete_mh_assignment, FENCED_DELETE: with no generation nothing is deleted;
\* being fenced out is not an error either.
FinishDelete(c) ==
    /\ call[c].pc = "delete"
    /\ LET t == call[c].tok IN
        IF gen # None /\ Passes(t) THEN gen' = t /\ mh' = None
                                   ELSE UNCHANGED <<gen, mh>>
    /\ call' = [call EXCEPT ![c] = Idle]
    /\ UNCHANGED <<state, cleaned>>

\* store_meeting_state, FENCED_HSET: the fields F with a token the caller holds,
\* as often as it likes.
StoreMeetingState(c, F) ==
    /\ call[c].pc = "holding"
    /\ Passes(call[c].tok)
    /\ gen' = call[c].tok
    /\ state' = [f \in Field |-> IF f \in F THEN [by |-> c, tok |-> call[c].tok] ELSE state[f]]
    /\ UNCHANGED <<mh, call, cleaned>>

\* A call is abandoned (crash, lost connection, FencedOut), or a token is no
\* longer used.
Abandon(c) ==
    /\ call[c].pc # "idle"
    /\ call' = [call EXCEPT ![c] = Idle]
    /\ UNCHANGED <<gen, mh, state, cleaned>>

\* delete_meeting: all keys go, the generation too, without a fence.
DeleteMeeting ==
    /\ gen' = None
    /\ mh' = None
    /\ state' = [f \in Field |-> None]
    /\ cleaned' = TRUE
    /\ UNCHANGED call

Next ==
    \/ \E c \in Call : \/ GetGeneration(c)
                       \/ IncrementGeneration(c)
                       \/ BeginStore(c)
                       \/ FinishStore(c)
                       \/ BeginDelete(c)
                       \/ FinishDelete(c)
                       \/ Abandon(c)
    \/ \E c \in Call, F \in SUBSET Field : StoreMeetingState(c, F)
    \/ DeleteMeeting

Spec == Init /\ [][Next]_vars

-----------------------------------------------------------------------------
(* Properties. *)

\* No value in Redis is newer than the generation that fences the next write:
\* whatever was written stays protected, after a cleanup too.
DataFenced ==
    /\ mh # None => gen # None /\ mh.tok <= gen
    /\ \A f \in Field : state[f] # None => gen # None /\ state[f].tok <= gen

\* A late write never replaces a newer one, in either key.
NoStaleOverwrite ==
    [][/\ (mh # None /\ mh' # None) => mh'.tok >= mh.tok
       /\ \A f \in Field : (state[f] # None /\ state'[f] # None)
                                => state'[f].tok >= state[f].tok]_vars

\* Two stores that are under way at the same time never share a fencing token,
\* until the meeting's keys are deleted.
StoresOrdered ==
    ~cleaned =>
        \A c, d \in Call : (/\ c # d /\ call[c].pc = "store" /\ call[d].pc = "store")
                                => call[c].tok # call[d].tok

\* The assignment that is replaced was written with a strictly lower token:
\* of two controllers that both believe they own the meeting, the one with the
\* higher generation wins, in whatever order their writes arrive, until the
\* meeting's keys are deleted.
HigherGenerationWins ==
    [][(~cleaned /\ mh # None /\ mh' # None /\ mh' # mh) => mh'.tok > mh.tok]_vars

\* Every value in Redis is covered by the generation that fences the next write, and the
\* stores under way hold tokens of their own: what the Lua scripts compare can be compared.
Fenced == DataFenced /\ StoresOrdered

\* However writes of several controllers are delayed, a value gives way to a newer one
\* only, and an assignment to one of a strictly higher generation.
NewerWins == NoStaleOverwrite /\ HigherGenerationWins
=============================================================================
