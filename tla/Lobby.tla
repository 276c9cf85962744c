-------------------------------- MODULE Lobby --------------------------------
(***************************************************************************)
(* The global controller's meeting endpoints: create, join, guest token    *)
(* and settings, over the table meetings, with the auth controller that    *)
(* signs the tokens.  A handler is cut at its awaits.  The insert with its *)
(* limit is one SQL statement, but its count is taken from the snapshot of *)
(* the moment it starts (READ COMMITTED) and its row is seen by others     *)
(* when it ends: two steps.                                                *)
(*                                                                         *)
(* Abstractions: names, secrets and capabilities are left out; a request   *)
(* carries a valid user token (a guest none) and has passed its            *)
(* validation; a row is 'scheduled', the only status any code writes;      *)
(* assigning the meeting to a controller (module Assignment) succeeds or   *)
(* fails.                                                                  *)
(***************************************************************************)
EXTENDS Naturals, Sequences, FiniteSets

CONSTANTS
    LHandler,    \* handlers that run at once, over all replicas
    Org, User,
    HomeOrg,     \* [User -> Org]: org_id of the user's token
    MayCreate,   \* users whose token has one of MEETING_CREATE_ROLES
    Code,        \* meeting codes
    Patch,       \* bound: the settings requests of the run
    Limit,       \* organizations.max_concurrent_meetings
    Retries      \* MAX_CODE_COLLISION_RETRIES

Field == {"guests", "external", "waiting"}

ASSUME LobbyAssumption ==
    /\ IsFiniteSet(LHandler) /\ LHandler # {}
    /\ HomeOrg \in [User -> Org] /\ MayCreate \subseteq User
    /\ Limit \in Nat \ {0} /\ Retries \in Nat \ {0}
    /\ \A p \in Patch : DOMAIN p \subseteq Field /\ p \in [DOMAIN p -> BOOLEAN]

VARIABLES
    rooms,    \* Seq of rows of meetings; a meeting id is its position
    lreq,     \* [LHandler -> request]
    ordered,  \* Seq: of each meeting, what the last write of each setting asked
    allowed   \* [LHandler -> what its meeting has allowed since it was read]

lobbyVars == <<rooms, lreq, ordered, allowed>>

Settings == [Field -> BOOLEAN]
Room     == [org: Org, code: Code, host: User, set: Settings]
LAt      == {"idle", "draw", "counting", "admitted", "assigned", "found"}
LIdle    == [at |-> "idle"]
LBusy(h) == lreq[h].at # "idle"
LIn(h, op, at) == LBusy(h) /\ lreq[h].op \in op /\ lreq[h].at = at

\* What one state of the settings lets in, and how.
Admits(s) ==
    (IF s["guests"] THEN {IF s["waiting"] THEN "guest waits" ELSE "guest enters"} ELSE {})
    \cup (IF s["external"] THEN {"external"} ELSE {})

LobbyTypeOK ==
    /\ rooms \in Seq(Room)
    /\ ordered \in Seq(Settings) /\ Len(ordered) = Len(rooms)
    /\ \A h \in LHandler : LBusy(h) =>
        /\ lreq[h].op \in {"create", "join", "guest", "patch"} /\ lreq[h].at \in LAt
        /\ lreq[h].op = "create" => lreq[h].tries \in 0..(Retries - 1)
        /\ lreq[h].op # "create" => lreq[h].id \in DOMAIN rooms
    /\ \A h \in LHandler : allowed[h] \subseteq {"guest waits", "guest enters", "external"}

LobbyInit ==
    /\ rooms = <<>> /\ ordered = <<>>
    /\ lreq = [h \in LHandler |-> LIdle]
    /\ allowed = [h \in LHandler |-> {}]

LAnswer(h) ==
    /\ lreq' = [lreq EXCEPT ![h] = LIdle]
    /\ allowed' = [allowed EXCEPT ![h] = {}]
LGo(h, at) == lreq' = [lreq EXCEPT ![h].at = at]

-----------------------------------------------------------------------------
(* create_meeting *)

Open(org) == {m \in DOMAIN rooms : rooms[m].org = org}

Over(p, s) == [f \in Field |-> IF f \in DOMAIN p THEN p[f] ELSE s[f]]
Defaults   == [f \in Field |-> f = "waiting"]

\* The role is checked; the settings not named get secure defaults.
CreateAsk(h, u, p) ==
    /\ ~LBusy(h) /\ u \in MayCreate
    /\ lreq' = [lreq EXCEPT ![h] = [op |-> "create", at |-> "draw", user |-> u, tries |-> 0, set |-> Over(p, Defaults)]]
    /\ UNCHANGED <<rooms, ordered, allowed>>

\* A code is drawn and the statement starts: org_limits and current_count.
CreateStart(h, code) ==
    /\ LIn(h, {"create"}, "draw")
    /\ lreq' = [lreq EXCEPT ![h] =
                 [op |-> "create", at |-> "counting", user |-> @.user, tries |-> @.tries,
                  set |-> @.set, code |-> code, cnt |-> Cardinality(Open(HomeOrg[@.user]))]]
    /\ UNCHANGED <<rooms, ordered, allowed>>

\* Mutant: cnt <= max_concurrent_meetings.
UnderLimitOrAt(cnt) == cnt <= Limit
UnderLimit(cnt) == cnt < Limit

\* Mutant: meeting_code is not unique.
CollidesNever(org, code) == FALSE
\* meetings_org_code_unique
Collides(org, code) == \E m \in Open(org) : rooms[m].code = code

CreateRefused(h) ==
    /\ LIn(h, {"create"}, "counting") /\ ~UnderLimit(lreq[h].cnt)
    /\ LAnswer(h)
    /\ UNCHANGED <<rooms, ordered>>

CreateWrite(h) ==
    LET q == lreq[h]  org == HomeOrg[q.user] IN
    /\ LIn(h, {"create"}, "counting") /\ UnderLimit(q.cnt) /\ ~Collides(org, q.code)
    /\ rooms' = Append(rooms, [org |-> org, code |-> q.code, host |-> q.user, set |-> q.set])
    /\ ordered' = Append(ordered, q.set)
    /\ LAnswer(h)

\* Mutant: the last attempt is followed by another.
CreateCollidesOn(h) ==
    /\ LIn(h, {"create"}, "counting") /\ UnderLimit(lreq[h].cnt)
    /\ Collides(HomeOrg[lreq[h].user], lreq[h].code)
    /\ lreq' = [lreq EXCEPT ![h].at = "draw", ![h].tries = @ + 1]
    /\ UNCHANGED <<rooms, ordered, allowed>>
\* The unique constraint fails the insert: a new code, at most Retries in all.
CreateCollides(h) ==
    /\ LIn(h, {"create"}, "counting") /\ UnderLimit(lreq[h].cnt)
    /\ Collides(HomeOrg[lreq[h].user], lreq[h].code)
    /\ IF lreq[h].tries < Retries - 1
       THEN lreq' = [lreq EXCEPT ![h].at = "draw", ![h].tries = @ + 1] /\ UNCHANGED allowed
       ELSE LAnswer(h)
    /\ UNCHANGED <<rooms, ordered>>

-----------------------------------------------------------------------------
(* join_meeting and get_guest_token *)

\* Guests by the setting; users of the organization always, others by theirs.
Admitted(op, u, s, org) ==
    IF op = "guest" THEN s["guests"] ELSE HomeOrg[u] = org \/ s["external"]

\* find_meeting_by_code looks for the code alone: any meeting that has it.
Enter(h, op, u, m) ==
    /\ ~LBusy(h) /\ m \in DOMAIN rooms
    /\ Admitted(op, u, rooms[m].set, rooms[m].org)
    /\ lreq' = [lreq EXCEPT ![h] = [op |-> op, at |-> "admitted", user |-> u, id |-> m, row |-> rooms[m]]]
    /\ allowed' = [allowed EXCEPT ![h] = Admits(rooms[m].set)]
    /\ UNCHANGED <<rooms, ordered>>

\* assign_meeting_with_mh
AssignRoom(h) ==
    /\ LIn(h, {"join", "guest"}, "admitted") /\ LGo(h, "assigned")
    /\ UNCHANGED <<rooms, ordered, allowed>>

\* Mutant: the row is read again for the token.
TokenRowFresh(h) == rooms[lreq[h].id]
\* The row that was read at the start also fills the token request.
TokenRow(h) == lreq[h].row

\* The auth controller signs what the request says.
JoinToken(h) ==
    LET q == lreq[h]  row == TokenRow(h) IN
    IF q.op = "guest"
    THEN [kind |-> IF row.set["waiting"] THEN "guest waits" ELSE "guest enters", role |-> "guest"]
    ELSE [kind |-> IF HomeOrg[q.user] = row.org THEN "member" ELSE "external",
          role |-> IF row.host = q.user THEN "host" ELSE "participant"]

GetToken(h) ==
    /\ LIn(h, {"join", "guest"}, "assigned") /\ LAnswer(h)
    /\ UNCHANGED <<rooms, ordered>>

\* An await fails or the request is dropped, wherever it is; a statement that
\* has started may still be made, which is CreateWrite.
Ends(h) ==
    /\ LBusy(h) /\ LAnswer(h)
    /\ UNCHANGED <<rooms, ordered>>

-----------------------------------------------------------------------------
(* update_meeting_settings *)

\* The meeting is read and its host compared with the user.
PatchAsk(h, u, m, p) ==
    /\ ~LBusy(h) /\ m \in DOMAIN rooms
    /\ DOMAIN p # {}
    /\ rooms[m].host = u
    /\ lreq' = [lreq EXCEPT ![h] = [op |-> "patch", at |-> "found", user |-> u, id |-> m,
                                    row |-> rooms[m], patch |-> p]]
    /\ UNCHANGED <<rooms, ordered, allowed>>

\* Mutant: the settings not named are written back as they were read.
PatchedFromRead(h) == Over(lreq[h].patch, lreq[h].row.set)
\* COALESCE: the settings not named stay as the row has them.
Patched(h) == Over(lreq[h].patch, rooms[lreq[h].id].set)

PatchWrite(h) ==
    LET m == lreq[h].id IN
    /\ LIn(h, {"patch"}, "found")
    /\ rooms' = [rooms EXCEPT ![m].set = Patched(h)]
    /\ ordered' = [ordered EXCEPT ![m] = Over(lreq[h].patch, @)]
    /\ lreq' = [lreq EXCEPT ![h] = LIdle]
    /\ allowed' = [g \in LHandler |->
                    IF g # h /\ LIn(g, {"join", "guest"}, lreq[g].at) /\ lreq[g].id = m
                    THEN allowed[g] \cup Admits(Patched(h)) ELSE allowed[g]]

LobbyNext ==
    \/ \E h \in LHandler, u \in User :
        \/ \E p \in Patch : CreateAsk(h, u, p)
        \/ \E m \in DOMAIN rooms :
            \/ Enter(h, "join", u, m)
            \/ Enter(h, "guest", u, m)
            \/ \E p \in Patch : PatchAsk(h, u, m, p)
    \/ \E h \in LHandler, code \in Code : CreateStart(h, code)
    \/ \E h \in LHandler :
        \/ CreateRefused(h) \/ CreateWrite(h) \/ CreateCollides(h)
        \/ AssignRoom(h) \/ GetToken(h) \/ PatchWrite(h) \/ Ends(h)

LobbySpec == LobbyInit /\ [][LobbyNext]_lobbyVars

-----------------------------------------------------------------------------
(* The limit of an organization can be passed by the inserts that run at
   once, each counting before the others end, and by no more:
   create_meeting_with_limit_check. *)
OrgLimitBound == \A o \in Org : Cardinality(Open(o)) <= Limit + Cardinality(LHandler) - 1

(* Two meetings of an organization never share a code, although codes are
   drawn again and inserted at once. *)
CodesApart ==
    \A m, n \in DOMAIN rooms :
        m # n => rooms[m].org # rooms[n].org \/ rooms[m].code # rooms[n].code

(* A token says what the settings said at one moment of its request: a guest
   enters without waiting only if guests were allowed with the waiting room
   off, not with one setting from before and one from after a change. *)
TokenAsSettings ==
    [][\A h \in LHandler : GetToken(h) =>
        JoinToken(h).kind \in allowed[h] \cup {"member"}]_lobbyVars

(* Changes of different settings at once are all kept: each setting is what
   the last request that named it asked. *)
NoLostSetting == \A m \in DOMAIN rooms : rooms[m].set = ordered[m]

(* What the table of meetings keeps when requests run at once. *)
LobbyCorrect == LobbyTypeOK /\ OrgLimitBound /\ CodesApart /\ NoLostSetting
=============================================================================
