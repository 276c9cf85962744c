------------------------------- MODULE Clients -------------------------------
(***************************************************************************)
(* The auth controller's service clients: the table service_credentials,   *)
(* the token endpoint with its lockout, and the admin endpoints that       *)
(* create, update, delete and rotate a client.  A handler is cut at its    *)
(* database calls; any of them may fail, with or without effect, and the   *)
(* request timeout or a closed connection may drop the handler at one.     *)
(*                                                                         *)
(* Abstractions: a secret is the number of its generation, 0 is a wrong    *)
(* guess, and a stored hash is the secret that it verifies; the window of  *)
(* the lockout is the events not yet aged out of it.                       *)
(* The endpoints that list and read clients change nothing.                *)
(***************************************************************************)
EXTENDS Naturals, FiniteSets

CONSTANTS
    Handler,      \* handlers that run at once, over all replicas
    Client,       \* bound: the client ids that are ever drawn
    Scope,        \* default_scopes of the service type
    MaxAttempts,  \* rate_limit_max_attempts
    MaxSecrets,   \* bound: secrets generated
    MaxFaults     \* bound: database calls that fail

ASSUME ClientsAssumption ==
    /\ IsFiniteSet(Handler) /\ Handler # {} /\ IsFiniteSet(Client)
    /\ MaxAttempts \in Nat \ {0} /\ MaxSecrets \in Nat /\ MaxFaults \in Nat

VARIABLES
    creds,    \* [Client -> row of service_credentials]
    trail,    \* [Client -> some auth_events row names the credential]
    failed,   \* [Client -> its failed events in the window]
    creq,     \* [Handler -> request]
    secrets,  \* secrets generated so far
    told,     \* [Client -> secrets that an answer carried]
    lost,     \* [Client -> secrets written by a handler that gave no answer]
    cfaults   \* database calls that may still fail

clientsVars == <<creds, trail, failed, creq, secrets, told, lost, cfaults>>

Row == [st: {"absent", "there", "deleted"}, secret: Nat, scopes: SUBSET Scope, active: BOOLEAN]
NoRow == [st |-> "absent", secret |-> 0, scopes |-> {}, active |-> FALSE]

ClientOp == {"token", "register", "create", "update", "delete", "rotate"}
ClientAt == {"idle", "read", "counted", "valid", "inserted", "logged"}
Request == [op: ClientOp, at: ClientAt, c: Client, secret: Nat, row: Row]
Idle == [at |-> "idle"]
Exists(c) == creds[c].st = "there"
CBusy(h) == creq[h].at # "idle"
CAt(h, op, at) == CBusy(h) /\ creq[h].op \in op /\ creq[h].at = at

ClientsTypeOK ==
    /\ creds \in [Client -> Row]
    /\ trail \in [Client -> BOOLEAN]
    /\ failed \in [Client -> Nat]
    /\ \A h \in Handler : creq[h] \in Request \cup {Idle}
    /\ secrets \in 0..MaxSecrets
    /\ told \in [Client -> SUBSET (1..secrets)] /\ lost \in [Client -> SUBSET (1..secrets)]
    /\ cfaults \in 0..MaxFaults

ClientsInit ==
    /\ creds = [c \in Client |-> NoRow]
    /\ trail = [c \in Client |-> FALSE] /\ failed = [c \in Client |-> 0]
    /\ creq = [h \in Handler |-> Idle]
    /\ secrets = 0
    /\ told = [c \in Client |-> {}] /\ lost = [c \in Client |-> {}]
    /\ cfaults = MaxFaults

CStart(h, op, c, s) ==
    creq' = [creq EXCEPT ![h] = [op |-> op, at |-> "read", c |-> c, secret |-> s, row |-> creds[c]]]
CGo(h, at) == creq' = [creq EXCEPT ![h].at = at]
CAnswer(h) == creq' = [creq EXCEPT ![h] = Idle]
CFault     == cfaults > 0 /\ cfaults' = cfaults - 1
Tell(c, s) == told' = [told EXCEPT ![c] = @ \cup {s}]
Lose(c, s) == lost' = [lost EXCEPT ![c] = @ \cup {s}]

\* log_event: the row names the credential, so a deleted one makes it fail.
\* Its errors are logged and dropped.
CLog(c, bad) ==
    IF Exists(c)
    THEN /\ trail' = [trail EXCEPT ![c] = TRUE]
         /\ failed' = [failed EXCEPT ![c] = @ + bad]
    ELSE UNCHANGED <<trail, failed>>
CLogOrNot(c, bad) ==
    \/ CLog(c, bad) /\ UNCHANGED cfaults
    \/ CFault /\ UNCHANGED <<trail, failed>>

\* A database call of the handler fails without effect and ends it.
CCallFails(h) ==
    /\ CBusy(h) /\ creq[h].at # "inserted" /\ CFault
    /\ CAnswer(h)
    /\ IF creq[h].op \in {"register", "create"} /\ creq[h].at = "logged"
       THEN Lose(creq[h].c, creq[h].secret) ELSE UNCHANGED lost
    /\ UNCHANGED <<creds, trail, failed, secrets, told>>

\* The connection closes or the request times out: the handler is dropped.
CDrop(h) ==
    /\ CBusy(h)
    /\ CAnswer(h)
    /\ IF creq[h].at \in {"inserted", "logged"}
       THEN Lose(creq[h].c, creq[h].secret) ELSE UNCHANGED lost
    /\ UNCHANGED <<creds, trail, failed, secrets, told, cfaults>>

-----------------------------------------------------------------------------
(* issue_service_token *)

\* The credential is read, then its failed events are counted.  A request for
\* a client that is not there is refused after a check of a dummy hash.
TokenRead(h, c, s) ==
    /\ ~CBusy(h) /\ s \in 0..secrets
    /\ CStart(h, "token", c, s)
    /\ UNCHANGED <<creds, trail, failed, secrets, told, lost, cfaults>>

\* Mutant: the limit itself is still let through.
LockedLate(c) == failed[c] > MaxAttempts
Locked(c) == failed[c] >= MaxAttempts

TokenCount(h) ==
    /\ CAt(h, {"token"}, "read")
    /\ IF creq[h].row.st = "there" /\ ~Locked(creq[h].c) THEN CGo(h, "counted") ELSE CAnswer(h)
    /\ UNCHANGED <<creds, trail, failed, secrets, told, lost, cfaults>>

Verifies(h) == creq[h].row.active /\ creq[h].secret = creq[h].row.secret

\* bcrypt, then the failed attempt is logged and refused.
TokenRefuse(h) ==
    /\ CAt(h, {"token"}, "counted") /\ ~Verifies(h)
    /\ CLogOrNot(creq[h].c, 1) /\ CAnswer(h)
    /\ UNCHANGED <<creds, secrets, told, lost>>

\* The scopes asked for must be among the client's; without any it gets all.
TokenScopes(h, asked) ==
    /\ CAt(h, {"token"}, "counted") /\ Verifies(h)
    /\ IF asked \subseteq creq[h].row.scopes THEN CGo(h, "valid") ELSE CAnswer(h)
    /\ UNCHANGED <<creds, trail, failed, secrets, told, lost, cfaults>>

\* The active key signs the token and the event is logged.
TokenIssue(h) ==
    /\ CAt(h, {"token"}, "valid")
    /\ CLogOrNot(creq[h].c, 0) /\ CAnswer(h)
    /\ UNCHANGED <<creds, secrets, told, lost>>

-----------------------------------------------------------------------------
(* register_service, by handle_register_service or handle_create_client *)

\* A new id and a new secret are drawn; the request carries the row to insert.
CreateBegin(h, op, c) ==
    /\ ~CBusy(h) /\ creds[c].st = "absent"
    /\ \A g \in Handler : CBusy(g) => creq[g].c # c
    /\ secrets < MaxSecrets /\ secrets' = secrets + 1
    /\ CStart(h, op, c, secrets + 1)
    /\ UNCHANGED <<creds, trail, failed, told, lost, cfaults>>

NewRow(s) == [st |-> "there", secret |-> s, scopes |-> Scope, active |-> TRUE]

\* The insert; an error may also follow a row that was written.
CreateInsert(h) ==
    LET c == creq[h].c IN
    /\ CAt(h, {"register", "create"}, "read")
    /\ creds' = [creds EXCEPT ![c] = NewRow(creq[h].secret)]
    /\ \/ CGo(h, "inserted") /\ UNCHANGED <<lost, cfaults>>
       \/ CFault /\ CAnswer(h) /\ Lose(c, creq[h].secret)
    /\ UNCHANGED <<trail, failed, secrets, told>>

CreateLog(h) ==
    /\ CAt(h, {"register", "create"}, "inserted")
    /\ CLogOrNot(creq[h].c, 0) /\ CGo(h, "logged")
    /\ UNCHANGED <<creds, secrets, told, lost>>

\* handle_create_client reads the row again for its id and fails without it.
CreateAnswer(h) ==
    LET c == creq[h].c IN
    /\ CAt(h, {"register", "create"}, "logged")
    /\ CAnswer(h)
    /\ IF creq[h].op = "register" \/ Exists(c)
       THEN Tell(c, creq[h].secret) /\ UNCHANGED lost
       ELSE Lose(c, creq[h].secret) /\ UNCHANGED told
    /\ UNCHANGED <<creds, trail, failed, secrets, cfaults>>

-----------------------------------------------------------------------------
(* handle_update_client, handle_delete_client, handle_rotate_client_secret *)

\* Each first reads the credential and answers 404 when it is not there.
AdminRead(h, op, c) ==
    /\ ~CBusy(h) /\ op \in {"update", "delete", "rotate"} /\ creds[c].st # "absent"
    /\ IF Exists(c) THEN CStart(h, op, c, 0) ELSE UNCHANGED creq
    /\ UNCHANGED <<creds, trail, failed, secrets, told, lost, cfaults>>

\* update_metadata: no row left to update is an error.
UpdateWrite(h, new) ==
    LET c == creq[h].c IN
    /\ CAt(h, {"update"}, "read")
    /\ creds' = IF Exists(c) THEN [creds EXCEPT ![c].scopes = new] ELSE creds
    /\ CAnswer(h)
    /\ UNCHANGED <<trail, failed, secrets, told, lost, cfaults>>

\* Mutant: the events of a client do not hold its row.
DeletableAll(c) == Exists(c)
\* auth_events.credential_id references the row, without ON DELETE.
Deletable(c) == Exists(c) /\ ~trail[c]

DeleteRow(h) ==
    LET c == creq[h].c IN
    /\ CAt(h, {"delete"}, "read")
    /\ creds' = IF Deletable(c) THEN [creds EXCEPT ![c].st = "deleted"] ELSE creds
    /\ CAnswer(h)
    /\ UNCHANGED <<trail, failed, secrets, told, lost, cfaults>>

\* Mutant: the answer shows the secret that was read.
RotateOldShown(h) ==
    LET c == creq[h].c IN
    /\ CAt(h, {"rotate"}, "read")
    /\ secrets < MaxSecrets /\ secrets' = secrets + 1
    /\ creds' = IF Exists(c) THEN [creds EXCEPT ![c].secret = secrets + 1] ELSE creds
    /\ CAnswer(h) /\ Tell(c, creq[h].row.secret)
    /\ UNCHANGED <<trail, failed, lost, cfaults>>
\* Mutant: the draw is not counted.
RotateUndrawn(h) ==
    LET c == creq[h].c IN
    /\ CAt(h, {"rotate"}, "read")
    /\ creds' = [creds EXCEPT ![c].secret = secrets + 1]
    /\ CAnswer(h) /\ Tell(c, secrets + 1)
    /\ UNCHANGED <<trail, failed, secrets, lost, cfaults>>
\* A new secret is drawn, hashed and written, and only this answer shows it.
\* An error may follow a write that was made.
RotateWrite(h) ==
    LET c == creq[h].c IN
    /\ CAt(h, {"rotate"}, "read")
    /\ secrets < MaxSecrets /\ secrets' = secrets + 1
    /\ creds' = IF Exists(c) THEN [creds EXCEPT ![c].secret = secrets + 1] ELSE creds
    /\ CAnswer(h)
    /\ \/ ~Exists(c) /\ UNCHANGED <<told, lost, cfaults>>
       \/ Exists(c) /\ Tell(c, secrets + 1) /\ UNCHANGED <<lost, cfaults>>
       \/ Exists(c) /\ CFault /\ Lose(c, secrets + 1) /\ UNCHANGED told
    /\ UNCHANGED <<trail, failed>>

\* service_credentials::deactivate has no route: an operator clears is_active.
Deactivate(c) ==
    /\ Exists(c) /\ creds[c].active
    /\ creds' = [creds EXCEPT ![c].active = FALSE]
    /\ UNCHANGED <<trail, failed, creq, secrets, told, lost, cfaults>>

\* Time passes and the oldest failed event leaves the window.
CAge(c) ==
    /\ failed[c] > 0
    /\ failed' = [failed EXCEPT ![c] = @ - 1]
    /\ UNCHANGED <<creds, trail, creq, secrets, told, lost, cfaults>>

ClientsNext ==
    \/ \E h \in Handler, c \in Client, s \in 0..MaxSecrets : TokenRead(h, c, s)
    \/ \E h \in Handler, c \in Client, op \in {"register", "create"} : CreateBegin(h, op, c)
    \/ \E h \in Handler, c \in Client, op \in {"update", "delete", "rotate"} : AdminRead(h, op, c)
    \/ \E h \in Handler, sc \in SUBSET Scope : TokenScopes(h, sc) \/ UpdateWrite(h, sc)
    \/ \E h \in Handler :
        \/ TokenCount(h) \/ TokenRefuse(h) \/ TokenIssue(h)
        \/ CreateInsert(h) \/ CreateLog(h) \/ CreateAnswer(h)
        \/ DeleteRow(h) \/ RotateWrite(h) \/ CCallFails(h) \/ CDrop(h)
    \/ \E c \in Client : Deactivate(c) \/ CAge(c)

ClientsSpec == ClientsInit /\ [][ClientsNext]_clientsVars

-----------------------------------------------------------------------------
(* The check of the lockout and the event that feeds it are apart, so each
   handler that runs at once may add one failure past the limit, and no more
   may: issue_service_token. *)
LockoutBound == \A c \in Client : failed[c] <= MaxAttempts + Cardinality(Handler) - 1

(* However creations and rotations interleave, the secret that verifies is
   one that an answer carried, or that a handler still running will answer
   with, or whose handler ended without an answer. *)
SecretKnown ==
    \A c \in Client : Exists(c) =>
        \/ creds[c].secret \in told[c] \cup lost[c]
        \/ \E h \in Handler : /\ CAt(h, {"register", "create"}, creq[h].at)
                              /\ creq[h].c = c /\ creq[h].secret = creds[c].secret

(* The events of a client keep its row: none of them names a credential that
   is gone, whatever a delete races with. *)
TrailKept == \A c \in Client : trail[c] => Exists(c)

(* What the credential endpoints promise when their requests run at once. *)
ClientsCorrect == ClientsTypeOK /\ LockoutBound /\ SecretKnown /\ TrailKept
=============================================================================
