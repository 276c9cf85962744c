-------------------------------- MODULE Users --------------------------------
(***************************************************************************)
(* The auth controller's users: registration with its automatic login, the *)
(* login endpoint, and the two limits that both read from auth_events: the *)
(* failed logins of a user and the successful logins of an address.        *)
(* A handler is cut at its database calls, as in Clients.                  *)
(*                                                                         *)
(* Abstractions: an Email stands for a pair of organization and address    *)
(* (require_org_context has found the organization), all requests come     *)
(* from one IP address, and a stored hash is the password that it          *)
(* verifies.  is_active holds for every row: no code clears it.            *)
(***************************************************************************)
EXTENDS Naturals, FiniteSets

CONSTANTS
    UHandler,      \* handlers that run at once, over all replicas
    Email, Password,
    MaxFailures,   \* rate_limit_max_attempts
    MaxRegs,       \* registration_rate_limit_max_attempts
    MaxLogins,     \* bound: no request starts with more logins in the window
    MaxUFaults,    \* bound: database calls that fail
    NoPassword

ASSUME UsersAssumption ==
    /\ IsFiniteSet(UHandler) /\ UHandler # {} /\ IsFiniteSet(Email)
    /\ MaxFailures \in Nat \ {0} /\ MaxRegs \in Nat \ {0}
    /\ MaxLogins \in Nat /\ MaxUFaults \in Nat
    /\ NoPassword \notin Password

VARIABLES
    users,      \* [Email -> [pw, role]]: pw is NoPassword when there is no row
    ufailed,    \* [Email -> failed logins in the window]
    regs,       \* registration events of the IP address in the window
    logins,     \* its other successful logins in the window
    ureq,       \* [UHandler -> request]
    owners,     \* [Email -> passwords of registrations answered with a token]
    abandoned,  \* emails whose registration ended between row and role
    miscounts,  \* counts of failed logins that failed and were taken as 0
    misregs,    \* counts of registrations that failed and were taken as 0
    ufaults     \* database calls that may still fail

limitVars == <<ufailed, regs, logins, miscounts, misregs>>
usersVars == <<users, limitVars, ureq, owners, abandoned, ufaults>>

UserRow == [pw: Password \cup {NoPassword}, role: BOOLEAN]
NoUser  == [pw |-> NoPassword, role |-> FALSE]
Registered(e) == users[e].pw # NoPassword

UserAt == {"idle", "limited", "free", "created", "roled", "login", "read", "allowed", "roles"}
UIdle == [at |-> "idle"]
UserRequest == [op: {"register", "login"}, at: UserAt, e: Email, pw: Password, row: UserRow]
UBusy(h)   == ureq[h].at # "idle"
UAt(h, at) == ureq[h].at = at

UsersTypeOK ==
    /\ users \in [Email -> UserRow]
    /\ ufailed \in [Email -> Nat]
    /\ regs \in Nat /\ logins \in Nat
    /\ \A h \in UHandler : ureq[h] \in UserRequest \cup {UIdle}
    /\ owners \in [Email -> SUBSET Password]
    /\ abandoned \subseteq Email
    /\ miscounts \in 0..MaxUFaults /\ misregs \in 0..MaxUFaults
    /\ ufaults \in 0..MaxUFaults

UsersInit ==
    /\ users = [e \in Email |-> NoUser]
    /\ ufailed = [e \in Email |-> 0] /\ regs = 0 /\ logins = 0
    /\ ureq = [h \in UHandler |-> UIdle]
    /\ owners = [e \in Email |-> {}] /\ abandoned = {}
    /\ miscounts = 0 /\ misregs = 0 /\ ufaults = MaxUFaults

UGo(h, at) == ureq' = [ureq EXCEPT ![h].at = at]
UAnswer(h) == ureq' = [ureq EXCEPT ![h] = UIdle]
UFault     == ufaults > 0 /\ ufaults' = ufaults - 1
UStart(h, op, at, e, pw) ==
    ureq' = [ureq EXCEPT ![h] = [op |-> op, at |-> at, e |-> e, pw |-> pw, row |-> NoUser]]

\* A handler that ends between the row and the role leaves a user without one.
Abandon(h) ==
    abandoned' = IF UAt(h, "created") THEN abandoned \cup {ureq[h].e} ELSE abandoned

\* A database call fails without effect and the handler answers an error.
\* Events and the two counts have their own way to fail.
UCallFails(h) ==
    /\ ureq[h].at \in {"limited", "free", "created", "login", "allowed", "roles"} /\ UFault
    /\ UAnswer(h) /\ Abandon(h)
    /\ UNCHANGED <<users, limitVars, owners>>

UDrop(h) ==
    /\ UBusy(h)
    /\ UAnswer(h) /\ Abandon(h)
    /\ UNCHANGED <<users, limitVars, owners, ufaults>>

-----------------------------------------------------------------------------
(* register_user *)

\* Mutant: registrations are counted by an event type that nothing logs.
IpCountNone == 0
\* count_registrations_from_ip: every successful login of the address.
IpCount == regs + logins

\* A failing count is taken as 0.  The request is validated after it.
RegBegin(h, e, pw) ==
    /\ ~UBusy(h) /\ logins <= MaxLogins
    /\ \/ IpCount < MaxRegs /\ UNCHANGED <<misregs, ufaults>>
       \/ UFault /\ misregs' = misregs + 1
    /\ UStart(h, "register", "limited", e, pw)
    /\ UNCHANGED <<users, ufailed, regs, logins, miscounts, owners, abandoned>>

\* email_exists_in_org
RegCheck(h) ==
    /\ UAt(h, "limited")
    /\ IF Registered(ureq[h].e) THEN UAnswer(h) ELSE UGo(h, "free")
    /\ UNCHANGED <<users, limitVars, owners, abandoned, ufaults>>

\* Mutant: the insert takes over the row that another handler made.
RegCreateUpsert(h) ==
    /\ UAt(h, "free")
    /\ users' = [users EXCEPT ![ureq[h].e].pw = ureq[h].pw]
    /\ UGo(h, "created")
    /\ UNCHANGED <<limitVars, owners, abandoned, ufaults>>
\* create_user: the constraint users_org_email_unique decides.  An error may
\* also follow a row that was written.
RegCreate(h) ==
    LET e == ureq[h].e IN
    /\ UAt(h, "free")
    /\ \/ /\ Registered(e) /\ UAnswer(h)
          /\ UNCHANGED <<users, abandoned, ufaults>>
       \/ /\ ~Registered(e)
          /\ users' = [users EXCEPT ![e] = [pw |-> ureq[h].pw, role |-> FALSE]]
          /\ \/ UGo(h, "created") /\ UNCHANGED <<abandoned, ufaults>>
             \/ UFault /\ UAnswer(h) /\ abandoned' = abandoned \cup {e}
    /\ UNCHANGED <<limitVars, owners>>

\* Mutant: the default role is left to a later call.
RegRoleLater(h) ==
    /\ UAt(h, "created") /\ UGo(h, "roled")
    /\ UNCHANGED <<users, limitVars, owners, abandoned, ufaults>>
\* add_user_role
RegRole(h) ==
    /\ UAt(h, "created") /\ UGo(h, "roled")
    /\ users' = [users EXCEPT ![ureq[h].e].role = TRUE]
    /\ UNCHANGED <<limitVars, owners, abandoned, ufaults>>

\* log_registration_event; issue_user_token follows.
RegLog(h) ==
    /\ UAt(h, "roled") /\ UGo(h, "login")
    /\ \/ regs' = regs + 1 /\ UNCHANGED ufaults
       \/ UFault /\ UNCHANGED regs
    /\ UNCHANGED <<users, ufailed, logins, miscounts, misregs, owners, abandoned>>

-----------------------------------------------------------------------------
(* issue_user_token *)

LoginBegin(h, e, pw) ==
    /\ ~UBusy(h) /\ logins <= MaxLogins
    /\ UStart(h, "login", "login", e, pw)
    /\ UNCHANGED <<users, limitVars, owners, abandoned, ufaults>>

\* get_by_email: without a user the answer follows a check of a dummy hash.
LoginRead(h) ==
    LET e == ureq[h].e IN
    /\ UAt(h, "login")
    /\ ureq' = IF Registered(e)
               THEN [ureq EXCEPT ![h].at = "read", ![h].row = users[e]]
               ELSE [ureq EXCEPT ![h] = UIdle]
    /\ UNCHANGED <<users, limitVars, owners, abandoned, ufaults>>

\* Mutant: the limit itself is still let through.
UserLockedLate(e) == ufailed[e] > MaxFailures
UserLocked(e) == ufailed[e] >= MaxFailures

\* The failed logins are counted; a count that fails is taken as 0.
LoginCount(h) ==
    /\ UAt(h, "read")
    /\ \/ /\ IF UserLocked(ureq[h].e) THEN UAnswer(h) ELSE UGo(h, "allowed")
          /\ UNCHANGED <<miscounts, ufaults>>
       \/ UGo(h, "allowed") /\ UFault /\ miscounts' = miscounts + 1
    /\ UNCHANGED <<users, ufailed, regs, logins, misregs, owners, abandoned>>

PasswordOk(h) == ureq[h].pw = ureq[h].row.pw

LoginRefuse(h) ==
    /\ UAt(h, "allowed") /\ ~PasswordOk(h) /\ UAnswer(h)
    /\ \/ ufailed' = [ufailed EXCEPT ![ureq[h].e] = @ + 1] /\ UNCHANGED ufaults
       \/ UFault /\ UNCHANGED ufailed
    /\ UNCHANGED <<users, regs, logins, miscounts, misregs, owners, abandoned>>

\* get_user_roles, as the token will carry them.
LoginRoles(h) ==
    /\ UAt(h, "allowed") /\ PasswordOk(h)
    /\ ureq' = [ureq EXCEPT ![h].at = "roles", ![h].row.role = users[ureq[h].e].role]
    /\ UNCHANGED <<users, limitVars, owners, abandoned, ufaults>>

\* The active key signs the token; the event is logged, last_login_at written.
LoginIssue(h) ==
    LET e == ureq[h].e IN
    /\ UAt(h, "roles") /\ UAnswer(h)
    /\ \/ logins' = logins + 1 /\ UNCHANGED ufaults
       \/ UFault /\ UNCHANGED logins
    /\ owners' = IF ureq[h].op = "register"
                 THEN [owners EXCEPT ![e] = @ \cup {ureq[h].pw}] ELSE owners
    /\ UNCHANGED <<users, ufailed, regs, miscounts, misregs, abandoned>>

\* Mutant: an event leaves the window that was never in it.
UAgeAny(e) ==
    /\ ufailed' = [ufailed EXCEPT ![e] = @ - 1] /\ UNCHANGED <<regs, logins>>
    /\ UNCHANGED <<users, miscounts, misregs, ureq, owners, abandoned, ufaults>>
\* Time passes and the oldest event leaves a window.
UAge(e) ==
    /\ \/ ufailed[e] > 0 /\ ufailed' = [ufailed EXCEPT ![e] = @ - 1] /\ UNCHANGED <<regs, logins>>
       \/ regs > 0 /\ regs' = regs - 1 /\ UNCHANGED <<ufailed, logins>>
       \/ logins > 0 /\ logins' = logins - 1 /\ UNCHANGED <<ufailed, regs>>
    /\ UNCHANGED <<users, miscounts, misregs, ureq, owners, abandoned, ufaults>>

UsersNext ==
    \/ \E h \in UHandler, e \in Email, pw \in Password : RegBegin(h, e, pw) \/ LoginBegin(h, e, pw)
    \/ \E h \in UHandler :
        \/ RegCheck(h) \/ RegCreate(h) \/ RegRole(h) \/ RegLog(h)
        \/ LoginRead(h) \/ LoginCount(h) \/ LoginRefuse(h) \/ LoginRoles(h) \/ LoginIssue(h)
        \/ UCallFails(h) \/ UDrop(h)
    \/ \E e \in Email : UAge(e)

UsersSpec == UsersInit /\ [][UsersNext]_usersVars

-----------------------------------------------------------------------------
(* Failed logins pass the lockout only by the handlers that run at once, and
   by counts that failed and were taken as 0: issue_user_token. *)
UserLockoutBound ==
    \A e \in Email : ufailed[e] <= MaxFailures + Cardinality(UHandler) - 1 + miscounts

(* The same for the registrations of one address: register_user. *)
RegistrationBound == regs <= MaxRegs + Cardinality(UHandler) - 1 + misregs

(* A registration that was answered with a token owns the account: of several
   at once for one email, one gets the row, its password is the one that
   logs in, and the account has the default role. *)
OwnerKept ==
    \A e \in Email, pw \in Password : pw \in owners[e] => users[e] = [pw |-> pw, role |-> TRUE]

(* A user without a role, whom a login meanwhile gives a token without roles,
   is one whose registration is still between the two inserts or ended
   there. *)
RolelessExplained ==
    \A e \in Email : Registered(e) /\ ~users[e].role =>
        e \in abandoned \/ \E h \in UHandler : UAt(h, "created") /\ ureq[h].e = e

(* What registration and login promise when their requests run at once. *)
UsersCorrect ==
    UsersTypeOK /\ UserLockoutBound /\ RegistrationBound /\ OwnerKept /\ RolelessExplained
=============================================================================
