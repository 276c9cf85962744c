-------------------------------- MODULE Gate --------------------------------
(* Who is let in where: the claims the auth controller signs, and the checks  *)
(* by which every HTTP route, gRPC service and client connection of the four  *)
(* services admits a caller.  A token is the record of its claims; rotation   *)
(* of keys and the JWKS cache are in Credentials.                             *)
EXTENDS Integers, FiniteSets

CONSTANTS
    Person,      \* users and guests
    GRoom,       \* meetings
    CreatorOf,   \* [GRoom -> Person]
    OrgOf,       \* organization of a person or a room
    External,    \* rooms with allow_external_participants
    Off,         \* [Node -> Int] the clock of each service against true time
    Skew,        \* jwt_clock_skew_seconds
    Leeway,      \* of jsonwebtoken's check of exp
    TokenExpiry, \* TOKEN_EXPIRY_SECONDS
    AskedTtl,    \* what the GC asks for
    MaxTtl,      \* MAX_TOKEN_TTL_SECONDS
    GMaxTime, GMaxTokens   \* bounds

Node == {"ac", "gc", "mc", "mh"}

\* The services' clocks are no further apart than the tolerance.
ASSUME ClocksClose == \A a, b \in Node : Off[a] - Off[b] <= Skew

\* Subjects of persons are UUIDs and never the name of a service.
ASSUME GateAssumption ==
    /\ Off \in [Node -> Int] /\ {Skew, Leeway, TokenExpiry, AskedTtl, MaxTtl, GMaxTime} \subseteq Nat
    /\ Person \cap {"global-controller", "meeting-controller", "media-handler"} = {}

VARIABLES
    clock,     \* true time
    issued,    \* the tokens signed so far
    granted,   \* history: joins the GC allowed, [sub, room, role, at]
    seats      \* history: clients let in by an MC or MH, [sub, room, host, at]

gateVars == <<clock, issued, granted, seats>>

Now(n) == clock + Off[n]

GateInit == clock = 0 /\ issued = {} /\ granted = {} /\ seats = {}

-----------------------------------------------------------------------------
(* Claims, as serde reads them: unknown fields are ignored, Options may miss. *)

Stamped == {"sub", "iat", "exp"}
ServiceClaims == Stamped \cup {"scope"}
\* Mutant: the claims of a user have defaults.
UserClaimsDefaults == Stamped
UserClaims == Stamped \cup {"org_id", "email", "roles", "jti"}
MeetingTokenClaims ==
    Stamped \cup {"token_type", "meeting_id", "meeting_org_id", "participant_type", "role",
                  "capabilities", "jti"}
GuestTokenClaims == MeetingTokenClaims \cup {"display_name", "waiting_room"}

\* The enums of MeetingTokenClaims know no guest.
ParticipantType == {"member", "external"}
MeetingRole == {"host", "participant"}

\* GuestTokenClaims::validate
GuestFields(t) == t.token_type = "guest" /\ t.participant_type = "guest" /\ t.role = "guest"

\* extract_kid
ExtractKid(t) == "kid" \in DOMAIN t

\* verify_token: the claims parse and the token has not expired.
VerifyToken(n, type, t) ==
    /\ t.exp >= Now(n) - Leeway
    /\ type \subseteq DOMAIN t
    /\ type = MeetingTokenClaims => t.participant_type \in ParticipantType /\ t.role \in MeetingRole

\* Mutant: the clock of the issuer is taken for one's own.
ValidateIatStrict(n, t) == t.iat <= Now(n)
\* validate_iat_at
ValidateIat(n, t) == t.iat <= Now(n) + Skew

\* JwtValidator::validate
Validates(n, type, t) == ExtractKid(t) /\ VerifyToken(n, type, t) /\ ValidateIat(n, t)

\* verify_jwt of the auth controller, with its active key whatever the kid is.
VerifyJwt(t) == VerifyToken("ac", ServiceClaims, t) /\ ValidateIat("ac", t)

-----------------------------------------------------------------------------
(* The ways in. *)

\* The second check of every auth layer.
CallerIs(t, type) == "service_type" \in DOMAIN t /\ t.service_type = type

\* Mutant: the scope alone decides.
GrpcAuthByScope(svc, t) == Validates("gc", ServiceClaims, t) /\ "service.write.gc" \in t.scope
\* GrpcAuthLayer of the GC: its scope, then the caller its service is for.
GrpcAuth(svc, t) ==
    /\ Validates("gc", ServiceClaims, t)
    /\ "service.write.gc" \in t.scope
    /\ \/ svc = "GlobalControllerService" /\ CallerIs(t, "meeting-controller")
       \/ svc = "MediaHandlerRegistryService" /\ CallerIs(t, "media-handler")

\* McAuthLayer
McAuth(svc, t) ==
    /\ Validates("mc", ServiceClaims, t)
    /\ "service.write.mc" \in t.scope
    /\ \/ svc = "MeetingControllerService" /\ CallerIs(t, "global-controller")
       \/ svc = "MediaCoordinationService" /\ CallerIs(t, "media-handler")

\* MhAuthLayer
MhAuth(svc, t) ==
    /\ Validates("mh", ServiceClaims, t)
    /\ "service.write.mh" \in t.scope
    /\ svc = "MediaHandlerService" /\ CallerIs(t, "meeting-controller")

\* require_admin_scope
RequireAdminScope(t) == VerifyJwt(t) /\ "admin:services" \in t.scope

\* require_service_auth and the check of the scope by the handlers.
RequireServiceAuth(t) == VerifyJwt(t)
InternalScope(t) == "internal:meeting-token" \in t.scope

\* require_user_auth, and require_auth of /me.
RequireUserAuth(t) == Validates("gc", UserClaims, t)
RequireAuth(t) == Validates("gc", ServiceClaims, t)

\* validate_meeting_token of MC and MH.
McMeetingToken(t) == Validates("mc", MeetingTokenClaims, t) /\ t.token_type = "meeting"
MhMeetingToken(t) == Validates("mh", MeetingTokenClaims, t) /\ t.token_type = "meeting"

\* validate_guest_token: no connection handler calls it.
McGuestToken(t) == Validates("mc", GuestTokenClaims, t) /\ GuestFields(t)

\* Mutant: the meeting named in the JoinRequest is not compared.
JoinAdmitsAny(t, m) == McMeetingToken(t)
\* The MC binds the token to the meeting of the JoinRequest.
JoinAdmits(t, m) == McMeetingToken(t) /\ t.meeting_id = m

-----------------------------------------------------------------------------
(* The auth controller signs. *)

\* The fields of two records.
With(f, g) == [k \in DOMAIN f \cup DOMAIN g |-> IF k \in DOMAIN f THEN f[k] ELSE g[k]]

\* sign_jwt and its kin put the key id into the header.
Sign(claims, life) ==
    /\ Cardinality(issued) < GMaxTokens
    /\ issued' = issued \cup {With(claims, [iat |-> Now("ac"), exp |-> Now("ac") + life, kid |-> "k"])}

ServiceType == {"global-controller", "meeting-controller", "media-handler"}

\* Mutant: the media handler is not given the MC's scope.
DefaultScopesFewer(s) == IF s = "global-controller" THEN {"service.write.mc", "internal:meeting-token"}
                         ELSE {"service.write.gc", "service.write.mh"}
DefaultScopes(s) ==
    CASE s = "global-controller"  -> {"service.write.mc", "internal:meeting-token"}
      [] s = "meeting-controller" -> {"service.write.mh", "service.write.gc"}
      [] s = "media-handler"      -> {"service.write.mc", "service.write.gc"}

\* issue_service_token, asked by a token manager for all its scopes.
IssueServiceToken(s) ==
    /\ Sign([sub |-> s, scope |-> DefaultScopes(s), service_type |-> s], TokenExpiry)
    /\ UNCHANGED <<clock, granted, seats>>

\* issue_user_token
IssueUserToken(u) ==
    /\ Sign([sub |-> u, org_id |-> OrgOf[u], email |-> u, roles |-> {"user"}, jti |-> clock], TokenExpiry)
    /\ UNCHANGED <<clock, granted, seats>>

\* Mutant: the requested lifetime is taken as it is.
TtlAsked == AskedTtl
Ttl == IF AskedTtl < MaxTtl THEN AskedTtl ELSE MaxTtl

\* handle_meeting_token and handle_guest_token
HandleMeetingToken(s, claims) ==
    /\ RequireServiceAuth(s) /\ InternalScope(s)
    /\ Sign(With(claims, [token_type |-> "meeting", jti |-> clock]), Ttl)
HandleGuestToken(s, claims) ==
    /\ RequireServiceAuth(s) /\ InternalScope(s)
    /\ Sign(With(claims, [token_type |-> "guest", participant_type |-> "guest", role |-> "guest",
                           capabilities |-> {"video", "audio"}, jti |-> clock]), Ttl)

\* The requests of the GC's AcClient carry the token of the GC's token manager.
Own(s) == s.sub = "global-controller"

\* join_meeting: the role is host for the creator of the meeting alone.
RoleOf(u, m) == IF CreatorOf[m] = u THEN "host" ELSE "participant"
Kind(t, m) == IF OrgOf[m] = t.org_id THEN "member" ELSE "external"
GateJoin(t, s, m) ==
    /\ RequireUserAuth(t)
    /\ Kind(t, m) = "member" \/ m \in External
    /\ Own(s)
    /\ HandleMeetingToken(s, [sub |-> t.sub, meeting_id |-> m, home_org_id |-> t.org_id,
                              meeting_org_id |-> OrgOf[m], participant_type |-> Kind(t, m),
                              role |-> RoleOf(t.sub, m), capabilities |-> {"video", "audio"}])
    /\ granted' = granted \cup {[sub |-> t.sub, room |-> m, role |-> RoleOf(t.sub, m), at |-> clock]}
    /\ UNCHANGED <<clock, seats>>

\* get_guest_token, for anybody; the settings that allow it are in Lobby.
GateGuest(p, s, m) ==
    /\ Own(s)
    /\ HandleGuestToken(s, [sub |-> p, meeting_id |-> m, meeting_org_id |-> OrgOf[m],
                            display_name |-> p, waiting_room |-> TRUE])
    /\ UNCHANGED <<clock, granted, seats>>

-----------------------------------------------------------------------------
(* The clients come in. *)

\* handle_connection of the MC up to the join: the role is the token's.
EnterMeeting(t, m) ==
    /\ JoinAdmits(t, m)
    /\ seats' = seats \cup {[sub |-> t.sub, room |-> m, host |-> t.role = "host", at |-> clock]}
    /\ UNCHANGED <<clock, issued, granted>>

\* handle_connection of the MH: the meeting is the token's.
ConnectMedia(t) ==
    /\ MhMeetingToken(t)
    /\ seats' = seats \cup {[sub |-> t.sub, room |-> t.meeting_id, host |-> FALSE, at |-> clock]}
    /\ UNCHANGED <<clock, issued, granted>>

\* Time passes, up to the bound.
GateTick ==
    /\ clock' = IF clock < GMaxTime THEN clock + 1 ELSE clock
    /\ UNCHANGED <<issued, granted, seats>>

GateNext ==
    \/ \E s \in ServiceType : IssueServiceToken(s)
    \/ \E u \in Person : IssueUserToken(u)
    \/ \E t, s \in issued, m \in GRoom : GateJoin(t, s, m)
    \/ \E p \in Person, s \in issued, m \in GRoom : GateGuest(p, s, m)
    \/ \E t \in issued, m \in GRoom : EnterMeeting(t, m)
    \/ \E t \in issued : ConnectMedia(t)
    \/ GateTick

GateSpec == GateInit /\ [][GateNext]_gateVars

-----------------------------------------------------------------------------
IsService(t) == t.sub \in ServiceType
IsGuest(t)   == "waiting_room" \in DOMAIN t
IsMeeting(t) == "meeting_id" \in DOMAIN t /\ ~IsGuest(t)
IsUser(t)    == ~IsService(t) /\ "meeting_id" \notin DOMAIN t

\* The calls the services make of one another: the client modules of each.
Calls == { <<"meeting-controller", "GlobalControllerService", "gc">>,
           <<"media-handler", "MediaHandlerRegistryService", "gc">>,
           <<"global-controller", "MeetingControllerService", "mc">>,
           <<"media-handler", "MediaCoordinationService", "mc">>,
           <<"meeting-controller", "MediaHandlerService", "mh">> }
Admitting(n, svc, t) ==
    CASE n = "gc" -> GrpcAuth(svc, t) [] n = "mc" -> McAuth(svc, t) [] n = "mh" -> MhAuth(svc, t)

(* A token opens what it was issued for and nothing else: the claims types of
   the validators keep user, meeting, guest and service tokens apart, and the
   auth layers keep the services apart although two share a scope. *)
PurposeKept ==
    \A t \in issued :
        /\ \A c \in Calls : Admitting(c[3], c[2], t) => IsService(t) /\ t.sub = c[1]
        /\ RequireServiceAuth(t) => IsService(t) /\ (InternalScope(t) => t.sub = "global-controller")
        /\ ~RequireAdminScope(t)
        /\ RequireAuth(t) => IsService(t)
        /\ RequireUserAuth(t) => IsUser(t)
        /\ McMeetingToken(t) \/ MhMeetingToken(t) => IsMeeting(t)
        /\ McGuestToken(t) => IsGuest(t)

(* Whoever is in a meeting or its media was let into that meeting by the GC, as
   host only as its creator, and not longer ago than a join token can last by
   any of the clocks involved. *)
EntryGranted ==
    \A s \in seats : \E g \in granted :
        /\ g.sub = s.sub /\ g.room = s.room /\ g.at <= s.at
        /\ s.host => g.role = "host" /\ CreatorOf[s.room] = s.sub
        /\ s.at <= g.at + MaxTtl + Leeway + Skew

(* The calls the services make of one another are admitted for as long as the
   caller's token lives, with the scopes its registration gave it and whatever
   the clocks are. *)
CallsServed ==
    \A t \in issued : IsService(t) =>
        /\ \A c \in Calls : t.sub = c[1] /\ Now(c[3]) <= t.exp => Admitting(c[3], c[2], t)
        /\ t.sub = "global-controller" /\ Now("ac") <= t.exp => RequireServiceAuth(t) /\ InternalScope(t)

(* Tokens open what they were issued for, seats go to those who were let in, and the
   services' own calls are not refused. *)
GateCorrect == PurposeKept /\ EntryGranted /\ CallsServed
=============================================================================
