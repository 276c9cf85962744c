------------------------------- MODULE Journey -------------------------------
(* A user's way through the services: log in at the auth controller (AC), join *)
(* at the global controller (GC), connect to the meeting controller (MC) and   *)
(* to a media handler (MH).  Each hop turns what went wrong behind it into an  *)
(* error of its own and that into an answer; in the meantime services go down  *)
(* and come back and cached keys expire.  The model keeps which error becomes  *)
(* which code, whose text is shown, and what the GC counts.                    *)
EXTENDS Naturals, FiniteSets

CONSTANTS
    MaxTroubles,       \* bound: how often something breaks
    MaxConnections     \* max_connections of the MH

ASSUME JourneyAssumption == MaxTroubles \in Nat /\ MaxConnections \in Nat \ {0}

VARIABLES
    visit,     \* where the user is; flaw: what is wrong with its own request; seen: what was broken meanwhile
    answer,    \* the answer that ended the visit, or Silent
    broken,    \* what is out of order
    troubles,  \* how often something broke
    fresh,     \* the services whose cached keys are fresh
    meter,     \* the GC's counters
    slots,     \* active_connections of the MH
    others     \* tasks of the MH's other connections
journeyVars == <<visit, answer, broken, troubles, fresh, meter, slots, others>>

\* What may break: the AC, its database or its master key, the GC's database, its own
\* token at the AC, or the token's scope, every MC as seen by the GC, the meeting's
\* actor, Redis, an MC that drains, and an MH that never learns of the meeting.  "keys":
\* the AC has rotated its key, and sound tokens and cached keys may not go together.
Thing == {"ac", "acdb", "master", "keys", "gcdb", "gctoken", "gcscope", "mcs", "meeting", "redis",
          "draining", "unregistered"}

JwtError == {"TokenTooLarge", "MalformedToken", "MissingKid", "IatTooFarInFuture",
             "InvalidSignature", "KeyNotFound", "ServiceUnavailable"}
TokenFlaw == {"large", "garbled", "nokid", "retired", "forged", "expired", "future", "wrongtype"}

\* A flaw is the user's own: a bad login, token or request at one of the services.
Flaw == ({"ac"} \X {"host", "org", "locked", "password"})
        \cup ({"gc"} \X ({"header", "absent", "ended", "external"} \cup TokenFlaw))
        \cup ({"mc"} \X ({"frame", "notjoin", "longname", "othermeeting"} \cup TokenFlaw))
        \cup ({"mh"} \X ({"frame"} \cup TokenFlaw))
        \cup {<<"none", "none">>}
Silent == [by |-> "none", code |-> 0, shows |-> "nothing", label |-> "none"]

(***************************************************************************)
(* The errors of the services and the answers they become.  An error is     *)
(* its kind and where its text comes from: written for the client ("own"),   *)
(* or taken over from a library or the inside of the service ("inner").  An  *)
(* answer is who gives it, its code, what text it shows and the error that   *)
(* the handler returns to the service.                                      *)
(***************************************************************************)
Err(kind, text) == [kind |-> kind, text |-> text]
Ok == Err("Ok", "own")

AcError == {"Database", "Crypto", "InvalidCredentials", "InsufficientScope", "InvalidToken",
            "NotFound", "RateLimitExceeded", "TooManyRequests", "Internal"}
GcError == {"Database", "InvalidToken", "NotFound", "Conflict", "RateLimitExceeded", "Forbidden",
            "BadRequest", "ServiceUnavailable", "Internal"}
McError == {"Redis", "Grpc", "NotRegistered", "Config", "InvalidArgument", "SessionBinding",
            "MeetingNotFound", "ParticipantNotFound", "MeetingCapacityExceeded", "McCapacityExceeded",
            "Draining", "Migrating", "FencedOut", "Conflict", "JwtValidation", "PermissionDenied",
            "MhAssignmentMissing", "Internal"}
MhError == {"Grpc", "NotRegistered", "Config", "Internal", "JwtValidation", "WebTransportError",
            "MeetingNotRegistered"}

AcStatus(e) ==
    CASE e.kind \in {"Database", "Crypto", "Internal"}            -> 500
      [] e.kind \in {"InvalidCredentials", "InvalidToken"}        -> 401
      [] e.kind = "InsufficientScope"                             -> 403
      [] e.kind = "NotFound"                                      -> 404
      [] e.kind \in {"RateLimitExceeded", "TooManyRequests"}      -> 429
AcResponse(e) ==
    [by |-> "ac", code |-> AcStatus(e), label |-> e.kind,
     shows |-> IF e.kind \in {"InsufficientScope", "InvalidToken", "NotFound", "TooManyRequests"}
               THEN e.text ELSE "generic"]

GcStatus(e) ==
    CASE e.kind \in {"Database", "Internal"} -> 500
      [] e.kind = "InvalidToken"             -> 401
      [] e.kind = "NotFound"                 -> 404
      [] e.kind = "Conflict"                 -> 409
      [] e.kind = "Forbidden"                -> 403
      [] e.kind = "BadRequest"               -> 400
      [] e.kind = "ServiceUnavailable"       -> 503
\* Mutant: the text of every error is shown.
ShowAll(e) == [by |-> "gc", code |-> GcStatus(e), label |-> e.kind, shows |-> e.text]
GcResponse(e) ==
    [by |-> "gc", code |-> GcStatus(e), label |-> e.kind,
     shows |-> IF e.kind \in {"InvalidToken", "NotFound", "Conflict", "Forbidden", "BadRequest"}
               THEN e.text ELSE "generic"]
\* Mutant: an auth controller that cannot be reached is a bad token.
AllInvalid(j) == Err("InvalidToken", "own")
GcOfJwt(j) == IF j = "ServiceUnavailable" THEN Err("ServiceUnavailable", "inner")
              ELSE Err("InvalidToken", "own")

McCode(e) ==
    CASE e.kind \in {"Redis", "Grpc", "Config", "InvalidArgument", "Internal", "FencedOut",
                     "NotRegistered", "MhAssignmentMissing"}                                -> 6
      [] e.kind \in {"SessionBinding", "JwtValidation"}                                     -> 2
      [] e.kind = "PermissionDenied"                                                        -> 3
      [] e.kind \in {"MeetingNotFound", "ParticipantNotFound"}                              -> 4
      [] e.kind = "Conflict"                                                                -> 5
      [] e.kind \in {"MeetingCapacityExceeded", "McCapacityExceeded", "Draining", "Migrating"} -> 7
McMessage(e) == IF e.kind \in {"SessionBinding", "Conflict", "PermissionDenied"} THEN e.text ELSE "generic"
McOfJwt(j) == IF j = "ServiceUnavailable" THEN Err("Internal", "own") ELSE Err("JwtValidation", "own")
SendError(code, shows, e) == [by |-> "mc", code |-> code, shows |-> shows, label |-> e.kind]
SendOwn(e) == SendError(McCode(e), McMessage(e), e)

\* The MH sends no errors: the client sees its connection close.
MhOfJwt(j) == IF j = "ServiceUnavailable" THEN Err("Internal", "own") ELSE Err("JwtValidation", "own")
Closed(by, e) == [by |-> by, code |-> 0, shows |-> "generic", label |-> e.kind]

\* What the AC's answer to the GC means to the GC's caller.
\* Mutant: the AC's answer is passed on.
PassedOn(status) ==
    CASE status = 200 -> Ok
      [] status = 401 -> Err("InvalidToken", "own")
      [] OTHER        -> Err("ServiceUnavailable", "own")
HandleResponse(status) ==
    CASE status = 200  -> Ok
      [] status >= 500 -> Err("ServiceUnavailable", "own")
      [] status = 403  -> Err("Forbidden", "own")
      [] status = 400  -> Err("BadRequest", "own")
      [] status = 401  -> Err("Internal", "own")
      [] OTHER         -> Err("Internal", "inner")

(***************************************************************************)
(* Validation of a token: structure first, then its key, from the cache or   *)
(* from the AC, then signature, times and the kind of claims.               *)
(***************************************************************************)
Fetchable == {"ac", "acdb"} \cap broken = {}
\* get_key looks no further than a fresh cache: a sound token whose key is not in it is
\* refused like one of a retired key.
Verdict(s, kind) ==
    CASE kind = "large"                       -> {"TokenTooLarge"}
      [] kind = "garbled"                     -> {"MalformedToken"}
      [] kind = "nokid"                       -> {"MissingKid"}
      [] s \notin fresh /\ ~Fetchable         -> {"ServiceUnavailable"}
      [] kind = "retired"                     -> {"KeyNotFound"}
      [] OTHER -> (IF "keys" \in broken THEN {"KeyNotFound"} ELSE {})
                  \cup {CASE kind \in {"forged", "expired", "wrongtype"} -> "InvalidSignature"
                          [] kind = "future"                             -> "IatTooFarInFuture"
                          [] OTHER                                       -> "Valid"}
\* Unless the token fails for its structure, a stale cache is fetched.
Fetches(s, kind) ==
    fresh' = IF kind \notin {"large", "garbled", "nokid"} /\ Fetchable THEN fresh \cup {s} ELSE fresh
FlawAt(s) == IF visit.flaw[1] = s THEN visit.flaw[2] ELSE "none"

-----------------------------------------------------------------------------
JourneyInit ==
    /\ \E f \in Flaw : visit = [at |-> "login", flaw |-> f, seen |-> {}]
    /\ answer = Silent
    /\ broken = {} /\ troubles = 0
    /\ fresh = {}
    /\ meter = [http |-> 0, httpError |-> 0, join |-> 0, joinError |-> 0, joinFailure |-> 0]
    /\ slots = 0 /\ others = 0

World == <<broken, troubles>>
Media == <<slots, others>>
Goes(place) == visit' = [visit EXCEPT !.at = place] /\ UNCHANGED answer
Ends(a) == visit' = [visit EXCEPT !.at = "out"] /\ answer' = a

\* AC: the organisation of the host name, the lockout, the password, the signing key.
LoginError ==
    CASE FlawAt("ac") = "host"     -> Err("InvalidToken", "own")
      [] "acdb" \in broken         -> Err("Database", "inner")
      [] FlawAt("ac") = "org"      -> Err("NotFound", "own")
      [] FlawAt("ac") = "locked"   -> Err("TooManyRequests", "own")
      [] FlawAt("ac") = "password" -> Err("InvalidCredentials", "own")
      [] "master" \in broken       -> Err("Crypto", "inner")
      [] OTHER                     -> Ok
Login ==
    /\ visit.at = "login" /\ "ac" \notin broken
    /\ IF LoginError = Ok THEN Goes("gc_auth") ELSE Ends(AcResponse(LoginError))
    /\ UNCHANGED <<World, fresh, meter, Media>>

(***************************************************************************)
(* GC.  The outermost layer counts every answer; the handler counts the     *)
(* join, and for a failure the reason as well.                              *)
(***************************************************************************)
RecordHttp(a) == [meter EXCEPT !.http = @ + 1, !.httpError = @ + (IF a.code >= 400 THEN 1 ELSE 0)]
\* Mutant: a failed join is counted without its reason.
RecordTotal(m, failed) == [m EXCEPT !.join = @ + 1, !.joinError = @ + (IF failed THEN 1 ELSE 0)]
RecordJoin(m, failed) ==
    [m EXCEPT !.join = @ + 1,
              !.joinError = @ + (IF failed THEN 1 ELSE 0),
              !.joinFailure = @ + (IF failed THEN 1 ELSE 0)]
JoinFails(e) == Ends(GcResponse(e)) /\ meter' = RecordJoin(RecordHttp(GcResponse(e)), TRUE)

\* require_user_auth
GcAuth ==
    /\ visit.at = "gc_auth"
    /\ \E j \in Verdict("gc", FlawAt("gc")) :
       LET kind == FlawAt("gc")
           e    == IF kind = "header" THEN Err("InvalidToken", "own") ELSE GcOfJwt(j)
       IN /\ IF kind # "header" THEN Fetches("gc", kind) ELSE UNCHANGED fresh
          /\ IF kind # "header" /\ j = "Valid"
             THEN Goes("gc_lookup") /\ UNCHANGED meter
             ELSE Ends(GcResponse(e)) /\ meter' = RecordHttp(GcResponse(e))
    /\ UNCHANGED <<World, Media>>

LookupError ==
    CASE "gcdb" \in broken                      -> Err("Database", "inner")
      [] FlawAt("gc") \in {"absent", "ended"}   -> Err("NotFound", "own")
      [] FlawAt("gc") = "external"              -> Err("Forbidden", "own")
      [] OTHER                                  -> Ok
GcLookup ==
    /\ visit.at = "gc_lookup"
    /\ IF LookupError = Ok THEN Goes("gc_assign") /\ UNCHANGED meter ELSE JoinFails(LookupError)
    /\ UNCHANGED <<World, fresh, Media>>

\* The meeting has a controller already, or one accepts the call: an MC checks the GC's
\* token first.  A failed or refused call is only a reason to try the next controller.
McAccepts ==
    /\ "mcs" \notin broken
    /\ "Valid" \in Verdict("mc", "none")
    /\ Fetches("mc", "none")
GcAssign ==
    /\ visit.at = "gc_assign"
    /\ \/ "gcdb" \in broken /\ JoinFails(Err("Database", "inner")) /\ UNCHANGED fresh
       \/ "gcdb" \notin broken /\ Goes("gc_token") /\ UNCHANGED meter
          /\ (McAccepts \/ UNCHANGED fresh)
       \/ "gcdb" \notin broken /\ JoinFails(Err("ServiceUnavailable", "own")) /\ UNCHANGED fresh
          /\ \/ "mcs" \in broken
             \/ Verdict("mc", "none") # {"Valid"}
             \/ "gctoken" \in broken
    /\ UNCHANGED <<World, Media>>

\* The AC's middleware and handler for the GC's internal request.
InternalTokenError ==
    CASE "acdb" \in broken    -> Err("Database", "inner")
      [] "gctoken" \in broken -> Err("InvalidToken", "own")
      [] "gcscope" \in broken -> Err("InsufficientScope", "own")
      [] "master" \in broken  -> Err("Crypto", "inner")
      [] OTHER                -> Ok
RequestTokenError ==
    IF "ac" \in broken THEN Err("ServiceUnavailable", "own")
    ELSE HandleResponse(IF InternalTokenError = Ok THEN 200 ELSE AcStatus(InternalTokenError))
GcToken ==
    /\ visit.at = "gc_token"
    /\ IF RequestTokenError = Ok
       THEN Goes("mc_read") /\ meter' = RecordJoin([meter EXCEPT !.http = @ + 1], FALSE)
       ELSE JoinFails(RequestTokenError)
    /\ UNCHANGED <<World, fresh, Media>>

\* Retries against what does not answer outlast the layer's 30 s: the handler is dropped
\* and the layer answers 408.
Slow == {"ac", "acdb", "gcdb", "mcs"}
GcTimeout ==
    /\ visit.at \in {"gc_lookup", "gc_assign", "gc_token"} /\ Slow \cap broken # {}
    /\ LET a == [by |-> "gc", code |-> 408, shows |-> "generic", label |-> "Timeout"] IN Ends(a) /\ meter' = RecordHttp(a)
    /\ UNCHANGED <<World, fresh, Media>>
\* The client goes away: the handler is dropped and nothing is counted.
GcDropped ==
    /\ visit.at \in {"gc_auth", "gc_lookup", "gc_assign", "gc_token"}
    /\ Ends(Closed("gc", Ok))
    /\ UNCHANGED <<World, fresh, meter, Media>>

(***************************************************************************)
(* MC: handle_connection up to the JoinResponse.                            *)
(***************************************************************************)
InvalidRequest == 1
Unauthorized == 2
McRead ==
    /\ visit.at = "mc_read"
    /\ CASE FlawAt("mc") = "frame"                    -> Ends(Closed("mc", Err("Internal", "inner")))
         [] FlawAt("mc") \in {"notjoin", "longname"}  -> Ends(SendError(InvalidRequest, "own", Err("Internal", "own")))
         [] OTHER                                     -> Goes("mc_auth")
    /\ UNCHANGED <<World, fresh, meter, Media>>
\* Whatever validation fails for, the client is told Unauthorized; McOfJwt's error
\* is returned to the accept loop and labels the counter.
McAuth ==
    /\ visit.at = "mc_auth"
    /\ Fetches("mc", FlawAt("mc"))
    /\ \E j \in Verdict("mc", FlawAt("mc")) :
       CASE j # "Valid" -> Ends(SendError(Unauthorized, "own", McOfJwt(j)))
         [] j = "Valid" /\ FlawAt("mc") = "othermeeting" -> Ends(SendError(Unauthorized, "own", Err("JwtValidation", "own")))
         [] OTHER -> Goes("mc_join")
    /\ UNCHANGED <<World, meter, Media>>
JoinError ==
    CASE "draining" \in broken -> Err("Draining", "own")
      [] "meeting" \in broken  -> Err("MeetingNotFound", "inner")
      [] "redis" \in broken    -> Err("Redis", "inner")
      [] OTHER                 -> Ok
McJoin ==
    /\ visit.at = "mc_join"
    /\ \/ JoinError = Ok /\ Goes("mh_accept")
       \/ JoinError # Ok /\ Ends(SendOwn(JoinError))
       \/ "meeting" \in broken /\ Ends(SendOwn(Err("Internal", "own")))    \* the reply was dropped
       \/ JoinError = Ok /\ "redis" \in visit.seen                         \* Redis has lost the assignment
          /\ Ends(SendOwn(Err("MhAssignmentMissing", "inner")))
    /\ UNCHANGED <<World, fresh, meter, Media>>

(***************************************************************************)
(* MH: the accept loop's counter, the token, the registration of the meeting.*)
(***************************************************************************)
AcceptLoop ==
    /\ visit.at = "mh_accept"
    /\ IF slots >= MaxConnections THEN Ends(Closed("mh", Ok)) /\ UNCHANGED slots
       ELSE Goes("mh_auth") /\ slots' = slots + 1
    /\ UNCHANGED <<World, fresh, meter, others>>
\* Mutant: only a connection that was served gives its slot back.
KeepSlot(a) == Ends(a) /\ slots' = IF visit.at = "in" THEN slots - 1 ELSE slots
MhEnds(a) == Ends(a) /\ slots' = slots - 1
MhAuth ==
    /\ visit.at = "mh_auth"
    /\ IF FlawAt("mh") = "frame" THEN UNCHANGED fresh ELSE Fetches("mh", FlawAt("mh"))
    /\ \E j \in Verdict("mh", FlawAt("mh")) :
       CASE FlawAt("mh") = "frame" -> MhEnds(Closed("mh", Err("WebTransportError", "own")))
         [] FlawAt("mh") # "frame" /\ j # "Valid" -> MhEnds(Closed("mh", MhOfJwt(j)))
         [] OTHER -> Goes("mh_wait") /\ UNCHANGED slots
    /\ UNCHANGED <<World, meter, others>>
MhRegistered ==
    /\ visit.at = "mh_wait"
    /\ IF "unregistered" \in broken THEN MhEnds(Closed("mh", Err("MeetingNotRegistered", "inner"))) ELSE Goes("in") /\ UNCHANGED slots
    /\ UNCHANGED <<World, fresh, meter, others>>
MhLeaves ==
    /\ visit.at = "in" /\ MhEnds(Silent)
    /\ UNCHANGED <<World, fresh, meter, others>>
OtherArrives ==
    /\ slots < MaxConnections /\ slots' = slots + 1 /\ others' = others + 1
    /\ UNCHANGED <<visit, answer, World, fresh, meter>>
OtherLeaves ==
    /\ others > 0 /\ slots' = slots - 1 /\ others' = others - 1
    /\ UNCHANGED <<visit, answer, World, fresh, meter>>

\* Something breaks or comes back; cached keys expire.
Breaks ==
    /\ visit.at # "out" /\ troubles < MaxTroubles
    /\ \E x \in Thing \ broken :
        /\ broken' = broken \cup {x}
        /\ visit' = [visit EXCEPT !.seen = @ \cup {x}]
    /\ troubles' = troubles + 1
    /\ UNCHANGED <<answer, fresh, meter, Media>>
Mends ==
    /\ visit.at # "out" /\ \E x \in broken : broken' = broken \ {x}
    /\ UNCHANGED <<visit, answer, troubles, fresh, meter, Media>>
Expire ==
    /\ visit.at # "out" /\ \E s \in fresh : fresh' = fresh \ {s}
    /\ UNCHANGED <<visit, answer, World, meter, Media>>

JourneyNext ==
    \/ Login \/ GcAuth \/ GcLookup \/ GcAssign \/ GcToken \/ GcTimeout \/ GcDropped
    \/ McRead \/ McAuth \/ McJoin
    \/ AcceptLoop \/ MhAuth \/ MhRegistered \/ MhLeaves \/ OtherArrives \/ OtherLeaves
    \/ Breaks \/ Mends \/ Expire
JourneySpec == JourneyInit /\ [][JourneyNext]_journeyVars

-----------------------------------------------------------------------------
Answered(S) == answer.by # "none" /\ answer.code \in S
Own == visit.flaw[1] = answer.by

JourneyTypeOK ==
    /\ visit.flaw \in Flaw /\ visit.seen \subseteq Thing /\ broken \subseteq Thing
    /\ fresh \subseteq {"gc", "mc", "mh"} /\ troubles \in 0..MaxTroubles
    /\ meter \in [http : Nat, httpError : Nat, join : Nat, joinError : Nat, joinFailure : Nat]
    /\ slots \in 0..MaxConnections /\ others \in Nat
    /\ answer.by \in {"ac", "gc", "mc", "mh", "none"}
    /\ answer.by = "ac" => answer.label \in AcError
    /\ answer.by = "gc" => answer.label \in GcError \cup {"Timeout", "Ok"}
    /\ answer.by = "mc" => answer.label \in McError
    /\ answer.by = "mh" => answer.label \in MhError \cup {"Ok"}
    /\ answer.by = "none" => answer.label = "none"

\* Nobody is blamed (bad request, unauthorized, forbidden) for what is broken elsewhere.
\* The code has three exceptions: a GC token without the scope is passed on as Forbidden,
\* the MC answers Unauthorized when it cannot fetch keys, and after a rotation a sound
\* token is refused by whoever has other keys cached.
FairBlame ==
    Answered({1, 2, 3, 400, 401, 403}) =>
        \/ Own
        \/ answer.by = "gc" /\ answer.code = 403 /\ "gcscope" \in visit.seen
        \/ answer.by = "mc" /\ answer.code = Unauthorized /\ visit.seen \cap {"ac", "acdb"} # {}
        \/ answer.by \in {"gc", "mc"} /\ answer.code \in {401, Unauthorized} /\ "keys" \in visit.seen
\* What is not found is not there, and an answer that blames the service, or none in
\* time, has a cause.
TrueOutage ==
    /\ Answered({4, 404}) => Own \/ "meeting" \in visit.seen
    /\ Answered({6, 7, 408, 500, 503}) => visit.seen # {}
\* The error that a handler returns, by which the service logs and labels the join, tells
\* a token that does not pass from an outage, at the MC and the MH too, where the client
\* cannot.  (Their counters of validations cannot either: one label for every failure.)
TrueLabel ==
    /\ answer.label \in {"JwtValidation", "InvalidToken"} => Own \/ "keys" \in visit.seen
    /\ answer.label \in {"Internal", "ServiceUnavailable", "Database", "Crypto", "Redis"} =>
        visit.seen # {} \/ (Own /\ visit.flaw[2] \in {"frame", "notjoin", "longname"})
\* No text from the inside of a service reaches a client.
Opaque == answer.shows # "inner"
\* Nobody whose request is flawed gets in.
NoneFlawedIn == visit.at = "in" => visit.flaw = <<"none", "none">>
\* The GC counts every answer it gives once, every join that ran to its end once, and
\* every failed join once with its reason.
Metered ==
    /\ meter.joinError = meter.joinFailure
    /\ meter.joinError <= meter.httpError /\ meter.join - meter.joinError = meter.http - meter.httpError
    /\ meter.http = IF \/ visit.at \in {"login", "gc_auth", "gc_lookup", "gc_assign", "gc_token"}
                       \/ answer.by = "ac" \/ (answer.by = "gc" /\ answer.code = 0)
                    THEN 0 ELSE 1
\* The accept loop's counter is the number of connections the MH has.
SlotsCounted == slots = others + (IF visit.at \in {"mh_auth", "mh_wait", "in"} THEN 1 ELSE 0)

\* errors.rs of the four services, ac_client.rs, connection.rs and server.rs: over every
\* chain of failures, whom an answer blames, what it gives away, and what is counted.
JourneyCorrect ==
    /\ JourneyTypeOK
    /\ FairBlame /\ TrueOutage /\ TrueLabel /\ Opaque /\ NoneFlawedIn
    /\ Metered /\ SlotsCounted
=============================================================================
