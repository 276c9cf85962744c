------------------------------ MODULE Settings ------------------------------
(***************************************************************************)
(* The settings of the four services: what Config::from_vars makes of the  *)
(* environment, what main does with it, and what the global controller     *)
(* keeps of a server that registers with it.                               *)
(*                                                                         *)
(* AC and GC are strict: a value that does not parse or is out of range    *)
(* ends the process.  MC and MH are lenient: they fall back to the         *)
(* default.  Numbers have the width of the code's types, scaled: Half32    *)
(* and Half64 stand for 2^31 and 2^63.  A text is "good", "empty", "long"  *)
(* (longer than a check or a column allows), "grpc" (a URL of that scheme) *)
(* or "bad" (no base64, no such file, no such scheme, wrong characters).   *)
(***************************************************************************)
EXTENDS Integers

CONSTANTS
    Half32, Half64,
    SkewDefault, SkewMax,       \* DEFAULT_CLOCK_SKEW, MAX_CLOCK_SKEW
    McSkewDefault,              \* DEFAULT_CLOCK_SKEW_SECONDS of the MC
    WaitDefault, WaitMax,       \* DEFAULT_ and MAX_REGISTER_MEETING_TIMEOUT_SECONDS
    Capacity,                   \* default of every capacity
    Unset,                      \* a variable that is not set
    Off,                        \* a service that does not run, a row that does not exist
    Tried,                      \* [variable -> values an operator sets it to]
    MaxSets                    \* bound: changes of the environment

ASSUME WidthAssumption ==
    /\ Half32 \in Nat /\ Half64 \in Nat /\ 0 < WaitMax /\ WaitMax < Half32 /\ Half32 < Half64
    /\ 0 < SkewDefault /\ SkewDefault <= SkewMax /\ SkewMax < Half32
    /\ SkewDefault \in Nat /\ SkewMax \in Nat /\ WaitMax \in Nat
    /\ McSkewDefault \in 0..SkewMax /\ WaitDefault \in 1..WaitMax /\ Capacity \in 1..(Half32 - 1)

Service == {"ac", "gc", "mc", "mh"}
U32 == 0..(2 * Half32 - 1)
U64 == 0..(2 * Half64 - 1)
\* `as i32` and `as i64` of an unsigned value.
AsI32(n) == IF n < Half32 THEN n ELSE n - 2 * Half32
AsI64(n) == IF n < Half64 THEN n ELSE n - 2 * Half64

\* The AC's limits: the cost of a password's hash, and windows (minutes) and attempts.
Limits ==
    [BCRYPT_COST                               |-> [min |-> 10, max |-> 14, default |-> 12],
     AC_RATE_LIMIT_WINDOW_MINUTES              |-> [min |-> 1, max |-> 60, default |-> 15],
     AC_RATE_LIMIT_MAX_ATTEMPTS                |-> [min |-> 1, max |-> 100, default |-> 5],
     AC_REGISTRATION_RATE_LIMIT_WINDOW_MINUTES |-> [min |-> 1, max |-> 1440, default |-> 60],
     AC_REGISTRATION_RATE_LIMIT_MAX_ATTEMPTS   |-> [min |-> 1, max |-> 100, default |-> 5]]

\* What each service must be given, and the texts that main or the GC looks at.
AcRequired == {"DATABASE_URL", "AC_MASTER_KEY"}
GcRequired == {"DATABASE_URL", "GC_CLIENT_ID", "GC_CLIENT_SECRET"}
McRequired ==
    {"REDIS_URL", "MC_BINDING_TOKEN_SECRET", "AC_ENDPOINT", "MC_CLIENT_ID", "MC_CLIENT_SECRET",
     "AC_JWKS_URL", "MC_TLS_CERT_PATH", "MC_TLS_KEY_PATH", "MC_GRPC_ADVERTISE_ADDRESS",
     "MC_WEBTRANSPORT_ADVERTISE_ADDRESS"}
MhRequired ==
    {"AC_ENDPOINT", "MH_CLIENT_ID", "MH_CLIENT_SECRET", "MH_TLS_CERT_PATH", "MH_TLS_KEY_PATH",
     "MH_GRPC_ADVERTISE_ADDRESS", "MH_WEBTRANSPORT_ADVERTISE_ADDRESS", "AC_JWKS_URL"}
Optional ==
    {"AC_HASH_SECRET", "MC_ID", "MC_REGION", "MH_HANDLER_ID", "MH_REGION"}
Numeric ==
    {"JWT_CLOCK_SKEW_SECONDS", "RATE_LIMIT_RPM", "MC_STALENESS_THRESHOLD_SECONDS",
     "GC_CLEANUP_INTERVAL_SECONDS", "MC_MAX_MEETINGS", "MC_MAX_PARTICIPANTS",
     "MC_CLOCK_SKEW_SECONDS", "MH_MAX_STREAMS", "MH_REGISTER_MEETING_TIMEOUT_SECONDS"}
    \cup DOMAIN Limits
Required == AcRequired \cup GcRequired \cup McRequired \cup MhRequired

VARIABLES
    env,     \* [variable -> Unset, a number or a text]
    cfg,     \* [Service -> the settings it runs with, or Off]
    mcRow,   \* the MC's row of meeting_controllers, or Off
    mhRow,   \* the MH's row of media_handlers, or Off
    signed,  \* servers that have registered since they started
    sets
\* Config of the services: the fields that anything depends on.
Text == {"good", "empty", "long", "grpc", "bad"}
AcSettings == [skew : Nat, limits : [DOMAIN Limits -> Nat]]
GcSettings == [skew : Nat, cleans : BOOLEAN, staleness : U64]
McSettings == [skew : Nat, id : Text, region : Text, grpc : Text, wt : Text, meetings : U32, participants : U32]
MhSettings == [skew : Nat, wait : Nat, id : Text, region : Text, grpc : Text, wt : Text, streams : U32]

ASSUME SettingsAssumption ==
    /\ MaxSets \in Nat
    /\ \A v \in DOMAIN Tried : v \in Required \cup Optional => Tried[v] \subseteq Text \cup {Unset}
    /\ Off \notin AcSettings \cup GcSettings \cup McSettings \cup MhSettings

settingsVars == <<env, cfg, mcRow, mhRow, signed, sets>>

SettingsInit ==
    /\ env = [v \in Required \cup Optional \cup Numeric |-> IF v \in Required THEN "good" ELSE Unset]
    /\ cfg = [s \in Service |-> Off]
    /\ mcRow = Off /\ mhRow = Off /\ signed = {} /\ sets = 0

-----------------------------------------------------------------------------
(* Reading a variable. *)

Given(vars) == \A v \in vars : env[v] # Unset

\* Strict: set and unusable ends the process.
Usable(v, lo, hi) == env[v] = Unset \/ env[v] \in lo..hi
Strict(v, default) == IF env[v] = Unset THEN default ELSE env[v]
\* Mutant: a value above the maximum is taken.
AnyLimit(v) == Usable(v, Limits[v].min, Half32)
\* Config::parse_rate_limit_i64
InLimit(v) == Usable(v, Limits[v].min, Limits[v].max)

\* Lenient: get(..).and_then(|s| s.parse().ok()).unwrap_or(default)
Lenient(v, type, default) == IF env[v] \in type THEN env[v] ELSE default

Optionally(v, default) == IF env[v] = Unset THEN default ELSE env[v]

-----------------------------------------------------------------------------
(* Config::from_vars of the services, and the checks main adds. *)

\* The keys: base64, exactly 32 bytes, and at least 32 if set.
AcSecrets == env["AC_MASTER_KEY"] = "good" /\ env["AC_HASH_SECRET"] \in {Unset, "good", "long"}
SkewUsable == Usable("JWT_CLOCK_SKEW_SECONDS", 1, SkewMax)
CostUsable == InLimit("BCRYPT_COST")
AcStarts ==
    /\ Given(AcRequired) /\ AcSecrets /\ SkewUsable /\ CostUsable
    /\ \A v \in DOMAIN Limits \ {"BCRYPT_COST"} : InLimit(v)
AcConfig ==
    [skew |-> Strict("JWT_CLOCK_SKEW_SECONDS", SkewDefault),
     limits |-> [v \in DOMAIN Limits |-> Strict(v, Limits[v].default)]]

\* Mutant: a validator takes the tolerance as it is.
Unclamped(n) == n
\* JwtValidator::new
Clamped(n) == IF n < 0 THEN 0 ELSE IF n > SkewMax THEN SkewMax ELSE n

\* Mutant: a threshold of zero is taken.
GcStartsZero ==
    /\ Given(GcRequired) /\ SkewUsable
    /\ Usable("RATE_LIMIT_RPM", 1, 2 * Half32 - 1)
    /\ Usable("MC_STALENESS_THRESHOLD_SECONDS", 0, 2 * Half64 - 1)
GcStarts ==
    /\ Given(GcRequired) /\ SkewUsable
    /\ Usable("RATE_LIMIT_RPM", 1, 2 * Half32 - 1)
    /\ Usable("MC_STALENESS_THRESHOLD_SECONDS", 1, 2 * Half64 - 1)
GcSkew == Clamped(Strict("JWT_CLOCK_SKEW_SECONDS", SkewDefault))
\* The cleanup task panics when its interval is zero: tokio::time::interval.
CleanupRuns == Lenient("GC_CLEANUP_INTERVAL_SECONDS", U64, 1) > 0
GcConfig ==
    [skew |-> GcSkew, cleans |-> CleanupRuns,
     staleness |-> Strict("MC_STALENESS_THRESHOLD_SECONDS", WaitDefault)]
\* What the health checkers subtract from the time of a check, which is a signed number:
\* servers whose last heartbeat is older are marked.  With less than 0 all of them are.
Threshold == AsI64(cfg["gc"].staleness)

\* The files must exist and the URL have a scheme; main decodes the secret.
McStarts ==
    /\ Given(McRequired)
    /\ env["AC_JWKS_URL"] = "good"
    /\ env["MC_TLS_CERT_PATH"] = "good" /\ env["MC_TLS_KEY_PATH"] = "good"
    /\ env["MC_BINDING_TOKEN_SECRET"] \in {"good", "long"}
McSkew == Clamped(AsI64(Lenient("MC_CLOCK_SKEW_SECONDS", U64, McSkewDefault)))
\* An id that is not set is made of the host's name and a random suffix.
McConfig ==
    [skew |-> McSkew,
     id |-> Optionally("MC_ID", "good"), region |-> Optionally("MC_REGION", "good"),
     grpc |-> env["MC_GRPC_ADVERTISE_ADDRESS"], wt |-> env["MC_WEBTRANSPORT_ADVERTISE_ADDRESS"],
     meetings |-> Lenient("MC_MAX_MEETINGS", U32, Capacity),
     participants |-> Lenient("MC_MAX_PARTICIPANTS", U32, Capacity)]

MhStarts ==
    /\ Given(MhRequired)
    /\ env["AC_JWKS_URL"] = "good"
    /\ env["MH_TLS_CERT_PATH"] = "good" /\ env["MH_TLS_KEY_PATH"] = "good"
\* Mutant: the maximum is forgotten.
AnyWait == Lenient("MH_REGISTER_MEETING_TIMEOUT_SECONDS", U64, WaitDefault)
MhWait ==
    LET n == Lenient("MH_REGISTER_MEETING_TIMEOUT_SECONDS", U64, WaitDefault)
    IN IF n < WaitMax THEN n ELSE WaitMax
MhConfig ==
    [skew |-> Clamped(SkewDefault), wait |-> MhWait,
     id |-> Optionally("MH_HANDLER_ID", "good"), region |-> Optionally("MH_REGION", "good"),
     grpc |-> env["MH_GRPC_ADVERTISE_ADDRESS"], wt |-> env["MH_WEBTRANSPORT_ADVERTISE_ADDRESS"],
     streams |-> Lenient("MH_MAX_STREAMS", U32, Capacity)]

\* A service is started, or started again; it exits when its settings are refused.
Launch(s) ==
    /\ cfg' = [cfg EXCEPT ![s] =
         CASE s = "ac" -> IF AcStarts THEN AcConfig ELSE Off
           [] s = "gc" -> IF GcStarts THEN GcConfig ELSE Off
           [] s = "mc" -> IF McStarts THEN McConfig ELSE Off
           [] s = "mh" -> IF MhStarts THEN MhConfig ELSE Off]
    /\ signed' = signed \ {s}
    /\ UNCHANGED <<env, mcRow, mhRow, sets>>

\* An operator changes a variable.
Set(v, raw) ==
    /\ sets' = sets + 1
    /\ env' = [env EXCEPT ![v] = raw]
    /\ UNCHANGED <<cfg, mcRow, mhRow, signed>>

-----------------------------------------------------------------------------
(* Registration with the GC. *)

\* validate_controller_id, validate_handler_id: 1 to 255 bytes of [alphanumeric-_]
ValidId(t) == t = "good"
\* validate_region: 1 to 50 bytes
ValidRegion(t) == t \notin {"empty", "long"}
\* validate_endpoint of the MC's service, and of the MH's, which also has grpc://
McEndpoint(t) == t = "good"
MhEndpoint(t) == t \in {"good", "grpc"}
\* Mutant: the capacity is cast, as the handlers' is.
Cast(n) == n # 0
\* validate_capacity and i32::try_from
ValidCapacity(n) == n \in 1..(Half32 - 1)

\* McService::register_mc: what it refuses leaves the row as it was, and the MC tries again.
RegisterMc ==
    /\ cfg["mc"] # Off /\ cfg["gc"] # Off
    /\ LET c == cfg["mc"] IN
        /\ ValidId(c.id) /\ ValidRegion(c.region) /\ McEndpoint(c.grpc)
        /\ c.wt = "empty" \/ McEndpoint(c.wt)
        /\ ValidCapacity(c.meetings) /\ ValidCapacity(c.participants)
        /\ mcRow' = [texts |-> {c.id, c.region, c.grpc, c.wt},
                     meetings |-> AsI32(c.meetings), participants |-> AsI32(c.participants)]
    /\ signed' = signed \cup {"mc"}
    /\ UNCHANGED <<env, cfg, mhRow, sets>>

\* MhService::register_mh
RegisterMh ==
    /\ cfg["mh"] # Off /\ cfg["gc"] # Off
    /\ LET c == cfg["mh"] IN
        /\ ValidId(c.id) /\ ValidRegion(c.region) /\ MhEndpoint(c.wt) /\ MhEndpoint(c.grpc)
        /\ c.streams # 0
        /\ mhRow' = [texts |-> {c.id, c.region, c.grpc, c.wt}, streams |-> AsI32(c.streams)]
    /\ signed' = signed \cup {"mh"}
    /\ UNCHANGED <<env, cfg, mcRow, sets>>

\* get_candidate_mhs: a handler without streams is a candidate.
Offered == mhRow # Off /\ 0 < mhRow.streams

SettingsNext ==
    \/ \E s \in Service : Launch(s)
    \/ sets < MaxSets /\ \E v \in DOMAIN Tried : \E raw \in Tried[v] : Set(v, raw)
    \/ RegisterMc \/ RegisterMh

-----------------------------------------------------------------------------
SettingsTypeOK ==
    /\ cfg["ac"] \in AcSettings \cup {Off} /\ cfg["gc"] \in GcSettings \cup {Off}
    /\ cfg["mc"] \in McSettings \cup {Off} /\ cfg["mh"] \in MhSettings \cup {Off}
    /\ signed \subseteq {"mc", "mh"} /\ sets \in 0..MaxSets

(* Whatever the environment says and however it changes between restarts: every
   token check tolerates at most MAX_CLOCK_SKEW although the MC casts what it was
   given, the AC's limits are within theirs, no client waits longer than
   MAX_REGISTER_MEETING_TIMEOUT_SECONDS for its meeting, and a health checker spares
   the servers of the last moment, unless the threshold was set to 2^63 or more: the
   cast then makes all servers stale (start_generic_health_checker). *)
WithinLimits ==
    /\ \A s \in Service : cfg[s] # Off => cfg[s].skew \in 0..SkewMax
    /\ cfg["ac"] # Off => \A v \in DOMAIN Limits : cfg["ac"].limits[v] \in Limits[v].min..Limits[v].max
    /\ cfg["mh"] # Off => cfg["mh"].wait \in 0..WaitMax
    /\ cfg["gc"] # Off => Threshold > 0 \/ cfg["gc"].staleness >= Half64

(* What the GC keeps of a server is what the server runs with: a registered MC has a
   positive capacity in its row, the one that it enforces itself, and so has a media
   handler that the GC offers, although a large MH_MAX_STREAMS is cast to a negative
   number (it is never offered then).  Texts are stored whole. *)
RowsHonest ==
    /\ \A row \in {mcRow, mhRow} \ {Off} : "long" \notin row.texts
    /\ mcRow # Off => mcRow.meetings > 0 /\ mcRow.participants > 0
    /\ "mc" \in signed => /\ mcRow.meetings = cfg["mc"].meetings
                          /\ mcRow.participants = cfg["mc"].participants
    /\ "mh" \in signed /\ Offered => mhRow.streams = cfg["mh"].streams

(* The settings are complete, within their limits, and what the GC knows. *)
SettingsCorrect == SettingsTypeOK /\ WithinLimits /\ RowsHonest
=============================================================================
