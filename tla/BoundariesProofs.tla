--------------------------- MODULE BoundariesProofs ---------------------------
(***************************************************************************)
(* The parts of MCBoundaries, proved for every value of their constants.   *)
(* The parts share no variable, so each has an invariant of its own, and   *)
(* the steps of the others leave it alone.                                 *)
(***************************************************************************)
EXTENDS MCBoundaries, TLAPS

-----------------------------------------------------------------------------
(* Settings.  What the environment holds is only known by its type; the     *)
(* settings a service runs with were checked when it started, and the rows  *)
(* of the GC follow them from each registration to the next start.          *)

SettingsTyped ==
    /\ DOMAIN env = Required \cup Optional \cup Numeric
    /\ \A v \in Required \cup Optional : env[v] \in Text \cup {Unset}
    /\ DOMAIN cfg = Service
    /\ SettingsTypeOK

SettingsInv == SettingsTyped /\ WithinLimits /\ RowsHonest

LEMMA LimitsFacts ==
    /\ DOMAIN Limits = {"BCRYPT_COST", "AC_RATE_LIMIT_WINDOW_MINUTES", "AC_RATE_LIMIT_MAX_ATTEMPTS",
                        "AC_REGISTRATION_RATE_LIMIT_WINDOW_MINUTES", "AC_REGISTRATION_RATE_LIMIT_MAX_ATTEMPTS"}
    /\ \A v \in DOMAIN Limits :
           /\ Limits[v].min \in Nat /\ Limits[v].max \in Nat
           /\ Limits[v].default \in Limits[v].min..Limits[v].max
  BY DEF Limits

\* Casts and clamps: whatever goes in, what comes out is in range.
LEMMA ClampFacts ==
    /\ \A n \in Int : Clamped(n) \in 0..SkewMax
    /\ \A n \in U64 : AsI64(n) \in Int
    /\ \A n \in U32 : 0 < AsI32(n) => AsI32(n) = n
    /\ \A n \in 1..(Half32 - 1) : AsI32(n) = n
  BY WidthAssumption DEF Clamped, AsI64, AsI32, U64, U32

LEMMA LenientFacts ==
    ASSUME NEW v, NEW T, NEW d \in T
    PROVE  Lenient(v, T, d) \in T
  BY DEF Lenient

\* An AC that starts has settings within their limits.
LEMMA AcLaunch ==
    ASSUME AcStarts
    PROVE  /\ AcConfig \in AcSettings
           /\ AcConfig.skew \in 0..SkewMax
           /\ \A v \in DOMAIN Limits : AcConfig.limits[v] \in Limits[v].min..Limits[v].max
<1>1. Strict("JWT_CLOCK_SKEW_SECONDS", SkewDefault) \in 0..SkewMax
  BY WidthAssumption DEF AcStarts, SkewUsable, Usable, Strict
<1>2. ASSUME NEW v \in DOMAIN Limits
      PROVE  /\ Strict(v, Limits[v].default) \in Limits[v].min..Limits[v].max
             /\ Strict(v, Limits[v].default) \in Nat
  <2>1. InLimit(v) BY LimitsFacts DEF AcStarts, CostUsable
  <2>2. Limits[v].min \in Nat /\ Limits[v].max \in Nat
        /\ Limits[v].default \in Limits[v].min..Limits[v].max BY LimitsFacts
  <2> QED BY <2>1, <2>2 DEF InLimit, Usable, Strict
<1>3. [v \in DOMAIN Limits |-> Strict(v, Limits[v].default)] \in [DOMAIN Limits -> Nat]
  BY <1>2
<1> QED BY <1>1, <1>2, <1>3, WidthAssumption DEF AcConfig, AcSettings

LEMMA GcLaunch ==
    ASSUME GcStarts
    PROVE  GcConfig \in GcSettings /\ GcConfig.skew \in 0..SkewMax
           /\ (AsI64(GcConfig.staleness) > 0 \/ GcConfig.staleness >= Half64)
<1>1. Strict("JWT_CLOCK_SKEW_SECONDS", SkewDefault) \in Int
  BY WidthAssumption DEF GcStarts, SkewUsable, Usable, Strict
<1>2. GcSkew \in 0..SkewMax BY <1>1, ClampFacts DEF GcSkew
<1>3. Strict("MC_STALENESS_THRESHOLD_SECONDS", WaitDefault) \in 1..(2 * Half64 - 1)
  BY WidthAssumption DEF GcStarts, Usable, Strict
<1>4. CleanupRuns \in BOOLEAN BY DEF CleanupRuns
<1> HIDE DEF GcSkew, CleanupRuns
<1>5. PICK n \in 1..(2 * Half64 - 1) : n = Strict("MC_STALENESS_THRESHOLD_SECONDS", WaitDefault) BY <1>3
<1>6. AsI64(n) > 0 \/ n >= Half64 BY WidthAssumption DEF AsI64
<1>7. GcConfig.staleness = n BY <1>5 DEF GcConfig
<1> QED BY <1>2, <1>4, <1>5, <1>6, <1>7, WidthAssumption DEF GcConfig, GcSettings, U64

LEMMA McLaunch ==
    ASSUME SettingsTyped, McStarts
    PROVE  McConfig \in McSettings /\ McConfig.skew \in 0..SkewMax
<1>1. McSkewDefault \in U64 /\ Capacity \in U32 BY WidthAssumption DEF U64, U32
<1>2. McSkew \in 0..SkewMax BY <1>1, LenientFacts, ClampFacts DEF McSkew
<1>3. /\ Lenient("MC_MAX_MEETINGS", U32, Capacity) \in U32
      /\ Lenient("MC_MAX_PARTICIPANTS", U32, Capacity) \in U32
  BY <1>1, LenientFacts
<1>4. /\ Optionally("MC_ID", "good") \in Text /\ Optionally("MC_REGION", "good") \in Text
      /\ env["MC_GRPC_ADVERTISE_ADDRESS"] \in Text /\ env["MC_WEBTRANSPORT_ADVERTISE_ADDRESS"] \in Text
  BY DEF SettingsTyped, McStarts, Given, McRequired, Required, Optional, Optionally, Text
<1> HIDE DEF McSkew
<1> QED BY <1>2, <1>3, <1>4, WidthAssumption DEF McConfig, McSettings

LEMMA MhLaunch ==
    ASSUME SettingsTyped, MhStarts
    PROVE  MhConfig \in MhSettings /\ MhConfig.skew \in 0..SkewMax /\ MhConfig.wait \in 0..WaitMax
<1>1. WaitDefault \in U64 /\ Capacity \in U32 BY WidthAssumption DEF U64, U32
<1>2. Clamped(SkewDefault) \in 0..SkewMax BY ClampFacts, WidthAssumption
<1>3. MhWait \in 0..WaitMax
  <2>1. Lenient("MH_REGISTER_MEETING_TIMEOUT_SECONDS", U64, WaitDefault) \in U64
    BY <1>1, LenientFacts
  <2> QED BY <2>1, WidthAssumption DEF MhWait, U64
<1>4. Lenient("MH_MAX_STREAMS", U32, Capacity) \in U32 BY <1>1, LenientFacts
<1>5. /\ Optionally("MH_HANDLER_ID", "good") \in Text /\ Optionally("MH_REGION", "good") \in Text
      /\ env["MH_GRPC_ADVERTISE_ADDRESS"] \in Text /\ env["MH_WEBTRANSPORT_ADVERTISE_ADDRESS"] \in Text
  BY DEF SettingsTyped, MhStarts, Given, MhRequired, Required, Optional, Optionally, Text
<1> HIDE DEF MhWait
<1> QED BY <1>2, <1>3, <1>4, <1>5, WidthAssumption DEF MhConfig, MhSettings

LEMMA SettingsStarts == SettingsInit => SettingsInv
<1> SUFFICES ASSUME SettingsInit PROVE SettingsInv OBVIOUS
<1>1. SettingsTyped
  BY SettingsAssumption DEF SettingsInit, SettingsTyped, SettingsTypeOK, Text, Service
<1>2. WithinLimits /\ RowsHonest
  BY DEF SettingsInit, WithinLimits, RowsHonest, Offered, Service
<1> QED BY <1>1, <1>2 DEF SettingsInv

LEMMA SettingsSteps ==
    ASSUME SettingsInv, [SettingsNext]_settingsVars
    PROVE  SettingsInv'
<1> USE SettingsAssumption
<1>1. ASSUME NEW s \in Service, Launch(s) PROVE SettingsInv'
  <2>1. PICK c : /\ cfg' = [cfg EXCEPT ![s] = c]
                 /\ c = CASE s = "ac" -> IF AcStarts THEN AcConfig ELSE Off
                          [] s = "gc" -> IF GcStarts THEN GcConfig ELSE Off
                          [] s = "mc" -> IF McStarts THEN McConfig ELSE Off
                          [] s = "mh" -> IF MhStarts THEN MhConfig ELSE Off
    BY <1>1 DEF Launch
  <2>2. cfg'[s] = c /\ DOMAIN cfg' = Service /\ \A t \in Service \ {s} : cfg'[t] = cfg[t]
    BY <2>1 DEF SettingsInv, SettingsTyped
  <2>3. /\ s = "ac" => c \in AcSettings \cup {Off}
        /\ s = "gc" => c \in GcSettings \cup {Off}
        /\ s = "mc" => c \in McSettings \cup {Off}
        /\ s = "mh" => c \in MhSettings \cup {Off}
        /\ c # Off => c.skew \in 0..SkewMax
        /\ c # Off /\ s = "ac" => \A v \in DOMAIN Limits : c.limits[v] \in Limits[v].min..Limits[v].max
        /\ c # Off /\ s = "mh" => c.wait \in 0..WaitMax
        /\ c # Off /\ s = "gc" => AsI64(c.staleness) > 0 \/ c.staleness >= Half64
    <3>1. CASE s = "ac" BY <2>1, <3>1, AcLaunch
    <3>2. CASE s = "gc" BY <2>1, <3>2, GcLaunch
    <3>3. CASE s = "mc" BY <2>1, <3>3, McLaunch DEF SettingsInv
    <3>4. CASE s = "mh" BY <2>1, <3>4, MhLaunch DEF SettingsInv
    <3> QED BY <3>1, <3>2, <3>3, <3>4 DEF Service
  <2>4. /\ signed' = signed \ {s}
        /\ env' = env /\ mcRow' = mcRow /\ mhRow' = mhRow /\ sets' = sets
    BY <1>1 DEF Launch
  <2>5. SettingsTyped' BY <2>2, <2>3, <2>4 DEF SettingsInv, SettingsTyped, SettingsTypeOK, Service
  <2>6. WithinLimits' BY <2>2, <2>3 DEF SettingsInv, WithinLimits, Threshold, Service
  <2>7. RowsHonest' BY <2>2, <2>4 DEF SettingsInv, RowsHonest, Offered, Service
  <2> QED BY <2>5, <2>6, <2>7 DEF SettingsInv
<1>2. ASSUME sets < MaxSets, NEW v \in DOMAIN Tried, NEW raw \in Tried[v], Set(v, raw)
      PROVE  SettingsInv'
  <2>1. /\ env' = [env EXCEPT ![v] = raw] /\ sets' = sets + 1
        /\ cfg' = cfg /\ mcRow' = mcRow /\ mhRow' = mhRow /\ signed' = signed
    BY <1>2 DEF Set
  <2>2. SettingsTyped' BY <1>2, <2>1 DEF SettingsInv, SettingsTyped, SettingsTypeOK
  <2>3. WithinLimits' /\ RowsHonest' BY <2>1 DEF SettingsInv, WithinLimits, Threshold, RowsHonest, Offered
  <2> QED BY <2>2, <2>3 DEF SettingsInv
<1>3. CASE RegisterMc
  <2> DEFINE c == cfg["mc"]
  <2>1. /\ c.id = "good" /\ c.region \notin {"empty", "long"} /\ c.grpc = "good"
        /\ c.wt \in {"empty", "good"}
        /\ c.meetings \in 1..(Half32 - 1) /\ c.participants \in 1..(Half32 - 1)
        /\ mcRow' = [texts |-> {c.id, c.region, c.grpc, c.wt},
                     meetings |-> AsI32(c.meetings), participants |-> AsI32(c.participants)]
        /\ signed' = signed \cup {"mc"}
        /\ env' = env /\ cfg' = cfg /\ mhRow' = mhRow /\ sets' = sets
    BY <1>3 DEF RegisterMc, ValidId, ValidRegion, McEndpoint, ValidCapacity
  <2>2. AsI32(c.meetings) = c.meetings /\ AsI32(c.participants) = c.participants
    BY <2>1, ClampFacts
  <2>3. /\ "long" \notin mcRow'.texts
        /\ mcRow'.meetings = c.meetings /\ mcRow'.participants = c.participants
    BY <2>1, <2>2
  <2>4. SettingsTyped' BY <2>1 DEF SettingsInv, SettingsTyped, SettingsTypeOK
  <2>5. WithinLimits' BY <2>1 DEF SettingsInv, WithinLimits, Threshold
  <2>6. mcRow'.meetings > 0 /\ mcRow'.participants > 0 BY <2>1, <2>3, WidthAssumption
  <2>7. RowsHonest' BY <2>1, <2>3, <2>6 DEF SettingsInv, RowsHonest, Offered
  <2> QED BY <2>4, <2>5, <2>7 DEF SettingsInv
<1>4. CASE RegisterMh
  <2> DEFINE c == cfg["mh"]
  <2>1. /\ c.id = "good" /\ c.region \notin {"empty", "long"}
        /\ c.grpc \in {"good", "grpc"} /\ c.wt \in {"good", "grpc"}
        /\ mhRow' = [texts |-> {c.id, c.region, c.grpc, c.wt}, streams |-> AsI32(c.streams)]
        /\ signed' = signed \cup {"mh"}
        /\ env' = env /\ cfg' = cfg /\ mcRow' = mcRow /\ sets' = sets
        /\ c # Off
    BY <1>4 DEF RegisterMh, ValidId, ValidRegion, MhEndpoint
  <2>2. c.streams \in U32 BY <2>1 DEF SettingsInv, SettingsTyped, SettingsTypeOK, MhSettings
  <2>3. "long" \notin mhRow'.texts /\ (0 < mhRow'.streams => mhRow'.streams = c.streams)
    BY <2>1, <2>2, ClampFacts
  <2>4. SettingsTyped' BY <2>1 DEF SettingsInv, SettingsTyped, SettingsTypeOK
  <2>5. WithinLimits' BY <2>1 DEF SettingsInv, WithinLimits, Threshold
  <2>6. RowsHonest' BY <2>1, <2>3 DEF SettingsInv, RowsHonest, Offered
  <2> QED BY <2>4, <2>5, <2>6 DEF SettingsInv
<1>5. CASE UNCHANGED settingsVars
  BY <1>5 DEF settingsVars, SettingsInv, SettingsTyped, SettingsTypeOK, WithinLimits, Threshold, RowsHonest, Offered
<1> QED BY <1>1, <1>2, <1>3, <1>4, <1>5 DEF SettingsNext

\* Whatever operators set and however often services are started: skews, limits and waits
\* stay within their maxima, the GC's staleness threshold is positive below 2^63, and the
\* GC's rows say what the servers run with.
THEOREM SettingsSoundProved == Spec => []SettingsSound
<1> DEFINE Inv == part = "settings" => SettingsInv
<1>1. Init => Inv BY SettingsStarts DEF Init
<1>2. Inv /\ [Next]_partVars => Inv'
  <2> SUFFICES ASSUME Inv, [Next]_partVars, part' = "settings" PROVE SettingsInv' OBVIOUS
  <2>1. part = "settings" /\ [SettingsNext]_settingsVars
    BY DEF Next, partVars
  <2> QED BY <2>1, SettingsSteps
<1>3. Inv => SettingsSound BY DEF SettingsSound, SettingsCorrect, SettingsInv, SettingsTyped
<1> QED BY <1>1, <1>2, <1>3, PTL DEF Spec

-----------------------------------------------------------------------------
(* The journey.  An answer ends the visit and nothing breaks or comes back   *)
(* afterwards, so all that has to be known is: what was wrong with the       *)
(* request is still wrong at every hop that did not look at it yet and was   *)
(* ruled out by those that did, whatever is broken was seen to break, and    *)
(* every answer fits what is known when it is given.                         *)

Place == {"login", "gc_auth", "gc_lookup", "gc_assign", "gc_token", "mc_read", "mc_auth", "mc_join",
          "mh_accept", "mh_auth", "mh_wait", "in", "out"}
Early == {"login", "gc_auth", "gc_lookup", "gc_assign", "gc_token"}
Late == {"mc_read", "mc_auth", "mc_join", "mh_accept", "mh_auth", "mh_wait", "in"}

\* What makes a an answer that fits the visit: whom it blames, and for what.
Fits(a) ==
    /\ a.by \in {"ac", "gc", "mc", "mh", "none"} /\ a.shows # "inner"
    /\ a.by = "ac" => a.label \in AcError
    /\ a.by = "gc" => a.label \in GcError \cup {"Timeout", "Ok"}
    /\ a.by = "mc" => a.label \in McError
    /\ a.by = "mh" => a.label \in MhError \cup {"Ok"}
    /\ a.by = "none" => a.label = "none"
    /\ a.by # "none" /\ a.code \in {1, 2, 3, 400, 401, 403} =>
        \/ visit.flaw[1] = a.by
        \/ a.by = "gc" /\ a.code = 403 /\ "gcscope" \in visit.seen
        \/ a.by = "mc" /\ a.code = 2 /\ visit.seen \cap {"ac", "acdb"} # {}
        \/ a.by \in {"gc", "mc"} /\ a.code \in {401, 2} /\ "keys" \in visit.seen
    /\ a.by # "none" /\ a.code \in {4, 404} => visit.flaw[1] = a.by \/ "meeting" \in visit.seen
    /\ a.by # "none" /\ a.code \in {6, 7, 408, 500, 503} => visit.seen # {}
    /\ a.label \in {"JwtValidation", "InvalidToken"} => visit.flaw[1] = a.by \/ "keys" \in visit.seen
    /\ a.label \in {"Internal", "ServiceUnavailable", "Database", "Crypto", "Redis"} =>
        visit.seen # {} \/ (visit.flaw[1] = a.by /\ visit.flaw[2] \in {"frame", "notjoin", "longname"})

JourneyTyped ==
    /\ visit \in [at : Place, flaw : Flaw, seen : SUBSET Thing]
    /\ broken \subseteq visit.seen
    /\ fresh \subseteq {"gc", "mc", "mh"} /\ troubles \in 0..MaxTroubles
    /\ slots \in 0..MaxConnections /\ others \in Nat

\* What the hops behind the visit have ruled out.
Cleared ==
    /\ visit.at \notin {"login", "out"} => visit.flaw[1] # "ac"
    /\ visit.at = "gc_lookup" => FlawAt("gc") \in {"none", "absent", "ended", "external"}
    /\ visit.at \in {"gc_assign", "gc_token"} \cup Late => visit.flaw[1] # "gc"
    /\ visit.at = "mc_auth" => FlawAt("mc") \notin {"frame", "notjoin", "longname"}
    /\ visit.at \in {"mc_join", "mh_accept", "mh_auth", "mh_wait", "in"} => visit.flaw[1] # "mc"
    /\ visit.at \in {"mh_wait", "in"} => visit.flaw[1] # "mh"

Tally(http, httpError, join, failed) ==
    [http |-> http, httpError |-> httpError, join |-> join, joinError |-> failed, joinFailure |-> failed]
Counted ==
    /\ visit.at \in Early => meter = Tally(0, 0, 0, 0)
    /\ visit.at \in Late => meter = Tally(1, 0, 1, 0)
    /\ visit.at = "out" =>
        \/ meter = Tally(0, 0, 0, 0) /\ (answer.by = "ac" \/ (answer.by = "gc" /\ answer.code = 0))
        \/ meter \in {Tally(1, 1, 0, 0), Tally(1, 1, 1, 1)} /\ answer.by = "gc" /\ answer.code # 0
        \/ meter = Tally(1, 0, 1, 0) /\ answer.by \notin {"ac", "gc"}

JourneyInv ==
    /\ JourneyTyped /\ Cleared /\ Counted /\ SlotsCounted
    /\ (visit.at # "out" => answer = Silent) /\ Fits(answer)

LEMMA FlawFacts ==
    ASSUME NEW f \in Flaw
    PROVE  /\ f[1] \in {"ac", "gc", "mc", "mh", "none"}
           /\ f[1] = "ac" => f[2] \in {"host", "org", "locked", "password"}
           /\ f[1] = "gc" => f[2] \in {"header", "absent", "ended", "external"} \cup TokenFlaw
           /\ f[1] = "mc" => f[2] \in {"frame", "notjoin", "longname", "othermeeting"} \cup TokenFlaw
           /\ f[1] = "mh" => f[2] \in {"frame"} \cup TokenFlaw
           /\ f[1] = "none" => f = <<"none", "none">>
  BY DEF Flaw

\* A flaw that shows at s is the user's own and is s's to name.
LEMMA FlawAtFacts ==
    ASSUME NEW s, FlawAt(s) # "none"
    PROVE  visit.flaw[1] = s /\ visit.flaw[2] = FlawAt(s)
  BY DEF FlawAt

LEMMA VerdictFacts ==
    ASSUME NEW s, NEW kind, NEW j \in Verdict(s, kind)
    PROVE  /\ j = "Valid" => kind \notin TokenFlaw
           /\ j = "ServiceUnavailable" => broken \cap {"ac", "acdb"} # {}
           /\ j \notin {"Valid", "ServiceUnavailable"} => kind \in TokenFlaw \/ "keys" \in broken
  BY DEF Verdict, TokenFlaw, Fetchable

LEMMA FetchesFacts ==
    ASSUME NEW s \in {"gc", "mc", "mh"}, NEW kind, Fetches(s, kind), fresh \subseteq {"gc", "mc", "mh"}
    PROVE  fresh' \subseteq {"gc", "mc", "mh"}
  BY DEF Fetches

\* The answers of the AC and of the GC, error by error.
LEMMA AcAnswers ==
    /\ AcResponse(Err("InvalidToken", "own")) = [by |-> "ac", code |-> 401, label |-> "InvalidToken", shows |-> "own"]
    /\ AcResponse(Err("Database", "inner")) = [by |-> "ac", code |-> 500, label |-> "Database", shows |-> "generic"]
    /\ AcResponse(Err("NotFound", "own")) = [by |-> "ac", code |-> 404, label |-> "NotFound", shows |-> "own"]
    /\ AcResponse(Err("TooManyRequests", "own")) = [by |-> "ac", code |-> 429, label |-> "TooManyRequests", shows |-> "own"]
    /\ AcResponse(Err("InvalidCredentials", "own")) = [by |-> "ac", code |-> 401, label |-> "InvalidCredentials", shows |-> "generic"]
    /\ AcResponse(Err("Crypto", "inner")) = [by |-> "ac", code |-> 500, label |-> "Crypto", shows |-> "generic"]
  BY DEF AcResponse, AcStatus, Err
LEMMA GcAnswers ==
    /\ GcResponse(Err("InvalidToken", "own")) = [by |-> "gc", code |-> 401, label |-> "InvalidToken", shows |-> "own"]
    /\ GcResponse(Err("ServiceUnavailable", "inner")) = [by |-> "gc", code |-> 503, label |-> "ServiceUnavailable", shows |-> "generic"]
    /\ GcResponse(Err("ServiceUnavailable", "own")) = [by |-> "gc", code |-> 503, label |-> "ServiceUnavailable", shows |-> "generic"]
    /\ GcResponse(Err("Database", "inner")) = [by |-> "gc", code |-> 500, label |-> "Database", shows |-> "generic"]
    /\ GcResponse(Err("Internal", "own")) = [by |-> "gc", code |-> 500, label |-> "Internal", shows |-> "generic"]
    /\ GcResponse(Err("NotFound", "own")) = [by |-> "gc", code |-> 404, label |-> "NotFound", shows |-> "own"]
    /\ GcResponse(Err("Forbidden", "own")) = [by |-> "gc", code |-> 403, label |-> "Forbidden", shows |-> "own"]
  BY DEF GcResponse, GcStatus, Err
LEMMA McAnswers ==
    /\ SendOwn(Err("Draining", "own")) = [by |-> "mc", code |-> 7, shows |-> "generic", label |-> "Draining"]
    /\ SendOwn(Err("MeetingNotFound", "inner")) = [by |-> "mc", code |-> 4, shows |-> "generic", label |-> "MeetingNotFound"]
    /\ SendOwn(Err("Redis", "inner")) = [by |-> "mc", code |-> 6, shows |-> "generic", label |-> "Redis"]
    /\ SendOwn(Err("Internal", "own")) = [by |-> "mc", code |-> 6, shows |-> "generic", label |-> "Internal"]
    /\ SendOwn(Err("MhAssignmentMissing", "inner")) = [by |-> "mc", code |-> 6, shows |-> "generic", label |-> "MhAssignmentMissing"]
  BY DEF SendOwn, SendError, McCode, McMessage, Err

\* One step of the visit to its next place, or to its end with an answer that fits.
LEMMA GoesKeeps ==
    ASSUME JourneyInv, NEW p \in Place \ {"out"}, Goes(p), visit.at # "out"
    PROVE  /\ visit' \in [at : Place, flaw : Flaw, seen : SUBSET Thing]
           /\ visit'.at = p /\ visit'.flaw = visit.flaw /\ visit'.seen = visit.seen
           /\ answer' = Silent /\ Fits(answer)'
<1>1. /\ visit \in [at : Place, flaw : Flaw, seen : SUBSET Thing]
      /\ visit' = [visit EXCEPT !.at = p] /\ answer' = answer /\ answer = Silent
  BY DEF JourneyInv, JourneyTyped, Goes
<1>2. /\ visit' \in [at : Place, flaw : Flaw, seen : SUBSET Thing]
      /\ visit'.at = p /\ visit'.flaw = visit.flaw /\ visit'.seen = visit.seen
  BY <1>1
<1>3. Fits(answer)' BY <1>1, <1>2 DEF JourneyInv, Fits
<1> QED BY <1>1, <1>2, <1>3

LEMMA EndsKeeps ==
    ASSUME JourneyInv, NEW a, Fits(a), Ends(a)
    PROVE  /\ visit' \in [at : Place, flaw : Flaw, seen : SUBSET Thing]
           /\ visit'.at = "out" /\ visit'.flaw = visit.flaw /\ visit'.seen = visit.seen
           /\ answer' = a /\ Fits(answer)' /\ Cleared'
<1>1. /\ visit \in [at : Place, flaw : Flaw, seen : SUBSET Thing]
      /\ visit' = [visit EXCEPT !.at = "out"] /\ answer' = a
  BY DEF JourneyInv, JourneyTyped, Ends
<1>2. /\ visit' \in [at : Place, flaw : Flaw, seen : SUBSET Thing]
      /\ visit'.at = "out" /\ visit'.flaw = visit.flaw /\ visit'.seen = visit.seen
  BY <1>1 DEF Place
<1>3. Fits(answer)' BY <1>1, <1>2 DEF Fits
<1>4. Cleared' BY <1>2 DEF Cleared, Late
<1> QED BY <1>1, <1>2, <1>3, <1>4

\* The steps of the visit that count nothing and take no slot.
LEMMA PlainSteps ==
    ASSUME JourneyInv, UNCHANGED <<World, meter, Media>>, fresh' \subseteq {"gc", "mc", "mh"},
           visit' \in [at : Place, flaw : Flaw, seen : SUBSET Thing],
           visit'.seen = visit.seen, visit.at # "out",
           visit.at \notin {"mh_auth", "mh_wait", "in"}, visit'.at \notin {"mh_auth", "mh_wait", "in"},
           Cleared', Fits(answer)', visit'.at # "out" => answer' = Silent,
           \/ visit'.at \in Early /\ visit.at \in Early
           \/ visit'.at \in Late /\ visit.at \in Late
           \/ visit'.at = "out" /\ visit.at \in Early /\ (answer'.by = "ac" \/ (answer'.by = "gc" /\ answer'.code = 0))
           \/ visit'.at = "out" /\ visit.at \in Late /\ answer'.by \notin {"ac", "gc"}
    PROVE  JourneyInv'
<1>1. JourneyTyped' BY DEF JourneyInv, JourneyTyped, World, Media
<1>2. SlotsCounted' BY DEF JourneyInv, SlotsCounted, Media
<1>3. Counted'
  <2>1. CASE visit'.at \in Early /\ visit.at \in Early
    BY <2>1 DEF JourneyInv, Counted, Early, Late
  <2>2. CASE visit'.at \in Late /\ visit.at \in Late
    BY <2>2 DEF JourneyInv, Counted, Early, Late
  <2>3. CASE visit'.at = "out" /\ visit.at \in Early /\ (answer'.by = "ac" \/ (answer'.by = "gc" /\ answer'.code = 0))
    BY <2>3 DEF JourneyInv, Counted, Early, Late
  <2>4. CASE visit'.at = "out" /\ visit.at \in Late /\ answer'.by \notin {"ac", "gc"}
    BY <2>4 DEF JourneyInv, Counted, Early, Late
  <2> QED BY <2>1, <2>2, <2>3, <2>4
<1> QED BY <1>1, <1>2, <1>3 DEF JourneyInv

LEMMA LoginFits ==
    ASSUME JourneyInv, LoginError # Ok
    PROVE  Fits(AcResponse(LoginError)) /\ AcResponse(LoginError).by = "ac"
<1>1. \/ LoginError = Err("InvalidToken", "own") /\ FlawAt("ac") # "none"
      \/ LoginError = Err("NotFound", "own") /\ FlawAt("ac") # "none"
      \/ LoginError = Err("TooManyRequests", "own")
      \/ LoginError = Err("InvalidCredentials", "own") /\ FlawAt("ac") # "none"
      \/ LoginError = Err("Database", "inner") /\ broken # {}
      \/ LoginError = Err("Crypto", "inner") /\ broken # {}
  BY DEF LoginError
<1>2. broken # {} => visit.seen # {} BY DEF JourneyInv, JourneyTyped
<1>3. FlawAt("ac") # "none" => visit.flaw[1] = "ac" BY FlawAtFacts
<1>4. PICK a : a = AcResponse(LoginError) OBVIOUS
<1>5. \/ a = AcResponse(Err("InvalidToken", "own")) /\ FlawAt("ac") # "none"
      \/ a = AcResponse(Err("NotFound", "own")) /\ FlawAt("ac") # "none"
      \/ a = AcResponse(Err("TooManyRequests", "own"))
      \/ a = AcResponse(Err("InvalidCredentials", "own")) /\ FlawAt("ac") # "none"
      \/ a = AcResponse(Err("Database", "inner")) /\ broken # {}
      \/ a = AcResponse(Err("Crypto", "inner")) /\ broken # {}
  BY <1>1, <1>4
<1>6. \/ a = [by |-> "ac", code |-> 401, label |-> "InvalidToken", shows |-> "own"] /\ visit.flaw[1] = "ac"
      \/ a = [by |-> "ac", code |-> 404, label |-> "NotFound", shows |-> "own"] /\ visit.flaw[1] = "ac"
      \/ a = [by |-> "ac", code |-> 429, label |-> "TooManyRequests", shows |-> "own"]
      \/ a = [by |-> "ac", code |-> 401, label |-> "InvalidCredentials", shows |-> "generic"] /\ visit.flaw[1] = "ac"
      \/ a = [by |-> "ac", code |-> 500, label |-> "Database", shows |-> "generic"] /\ visit.seen # {}
      \/ a = [by |-> "ac", code |-> 500, label |-> "Crypto", shows |-> "generic"] /\ visit.seen # {}
  BY <1>2, <1>3, <1>5, AcAnswers
<1>7. Fits(a) /\ a.by = "ac" BY <1>6 DEF Fits, AcError
<1> QED BY <1>4, <1>7

LEMMA LoginKeeps == ASSUME JourneyInv, Login PROVE JourneyInv'
<1>1. CASE LoginError = Ok
  <2>1. Goes("gc_auth") BY <1>1 DEF Login
  <2>2. FlawAt("ac") \notin {"host", "org", "locked", "password"} BY <1>1 DEF LoginError, Ok, Err
  <2>3. visit.flaw[1] # "ac" BY <2>2, FlawFacts DEF FlawAt, JourneyInv, JourneyTyped
  <2>4. visit.at = "login" /\ UNCHANGED <<World, fresh, meter, Media>> BY DEF Login
  <2>5. /\ visit' \in [at : Place, flaw : Flaw, seen : SUBSET Thing]
        /\ visit'.at = "gc_auth" /\ visit'.flaw = visit.flaw /\ visit'.seen = visit.seen
        /\ answer' = Silent /\ Fits(answer)'
    BY <2>1, <2>4, GoesKeeps DEF Place
  <2>6. Cleared' BY <2>3, <2>5 DEF Cleared, Late
  <2>7. fresh' \subseteq {"gc", "mc", "mh"} BY <2>4 DEF JourneyInv, JourneyTyped
  <2> QED BY <2>4, <2>5, <2>6, <2>7, PlainSteps DEF Early
<1>2. CASE LoginError # Ok
  <2>1. Ends(AcResponse(LoginError)) BY <1>2 DEF Login
  <2>2. Fits(AcResponse(LoginError)) /\ AcResponse(LoginError).by = "ac" BY <1>2, LoginFits
  <2>3. visit.at = "login" /\ UNCHANGED <<World, fresh, meter, Media>> BY DEF Login
  <2>4. fresh' \subseteq {"gc", "mc", "mh"} BY <2>3 DEF JourneyInv, JourneyTyped
  <2> QED BY <2>1, <2>2, <2>3, <2>4, EndsKeeps, PlainSteps DEF Early
<1> QED BY <1>1, <1>2

\* What the counters are after they are increased.
LEMMA HttpTally ==
    ASSUME NEW m, m \in [http : Nat, httpError : Nat, join : Nat, joinError : Nat, joinFailure : Nat],
           NEW h, NEW x, NEW y, h = [m EXCEPT !.http = x, !.httpError = y]
    PROVE  h = [http |-> x, httpError |-> y, join |-> m.join, joinError |-> m.joinError, joinFailure |-> m.joinFailure]
  BY ZenonT(30)
LEMMA JoinTally ==
    ASSUME NEW m, m \in [http : Nat, httpError : Nat, join : Nat, joinError : Nat, joinFailure : Nat],
           NEW h, NEW x, NEW y, NEW z, h = [m EXCEPT !.join = x, !.joinError = y, !.joinFailure = z]
    PROVE  h = [http |-> m.http, httpError |-> m.httpError, join |-> x, joinError |-> y, joinFailure |-> z]
  OBVIOUS
LEMMA TallyTyped ==
    ASSUME NEW a \in Nat, NEW b \in Nat, NEW c \in Nat, NEW d \in Nat
    PROVE  /\ Tally(a, b, c, d) \in [http : Nat, httpError : Nat, join : Nat, joinError : Nat, joinFailure : Nat]
           /\ Tally(a, b, c, d).http = a /\ Tally(a, b, c, d).httpError = b /\ Tally(a, b, c, d).join = c
           /\ Tally(a, b, c, d).joinError = d /\ Tally(a, b, c, d).joinFailure = d
  BY DEF Tally

\* An answer of the GC that is an error is counted, with or without a join.
LEMMA GcEnds ==
    ASSUME JourneyInv, visit.at \in Early, NEW a, Fits(a), a.by = "gc", a.code \in Nat, a.code >= 400,
           Ends(a), UNCHANGED <<World, Media>>, fresh' \subseteq {"gc", "mc", "mh"},
           meter' = RecordHttp(a) \/ meter' = RecordJoin(RecordHttp(a), TRUE)
    PROVE  JourneyInv'
<1>1. /\ visit' \in [at : Place, flaw : Flaw, seen : SUBSET Thing]
      /\ visit'.at = "out" /\ visit'.seen = visit.seen
      /\ answer' = a /\ Fits(answer)' /\ Cleared'
  BY EndsKeeps
<1>2. meter = Tally(0, 0, 0, 0) BY DEF JourneyInv, Counted
<1>3. meter' \in {Tally(1, 1, 0, 0), Tally(1, 1, 1, 1)}
  <2>1. PICK h : h = RecordHttp(a) OBVIOUS
  <2>2. h = [meter EXCEPT !.http = meter.http + 1, !.httpError = meter.httpError + 1] BY <2>1 DEF RecordHttp
  <2>3. h = Tally(1, 1, 0, 0)
    <3>1. h = [http |-> meter.http + 1, httpError |-> meter.httpError + 1, join |-> meter.join,
               joinError |-> meter.joinError, joinFailure |-> meter.joinFailure]
      <4>1. meter \in [http : Nat, httpError : Nat, join : Nat, joinError : Nat, joinFailure : Nat] BY <1>2, TallyTyped
      <4> QED BY <2>2, <4>1, HttpTally, Zenon
    <3>2. meter.http = 0 /\ meter.httpError = 0 /\ meter.join = 0 /\ meter.joinError = 0 /\ meter.joinFailure = 0
      BY <1>2, TallyTyped
    <3> QED BY <3>1, <3>2 DEF Tally
  <2>4. meter' = h \/ meter' = [h EXCEPT !.join = h.join + 1, !.joinError = h.joinError + 1,
                                        !.joinFailure = h.joinFailure + 1]
    BY <2>1 DEF RecordJoin
  <2>5. CASE meter' # h
    <3>1. meter' = [http |-> h.http, httpError |-> h.httpError, join |-> h.join + 1,
                    joinError |-> h.joinError + 1, joinFailure |-> h.joinFailure + 1]
      <4>1. h \in [http : Nat, httpError : Nat, join : Nat, joinError : Nat, joinFailure : Nat] BY <2>3, TallyTyped
      <4> QED BY <2>4, <2>5, <4>1, JoinTally, Zenon
    <3>2. h.http = 1 /\ h.httpError = 1 /\ h.join = 0 /\ h.joinError = 0 /\ h.joinFailure = 0
      BY <2>3, TallyTyped
    <3> QED BY <3>1, <3>2 DEF Tally
  <2> QED BY <2>3, <2>5
<1>4. JourneyTyped' BY <1>1 DEF JourneyInv, JourneyTyped, World, Media
<1>5. SlotsCounted' BY <1>1 DEF JourneyInv, SlotsCounted, Media, Early
<1>6. Counted' BY <1>1, <1>3 DEF Counted, Early, Late
<1> QED BY <1>1, <1>4, <1>5, <1>6 DEF JourneyInv

LEMMA JoinFailsKeeps ==
    ASSUME JourneyInv, visit.at \in {"gc_lookup", "gc_assign", "gc_token"}, NEW e, JoinFails(e),
           Fits(GcResponse(e)), GcResponse(e).code \in {403, 404, 500, 503},
           UNCHANGED <<World, fresh, Media>>
    PROVE  JourneyInv'
<1>1. GcResponse(e).by = "gc" BY DEF GcResponse
<1>2. fresh' \subseteq {"gc", "mc", "mh"} BY DEF JourneyInv, JourneyTyped
<1>3. Ends(GcResponse(e)) /\ meter' = RecordJoin(RecordHttp(GcResponse(e)), TRUE) BY DEF JoinFails
<1>4. GcResponse(e).code \in Nat /\ GcResponse(e).code >= 400 OBVIOUS
<1> QED BY <1>1, <1>2, <1>3, <1>4, GcEnds DEF Early

\* What was seen to break.
LEMMA Seen ==
    ASSUME JourneyInv
    PROVE  /\ broken # {} => visit.seen # {}
           /\ \A x \in broken : x \in visit.seen
           /\ broken \cap {"ac", "acdb"} # {} => visit.seen \cap {"ac", "acdb"} # {}
  BY DEF JourneyInv, JourneyTyped

LEMMA GcAuthKeeps == ASSUME JourneyInv, GcAuth PROVE JourneyInv'
<1> DEFINE kind == FlawAt("gc")
           e(j) == IF kind = "header" THEN Err("InvalidToken", "own") ELSE GcOfJwt(j)
<1>0. PICK j \in Verdict("gc", kind) :
          /\ IF kind # "header" THEN Fetches("gc", kind) ELSE UNCHANGED fresh
          /\ IF kind # "header" /\ j = "Valid"
             THEN Goes("gc_lookup") /\ UNCHANGED meter
             ELSE Ends(GcResponse(e(j))) /\ meter' = RecordHttp(GcResponse(e(j)))
  BY DEF GcAuth
<1>1. /\ visit.at = "gc_auth" /\ UNCHANGED <<World, Media>>
      /\ IF kind # "header" THEN Fetches("gc", kind) ELSE UNCHANGED fresh
      /\ IF kind # "header" /\ j = "Valid"
         THEN Goes("gc_lookup") /\ UNCHANGED meter
         ELSE Ends(GcResponse(e(j))) /\ meter' = RecordHttp(GcResponse(e(j)))
  BY <1>0 DEF GcAuth
<1>2. fresh' \subseteq {"gc", "mc", "mh"}
  BY <1>1, FetchesFacts DEF JourneyInv, JourneyTyped
<1>3. /\ j = "Valid" => kind \notin TokenFlaw
      /\ j = "ServiceUnavailable" => broken \cap {"ac", "acdb"} # {}
      /\ j \notin {"Valid", "ServiceUnavailable"} => kind \in TokenFlaw \/ "keys" \in broken
  BY VerdictFacts
<1>4. CASE kind # "header" /\ j = "Valid"
  <2>1. Goes("gc_lookup") /\ UNCHANGED meter BY <1>1, <1>4
  <2>2. kind \in {"none", "absent", "ended", "external"}
    BY <1>3, <1>4, FlawFacts DEF FlawAt, JourneyInv, JourneyTyped
  <2>3. /\ visit' \in [at : Place, flaw : Flaw, seen : SUBSET Thing]
        /\ visit'.at = "gc_lookup" /\ visit'.flaw = visit.flaw /\ visit'.seen = visit.seen
        /\ answer' = Silent /\ Fits(answer)'
    BY <2>1, <1>1, GoesKeeps DEF Place
  <2>4. Cleared' BY <1>1, <2>2, <2>3 DEF Cleared, Late, FlawAt, JourneyInv
  <2> QED BY <1>1, <1>2, <2>1, <2>3, <2>4, PlainSteps DEF Early
<1>5. CASE ~(kind # "header" /\ j = "Valid")
  <2>1. \/ e(j) = Err("InvalidToken", "own") /\ (kind # "none" \/ "keys" \in broken)
        \/ e(j) = Err("ServiceUnavailable", "inner") /\ broken \cap {"ac", "acdb"} # {}
    BY <1>3, <1>5 DEF GcOfJwt, TokenFlaw
  <2>2. PICK a : a = GcResponse(e(j)) OBVIOUS
  <2>3. \/ /\ a = [by |-> "gc", code |-> 401, label |-> "InvalidToken", shows |-> "own"]
           /\ visit.flaw[1] = "gc" \/ "keys" \in visit.seen
        \/ a = [by |-> "gc", code |-> 503, label |-> "ServiceUnavailable", shows |-> "generic"] /\ visit.seen # {}
    BY <2>1, <2>2, GcAnswers, FlawAtFacts, Seen
  <2>4. Fits(a) /\ a.by = "gc" /\ a.code \in Nat /\ a.code >= 400 BY <2>3 DEF Fits, GcError
  <2>5. Ends(a) /\ meter' = RecordHttp(a) BY <1>1, <1>5, <2>2
  <2> QED BY <1>1, <1>2, <2>4, <2>5, GcEnds DEF Early
<1> QED BY <1>4, <1>5

LEMMA GcLookupKeeps == ASSUME JourneyInv, GcLookup PROVE JourneyInv'
<1>1. visit.at = "gc_lookup" /\ UNCHANGED <<World, fresh, Media>> BY DEF GcLookup
<1>2. fresh' \subseteq {"gc", "mc", "mh"} BY <1>1 DEF JourneyInv, JourneyTyped
<1>3. CASE LookupError = Ok
  <2>1. Goes("gc_assign") /\ UNCHANGED meter BY <1>3 DEF GcLookup
  <2>2. FlawAt("gc") \notin {"absent", "ended", "external"} BY <1>3 DEF LookupError, Ok, Err
  <2>3. visit.flaw[1] # "gc" /\ visit.flaw[1] # "ac"
    BY <1>1, <2>2, FlawFacts DEF FlawAt, JourneyInv, JourneyTyped, Cleared, TokenFlaw
  <2>4. /\ visit' \in [at : Place, flaw : Flaw, seen : SUBSET Thing]
        /\ visit'.at = "gc_assign" /\ visit'.flaw = visit.flaw /\ visit'.seen = visit.seen
        /\ answer' = Silent /\ Fits(answer)'
    BY <2>1, <1>1, GoesKeeps DEF Place
  <2>5. Cleared' BY <2>3, <2>4 DEF Cleared, Late
  <2> QED BY <1>1, <1>2, <2>1, <2>4, <2>5, PlainSteps DEF Early
<1>4. CASE LookupError # Ok
  <2>1. JoinFails(LookupError) BY <1>4 DEF GcLookup
  <2>2. \/ LookupError = Err("Database", "inner") /\ broken # {}
        \/ LookupError = Err("NotFound", "own") /\ FlawAt("gc") # "none"
        \/ LookupError = Err("Forbidden", "own") /\ FlawAt("gc") # "none"
    BY <1>4 DEF LookupError
  <2>3. PICK a : a = GcResponse(LookupError) OBVIOUS
  <2>4. \/ a = [by |-> "gc", code |-> 500, label |-> "Database", shows |-> "generic"] /\ visit.seen # {}
        \/ a = [by |-> "gc", code |-> 404, label |-> "NotFound", shows |-> "own"] /\ visit.flaw[1] = "gc"
        \/ a = [by |-> "gc", code |-> 403, label |-> "Forbidden", shows |-> "own"] /\ visit.flaw[1] = "gc"
    BY <2>2, <2>3, GcAnswers, FlawAtFacts, Seen
  <2>5. Fits(a) /\ a.code \in {403, 404, 500, 503} BY <2>4 DEF Fits, GcError
  <2> QED BY <1>1, <2>1, <2>3, <2>5, JoinFailsKeeps
<1> QED BY <1>3, <1>4

LEMMA GcAssignKeeps == ASSUME JourneyInv, GcAssign PROVE JourneyInv'
<1>1. visit.at = "gc_assign" /\ UNCHANGED <<World, Media>> BY DEF GcAssign
<1>2. CASE "gcdb" \in broken /\ JoinFails(Err("Database", "inner")) /\ UNCHANGED fresh
  <2>1. Fits([by |-> "gc", code |-> 500, label |-> "Database", shows |-> "generic"])
    BY <1>2, Seen DEF Fits, GcError
  <2> QED BY <1>1, <1>2, <2>1, GcAnswers, JoinFailsKeeps
<1>3. CASE Goes("gc_token") /\ UNCHANGED meter /\ (McAccepts \/ UNCHANGED fresh)
  <2>1. fresh' \subseteq {"gc", "mc", "mh"} BY <1>3, FetchesFacts DEF JourneyInv, JourneyTyped, McAccepts
  <2>2. /\ visit' \in [at : Place, flaw : Flaw, seen : SUBSET Thing]
        /\ visit'.at = "gc_token" /\ visit'.flaw = visit.flaw /\ visit'.seen = visit.seen
        /\ answer' = Silent /\ Fits(answer)'
    BY <1>1, <1>3, GoesKeeps DEF Place
  <2>3. Cleared' BY <1>1, <2>2 DEF Cleared, Late, JourneyInv
  <2> QED BY <1>1, <1>3, <2>1, <2>2, <2>3, PlainSteps DEF Early
<1>4. CASE /\ JoinFails(Err("ServiceUnavailable", "own")) /\ UNCHANGED fresh
           /\ \/ "mcs" \in broken
              \/ Verdict("mc", "none") # {"Valid"}
              \/ "gctoken" \in broken
  <2>1. Verdict("mc", "none") # {"Valid"} => broken # {} BY DEF Verdict, Fetchable
  <2>2. broken # {} BY <1>4, <2>1
  <2>3. Fits([by |-> "gc", code |-> 503, label |-> "ServiceUnavailable", shows |-> "generic"])
    BY <2>2, Seen DEF Fits, GcError
  <2> QED BY <1>1, <1>4, <2>3, GcAnswers, JoinFailsKeeps
<1> QED BY <1>2, <1>3, <1>4 DEF GcAssign

LEMMA GcTokenKeeps == ASSUME JourneyInv, GcToken PROVE JourneyInv'
<1>1. visit.at = "gc_token" /\ UNCHANGED <<World, fresh, Media>> BY DEF GcToken
<1>2. CASE RequestTokenError = Ok
  <2>1. Goes("mc_read") /\ meter' = RecordJoin([meter EXCEPT !.http = @ + 1], FALSE) BY <1>2 DEF GcToken
  <2>2. meter = Tally(0, 0, 0, 0) BY <1>1 DEF JourneyInv, Counted, Early
  <2>3. meter' = Tally(1, 0, 1, 0)
    <3>1. PICK h : h = [meter EXCEPT !.http = meter.http + 1] OBVIOUS
    <3>2. h = Tally(1, 0, 0, 0) BY <2>2, <3>1 DEF Tally
    <3>3. meter' = [h EXCEPT !.join = h.join + 1, !.joinError = h.joinError + 0, !.joinFailure = h.joinFailure + 0]
      BY <2>1, <3>1 DEF RecordJoin
    <3>4. meter' = [http |-> h.http, httpError |-> h.httpError, join |-> h.join + 1,
                    joinError |-> h.joinError + 0, joinFailure |-> h.joinFailure + 0]
      <4>1. h \in [http : Nat, httpError : Nat, join : Nat, joinError : Nat, joinFailure : Nat] BY <3>2, TallyTyped
      <4> QED BY <3>3, <4>1, JoinTally, Zenon
    <3>5. h.http = 1 /\ h.httpError = 0 /\ h.join = 0 /\ h.joinError = 0 /\ h.joinFailure = 0
      BY <3>2, TallyTyped
    <3> QED BY <3>4, <3>5 DEF Tally
  <2>4. /\ visit' \in [at : Place, flaw : Flaw, seen : SUBSET Thing]
        /\ visit'.at = "mc_read" /\ visit'.flaw = visit.flaw /\ visit'.seen = visit.seen
        /\ answer' = Silent /\ Fits(answer)'
    BY <2>1, <1>1, GoesKeeps DEF Place
  <2>5. Cleared' BY <1>1, <2>4 DEF Cleared, Late, JourneyInv
  <2>6. JourneyTyped' BY <1>1, <2>4 DEF JourneyInv, JourneyTyped, World, Media
  <2>7. SlotsCounted' BY <1>1, <2>4 DEF JourneyInv, SlotsCounted, Media
  <2>8. Counted' BY <2>3, <2>4 DEF Counted, Early, Late
  <2> QED BY <2>4, <2>5, <2>6, <2>7, <2>8 DEF JourneyInv
<1>3. CASE RequestTokenError # Ok
  <2>1. JoinFails(RequestTokenError) BY <1>3 DEF GcToken
  <2>2. \/ RequestTokenError = Err("ServiceUnavailable", "own") /\ broken # {}
        \/ RequestTokenError = Err("Internal", "own") /\ broken # {}
        \/ RequestTokenError = Err("Forbidden", "own") /\ "gcscope" \in broken
    <3>1. \/ InternalTokenError = Ok
          \/ InternalTokenError = Err("Database", "inner") /\ broken # {}
          \/ InternalTokenError = Err("InvalidToken", "own") /\ broken # {}
          \/ InternalTokenError = Err("InsufficientScope", "own") /\ "gcscope" \in broken
          \/ InternalTokenError = Err("Crypto", "inner") /\ broken # {}
      BY DEF InternalTokenError
    <3>2. /\ AcStatus(Err("Database", "inner")) = 500 /\ AcStatus(Err("Crypto", "inner")) = 500
          /\ AcStatus(Err("InvalidToken", "own")) = 401 /\ AcStatus(Err("InsufficientScope", "own")) = 403
      BY DEF AcStatus, Err
    <3>3. /\ HandleResponse(200) = Ok /\ HandleResponse(500) = Err("ServiceUnavailable", "own")
          /\ HandleResponse(401) = Err("Internal", "own") /\ HandleResponse(403) = Err("Forbidden", "own")
      BY DEF HandleResponse
    <3>4. CASE "ac" \in broken BY <3>4 DEF RequestTokenError
    <3>5. CASE "ac" \notin broken
      BY <1>3, <3>1, <3>2, <3>3, <3>5 DEF RequestTokenError
    <3> QED BY <3>4, <3>5
  <2>3. PICK a : a = GcResponse(RequestTokenError) OBVIOUS
  <2>4. \/ a = [by |-> "gc", code |-> 503, label |-> "ServiceUnavailable", shows |-> "generic"] /\ visit.seen # {}
        \/ a = [by |-> "gc", code |-> 500, label |-> "Internal", shows |-> "generic"] /\ visit.seen # {}
        \/ a = [by |-> "gc", code |-> 403, label |-> "Forbidden", shows |-> "own"] /\ "gcscope" \in visit.seen
    BY <2>2, <2>3, GcAnswers, Seen
  <2>5. Fits(a) /\ a.code \in {403, 404, 500, 503} BY <2>4 DEF Fits, GcError
  <2> QED BY <1>1, <2>1, <2>3, <2>5, JoinFailsKeeps
<1> QED BY <1>2, <1>3

LEMMA GcTimeoutKeeps == ASSUME JourneyInv, GcTimeout PROVE JourneyInv'
<1>1. PICK a : /\ a = [by |-> "gc", code |-> 408, shows |-> "generic", label |-> "Timeout"]
               /\ Ends(a) /\ meter' = RecordHttp(a)
  BY DEF GcTimeout
<1>2. visit.at \in Early /\ broken # {} /\ UNCHANGED <<World, fresh, Media>> BY DEF GcTimeout, Early
<1>3. Fits(a) /\ a.by = "gc" /\ a.code \in Nat /\ a.code >= 400 BY <1>1, <1>2, Seen DEF Fits
<1>4. fresh' \subseteq {"gc", "mc", "mh"} BY <1>2 DEF JourneyInv, JourneyTyped
<1> QED BY <1>1, <1>2, <1>3, <1>4, GcEnds

LEMMA GcDroppedKeeps == ASSUME JourneyInv, GcDropped PROVE JourneyInv'
<1>1. PICK a : a = [by |-> "gc", code |-> 0, shows |-> "generic", label |-> "Ok"] /\ Ends(a)
  BY DEF GcDropped, Closed, Ok, Err
<1>2. visit.at \in Early /\ UNCHANGED <<World, fresh, meter, Media>> BY DEF GcDropped, Early
<1>3. Fits(a) BY <1>1 DEF Fits
<1>4. fresh' \subseteq {"gc", "mc", "mh"} BY <1>2 DEF JourneyInv, JourneyTyped
<1> QED BY <1>1, <1>2, <1>3, <1>4, EndsKeeps, PlainSteps DEF Early

LEMMA McReadKeeps == ASSUME JourneyInv, McRead PROVE JourneyInv'
<1>1. visit.at = "mc_read" /\ UNCHANGED <<World, fresh, meter, Media>> BY DEF McRead
<1>2. fresh' \subseteq {"gc", "mc", "mh"} BY <1>1 DEF JourneyInv, JourneyTyped
<1>3. CASE FlawAt("mc") \in {"frame", "notjoin", "longname"}
  <2>1. PICK a : /\ \/ a = [by |-> "mc", code |-> 0, shows |-> "generic", label |-> "Internal"]
                    \/ a = [by |-> "mc", code |-> 1, shows |-> "own", label |-> "Internal"]
                 /\ Ends(a)
    BY <1>3 DEF McRead, Closed, SendError, InvalidRequest, Err
  <2>2. visit.flaw[1] = "mc" /\ visit.flaw[2] \in {"frame", "notjoin", "longname"} BY <1>3, FlawAtFacts
  <2>3. Fits(a) /\ a.by = "mc" BY <2>1, <2>2 DEF Fits, McError
  <2> QED BY <1>1, <1>2, <2>1, <2>3, EndsKeeps, PlainSteps DEF Late
<1>4. CASE FlawAt("mc") \notin {"frame", "notjoin", "longname"}
  <2>1. Goes("mc_auth") BY <1>4 DEF McRead
  <2>2. /\ visit' \in [at : Place, flaw : Flaw, seen : SUBSET Thing]
        /\ visit'.at = "mc_auth" /\ visit'.flaw = visit.flaw /\ visit'.seen = visit.seen
        /\ answer' = Silent /\ Fits(answer)'
    BY <2>1, <1>1, GoesKeeps DEF Place
  <2>3. Cleared' BY <1>1, <1>4, <2>2 DEF Cleared, Late, FlawAt, JourneyInv
  <2> QED BY <1>1, <1>2, <2>2, <2>3, PlainSteps DEF Late
<1> QED BY <1>3, <1>4

LEMMA McAuthKeeps == ASSUME JourneyInv, McAuth PROVE JourneyInv'
<1> DEFINE kind == FlawAt("mc")
<1>0. PICK j \in Verdict("mc", kind) :
          CASE j # "Valid" -> Ends(SendError(Unauthorized, "own", McOfJwt(j)))
            [] j = "Valid" /\ kind = "othermeeting" -> Ends(SendError(Unauthorized, "own", Err("JwtValidation", "own")))
            [] OTHER -> Goes("mc_join")
  BY DEF McAuth
<1>1. visit.at = "mc_auth" /\ Fetches("mc", kind) /\ UNCHANGED <<World, meter, Media>> BY DEF McAuth
<1>2. fresh' \subseteq {"gc", "mc", "mh"} BY <1>1, FetchesFacts DEF JourneyInv, JourneyTyped
<1>3. /\ j = "Valid" => kind \notin TokenFlaw
      /\ j = "ServiceUnavailable" => broken \cap {"ac", "acdb"} # {}
      /\ j \notin {"Valid", "ServiceUnavailable"} => kind \in TokenFlaw \/ "keys" \in broken
  BY VerdictFacts
<1>4. CASE j # "Valid" \/ kind = "othermeeting"
  <2>1. PICK a : /\ \/ /\ a = [by |-> "mc", code |-> 2, shows |-> "own", label |-> "Internal"]
                       /\ j = "ServiceUnavailable"
                    \/ /\ a = [by |-> "mc", code |-> 2, shows |-> "own", label |-> "JwtValidation"]
                       /\ j \notin {"Valid", "ServiceUnavailable"} \/ kind = "othermeeting"
                 /\ Ends(a)
    <3>1. CASE j # "Valid"
      <4>1. Ends(SendError(Unauthorized, "own", McOfJwt(j))) BY <1>0, <3>1
      <4>2. CASE j = "ServiceUnavailable" BY <4>1, <4>2 DEF SendError, Unauthorized, McOfJwt, Err
      <4>3. CASE j # "ServiceUnavailable" BY <3>1, <4>1, <4>3 DEF SendError, Unauthorized, McOfJwt, Err
      <4> QED BY <4>2, <4>3
    <3>2. CASE j = "Valid"
      BY <1>0, <1>4, <3>2 DEF SendError, Unauthorized, Err
    <3> QED BY <3>1, <3>2
  <2>2. \/ a.label = "Internal" /\ visit.seen \cap {"ac", "acdb"} # {}
        \/ a.label = "JwtValidation" /\ (visit.flaw[1] = "mc" \/ "keys" \in visit.seen)
    BY <1>3, <2>1, FlawAtFacts, Seen DEF TokenFlaw
  <2>3. Fits(a) /\ a.by = "mc" BY <2>1, <2>2 DEF Fits, McError
  <2> QED BY <1>1, <1>2, <2>1, <2>3, EndsKeeps, PlainSteps DEF Late
<1>5. CASE j = "Valid" /\ kind # "othermeeting"
  <2>1. Goes("mc_join") BY <1>0, <1>5
  <2>2. visit.flaw[1] # "mc"
    BY <1>1, <1>3, <1>5, FlawFacts DEF FlawAt, JourneyInv, JourneyTyped, Cleared
  <2>3. /\ visit' \in [at : Place, flaw : Flaw, seen : SUBSET Thing]
        /\ visit'.at = "mc_join" /\ visit'.flaw = visit.flaw /\ visit'.seen = visit.seen
        /\ answer' = Silent /\ Fits(answer)'
    BY <2>1, <1>1, GoesKeeps DEF Place
  <2>4. Cleared' BY <1>1, <2>2, <2>3 DEF Cleared, Late, JourneyInv
  <2> QED BY <1>1, <1>2, <2>3, <2>4, PlainSteps DEF Late
<1> QED BY <1>4, <1>5

LEMMA McJoinKeeps == ASSUME JourneyInv, McJoin PROVE JourneyInv'
<1>1. visit.at = "mc_join" /\ UNCHANGED <<World, fresh, meter, Media>> BY DEF McJoin
<1>2. fresh' \subseteq {"gc", "mc", "mh"} BY <1>1 DEF JourneyInv, JourneyTyped
<1>3. CASE Goes("mh_accept")
  <2>1. /\ visit' \in [at : Place, flaw : Flaw, seen : SUBSET Thing]
        /\ visit'.at = "mh_accept" /\ visit'.flaw = visit.flaw /\ visit'.seen = visit.seen
        /\ answer' = Silent /\ Fits(answer)'
    BY <1>1, <1>3, GoesKeeps DEF Place
  <2>2. Cleared' BY <1>1, <2>1 DEF Cleared, Late, JourneyInv
  <2> QED BY <1>1, <1>2, <2>1, <2>2, PlainSteps DEF Late
<1>4. ASSUME NEW e, Ends(SendOwn(e)),
             \/ e = Err("Draining", "own") /\ broken # {}
             \/ e = Err("MeetingNotFound", "inner") /\ "meeting" \in broken
             \/ e = Err("Redis", "inner") /\ broken # {}
             \/ e = Err("Internal", "own") /\ broken # {}
             \/ e = Err("MhAssignmentMissing", "inner") /\ visit.seen # {}
      PROVE  JourneyInv'
  <2>1. PICK a : a = SendOwn(e) OBVIOUS
  <2>2. /\ visit.seen # {} /\ a.by = "mc" /\ a.shows = "generic"
        /\ \/ a.code = 7 /\ a.label = "Draining"
           \/ a.code = 4 /\ a.label = "MeetingNotFound" /\ "meeting" \in visit.seen
           \/ a.code = 6 /\ a.label \in {"Redis", "Internal", "MhAssignmentMissing"}
    BY <1>4, <2>1, McAnswers, Seen
  <2>3. Fits(a) BY <2>2 DEF Fits, McError
  <2> QED BY <1>1, <1>2, <1>4, <2>1, <2>2, <2>3, EndsKeeps, PlainSteps DEF Late
<1>5. JoinError # Ok =>
          \/ JoinError = Err("Draining", "own") /\ broken # {}
          \/ JoinError = Err("MeetingNotFound", "inner") /\ "meeting" \in broken
          \/ JoinError = Err("Redis", "inner") /\ broken # {}
  BY DEF JoinError
<1>6. CASE JoinError # Ok /\ Ends(SendOwn(JoinError)) BY <1>4, <1>5, <1>6
<1>7. CASE "meeting" \in broken /\ Ends(SendOwn(Err("Internal", "own"))) BY <1>4, <1>7
<1>8. CASE "redis" \in visit.seen /\ Ends(SendOwn(Err("MhAssignmentMissing", "inner"))) BY <1>4, <1>8
<1> QED BY <1>3, <1>6, <1>7, <1>8 DEF McJoin

\* The steps at the media handler: a slot is taken on the way in and given back at the end.
LEMMA MediaSteps ==
    ASSUME JourneyInv, UNCHANGED <<World, meter, others>>, fresh' \subseteq {"gc", "mc", "mh"},
           visit' \in [at : Place, flaw : Flaw, seen : SUBSET Thing],
           visit'.seen = visit.seen, visit.at \in {"mh_accept", "mh_auth", "mh_wait", "in"},
           Cleared', Fits(answer)',
           \/ visit'.at \in {"mh_auth", "mh_wait", "in"} /\ answer' = Silent
           \/ visit'.at = "out" /\ answer'.by \notin {"ac", "gc"},
           \/ visit.at = "mh_accept" /\ visit'.at = "mh_auth" /\ slots < MaxConnections /\ slots' = slots + 1
           \/ visit.at # "mh_accept" /\ visit'.at = "out" /\ slots' = slots - 1
           \/ visit.at # "mh_accept" /\ visit'.at # "out" /\ slots' = slots
           \/ visit.at = "mh_accept" /\ visit'.at = "out" /\ slots' = slots
    PROVE  JourneyInv'
<1> USE JourneyAssumption
<1>1. slots \in 0..MaxConnections /\ others \in Nat /\ others' = others
  BY DEF JourneyInv, JourneyTyped
<1>2. visit.at \in {"mh_auth", "mh_wait", "in"} => slots = others + 1
  BY DEF JourneyInv, SlotsCounted
<1>3. visit.at = "mh_accept" => slots = others
  BY <1>1 DEF JourneyInv, SlotsCounted
<1>4. slots' \in 0..MaxConnections BY <1>1, <1>2
<1>5. JourneyTyped' BY <1>1, <1>4 DEF JourneyInv, JourneyTyped, World
<1>6. SlotsCounted' BY <1>1, <1>2, <1>3 DEF SlotsCounted
<1>7. Counted' BY DEF JourneyInv, Counted, Early, Late
<1> QED BY <1>5, <1>6, <1>7 DEF JourneyInv

LEMMA AcceptLoopKeeps == ASSUME JourneyInv, AcceptLoop PROVE JourneyInv'
<1>1. visit.at = "mh_accept" /\ UNCHANGED <<World, fresh, meter, others>> BY DEF AcceptLoop
<1>2. fresh' \subseteq {"gc", "mc", "mh"} BY <1>1 DEF JourneyInv, JourneyTyped
<1>3. CASE slots >= MaxConnections
  <2>1. PICK a : a = [by |-> "mh", code |-> 0, shows |-> "generic", label |-> "Ok"] /\ Ends(a)
    BY <1>3 DEF AcceptLoop, Closed, Ok, Err
  <2>2. slots' = slots BY <1>3 DEF AcceptLoop
  <2>3. Fits(a) BY <2>1 DEF Fits
  <2> QED BY <1>1, <1>2, <2>1, <2>2, <2>3, EndsKeeps, MediaSteps
<1>4. CASE ~(slots >= MaxConnections)
  <2>1. Goes("mh_auth") /\ slots' = slots + 1 BY <1>4 DEF AcceptLoop
  <2>2. slots < MaxConnections BY <1>4, JourneyAssumption DEF JourneyInv, JourneyTyped
  <2>3. /\ visit' \in [at : Place, flaw : Flaw, seen : SUBSET Thing]
        /\ visit'.at = "mh_auth" /\ visit'.flaw = visit.flaw /\ visit'.seen = visit.seen
        /\ answer' = Silent /\ Fits(answer)'
    BY <1>1, <2>1, GoesKeeps DEF Place
  <2>4. Cleared' BY <1>1, <2>3 DEF Cleared, Late, JourneyInv
  <2> QED BY <1>1, <1>2, <2>1, <2>2, <2>3, <2>4, MediaSteps
<1> QED BY <1>3, <1>4

LEMMA MhAuthKeeps == ASSUME JourneyInv, MhAuth PROVE JourneyInv'
<1> DEFINE kind == FlawAt("mh")
<1>0. PICK j \in Verdict("mh", kind) :
          CASE kind = "frame" -> MhEnds(Closed("mh", Err("WebTransportError", "own")))
            [] kind # "frame" /\ j # "Valid" -> MhEnds(Closed("mh", MhOfJwt(j)))
            [] OTHER -> Goes("mh_wait") /\ UNCHANGED slots
  BY DEF MhAuth
<1>1. /\ visit.at = "mh_auth" /\ UNCHANGED <<World, meter, others>>
      /\ IF kind = "frame" THEN UNCHANGED fresh ELSE Fetches("mh", kind)
  BY DEF MhAuth
<1>2. fresh' \subseteq {"gc", "mc", "mh"} BY <1>1, FetchesFacts DEF JourneyInv, JourneyTyped
<1>3. /\ j = "Valid" => kind \notin TokenFlaw
      /\ j = "ServiceUnavailable" => broken \cap {"ac", "acdb"} # {}
      /\ j \notin {"Valid", "ServiceUnavailable"} => kind \in TokenFlaw \/ "keys" \in broken
  BY VerdictFacts
<1>4. CASE kind = "frame" \/ j # "Valid"
  <2>1. PICK e : /\ MhEnds(Closed("mh", e))
                 /\ \/ e = Err("WebTransportError", "own")
                    \/ e = Err("Internal", "own") /\ j = "ServiceUnavailable"
                    \/ e = Err("JwtValidation", "own") /\ j \notin {"Valid", "ServiceUnavailable"}
    <3>1. CASE kind = "frame" BY <1>0, <3>1
    <3>2. CASE kind # "frame"
      <4>1. j # "Valid" /\ MhEnds(Closed("mh", MhOfJwt(j))) BY <1>0, <1>4, <3>2
      <4> QED BY <4>1 DEF MhOfJwt
    <3> QED BY <3>1, <3>2
  <2>2. PICK a : a = Closed("mh", e) OBVIOUS
  <2>3. \/ a = [by |-> "mh", code |-> 0, shows |-> "generic", label |-> "WebTransportError"]
        \/ a = [by |-> "mh", code |-> 0, shows |-> "generic", label |-> "Internal"] /\ visit.seen # {}
        \/ /\ a = [by |-> "mh", code |-> 0, shows |-> "generic", label |-> "JwtValidation"]
           /\ visit.flaw[1] = "mh" \/ "keys" \in visit.seen
    <3>1. j \notin {"Valid", "ServiceUnavailable"} => visit.flaw[1] = "mh" \/ "keys" \in visit.seen
      BY <1>3, FlawAtFacts, Seen DEF TokenFlaw
    <3>2. j = "ServiceUnavailable" => visit.seen # {} BY <1>3, Seen
    <3> QED BY <2>1, <2>2, <3>1, <3>2 DEF Closed, Err
  <2>4. Fits(a) /\ a.by = "mh" BY <2>3 DEF Fits, MhError
  <2>5. Ends(a) /\ slots' = slots - 1 BY <2>1, <2>2 DEF MhEnds
  <2> QED BY <1>1, <1>2, <2>4, <2>5, EndsKeeps, MediaSteps
<1>5. CASE kind # "frame" /\ j = "Valid"
  <2>1. Goes("mh_wait") /\ UNCHANGED slots BY <1>0, <1>5
  <2>2. visit.flaw[1] # "mh"
    BY <1>3, <1>5, FlawFacts DEF FlawAt, JourneyInv, JourneyTyped
  <2>3. /\ visit' \in [at : Place, flaw : Flaw, seen : SUBSET Thing]
        /\ visit'.at = "mh_wait" /\ visit'.flaw = visit.flaw /\ visit'.seen = visit.seen
        /\ answer' = Silent /\ Fits(answer)'
    BY <1>1, <2>1, GoesKeeps DEF Place
  <2>4. Cleared' BY <1>1, <2>2, <2>3 DEF Cleared, Late, JourneyInv
  <2> QED BY <1>1, <1>2, <2>1, <2>3, <2>4, MediaSteps
<1> QED BY <1>4, <1>5

LEMMA MhRegisteredKeeps == ASSUME JourneyInv, MhRegistered PROVE JourneyInv'
<1>1. visit.at = "mh_wait" /\ UNCHANGED <<World, fresh, meter, others>> BY DEF MhRegistered
<1>2. fresh' \subseteq {"gc", "mc", "mh"} BY <1>1 DEF JourneyInv, JourneyTyped
<1>3. CASE "unregistered" \in broken
  <2>1. PICK a : a = [by |-> "mh", code |-> 0, shows |-> "generic", label |-> "MeetingNotRegistered"] /\ MhEnds(a)
    BY <1>3 DEF MhRegistered, Closed, Err
  <2>2. Fits(a) /\ a.by = "mh" BY <2>1 DEF Fits, MhError
  <2>3. Ends(a) /\ slots' = slots - 1 BY <2>1 DEF MhEnds
  <2> QED BY <1>1, <1>2, <2>2, <2>3, EndsKeeps, MediaSteps
<1>4. CASE "unregistered" \notin broken
  <2>1. Goes("in") /\ UNCHANGED slots BY <1>4 DEF MhRegistered
  <2>2. /\ visit' \in [at : Place, flaw : Flaw, seen : SUBSET Thing]
        /\ visit'.at = "in" /\ visit'.flaw = visit.flaw /\ visit'.seen = visit.seen
        /\ answer' = Silent /\ Fits(answer)'
    BY <1>1, <2>1, GoesKeeps DEF Place
  <2>3. Cleared' BY <1>1, <2>2 DEF Cleared, Late, JourneyInv
  <2> QED BY <1>1, <1>2, <2>1, <2>2, <2>3, MediaSteps
<1> QED BY <1>3, <1>4

LEMMA MhLeavesKeeps == ASSUME JourneyInv, MhLeaves PROVE JourneyInv'
<1>1. visit.at = "in" /\ UNCHANGED <<World, fresh, meter, others>> BY DEF MhLeaves
<1>2. fresh' \subseteq {"gc", "mc", "mh"} BY <1>1 DEF JourneyInv, JourneyTyped
<1>3. Ends(Silent) /\ slots' = slots - 1 BY DEF MhLeaves, MhEnds
<1>4. Fits(Silent) /\ Silent.by = "none" BY DEF Fits, Silent
<1> QED BY <1>1, <1>2, <1>3, <1>4, EndsKeeps, MediaSteps

\* The other connections of the MH, and the world around the visit.
LEMMA WorldKeeps ==
    ASSUME JourneyInv, OtherArrives \/ OtherLeaves \/ Breaks \/ Mends \/ Expire
    PROVE  JourneyInv'
<1> USE JourneyAssumption
<1>1. CASE OtherArrives \/ OtherLeaves
  <2>1. /\ visit' = visit /\ answer' = answer /\ meter' = meter /\ UNCHANGED <<World, fresh>>
        /\ \/ slots < MaxConnections /\ slots' = slots + 1 /\ others' = others + 1
           \/ others > 0 /\ slots' = slots - 1 /\ others' = others - 1
    BY <1>1 DEF OtherArrives, OtherLeaves
  <2>2. slots \in 0..MaxConnections /\ others \in Nat BY DEF JourneyInv, JourneyTyped
  <2>3. SlotsCounted /\ slots >= others BY <2>2 DEF JourneyInv, SlotsCounted
  <2>4. slots' \in 0..MaxConnections /\ others' \in Nat BY <2>1, <2>2, <2>3
  <2>5. JourneyTyped' BY <2>1, <2>4 DEF JourneyInv, JourneyTyped, World
  <2>6. SlotsCounted' BY <2>1, <2>2, <2>3 DEF SlotsCounted
  <2>7. Cleared' /\ Counted' BY <2>1 DEF JourneyInv, Cleared, Counted, FlawAt
  <2>8. Fits(answer)' BY <2>1 DEF JourneyInv, Fits
  <2> QED BY <2>1, <2>5, <2>6, <2>7, <2>8 DEF JourneyInv
<1>2. CASE Breaks
  <2>1. PICK x \in Thing \ broken : broken' = broken \cup {x} /\ visit' = [visit EXCEPT !.seen = visit.seen \cup {x}]
    BY <1>2 DEF Breaks
  <2>2. /\ visit.at # "out" /\ troubles < MaxTroubles /\ troubles' = troubles + 1
        /\ answer' = answer /\ fresh' = fresh /\ meter' = meter /\ slots' = slots /\ others' = others
    BY <1>2 DEF Breaks, Media
  <2>3. visit \in [at : Place, flaw : Flaw, seen : SUBSET Thing] /\ answer = Silent
    BY <2>2 DEF JourneyInv, JourneyTyped
  <2>4. /\ visit' \in [at : Place, flaw : Flaw, seen : SUBSET Thing]
        /\ visit'.at = visit.at /\ visit'.flaw = visit.flaw /\ visit'.seen = visit.seen \cup {x}
    BY <2>1, <2>3
  <2>5. JourneyTyped' BY <2>1, <2>2, <2>4 DEF JourneyInv, JourneyTyped
  <2>6. SlotsCounted' BY <2>2, <2>4 DEF JourneyInv, SlotsCounted
  <2>7. Cleared' /\ Counted' BY <2>2, <2>4 DEF JourneyInv, Cleared, Counted, FlawAt
  <2>8. Fits(answer)' BY <2>2, <2>3 DEF Fits, Silent
  <2> QED BY <2>2, <2>3, <2>5, <2>6, <2>7, <2>8 DEF JourneyInv
<1>3. CASE Mends \/ Expire
  <2>1. /\ visit' = visit /\ answer' = answer /\ meter' = meter /\ slots' = slots /\ others' = others
        /\ troubles' = troubles /\ broken' \subseteq broken /\ fresh' \subseteq fresh
    BY <1>3 DEF Mends, Expire, World, Media
  <2>2. JourneyTyped' BY <2>1 DEF JourneyInv, JourneyTyped
  <2>3. SlotsCounted' /\ Cleared' /\ Counted' BY <2>1 DEF JourneyInv, SlotsCounted, Cleared, Counted, FlawAt
  <2>4. Fits(answer)' BY <2>1 DEF JourneyInv, Fits
  <2> QED BY <2>1, <2>2, <2>3, <2>4 DEF JourneyInv
<1> QED BY <1>1, <1>2, <1>3

LEMMA JourneySteps == ASSUME JourneyInv, [JourneyNext]_journeyVars PROVE JourneyInv'
<1>1. CASE UNCHANGED journeyVars
  BY <1>1 DEF journeyVars, JourneyInv, JourneyTyped, Cleared, Counted, SlotsCounted, Fits, FlawAt
<1> QED BY <1>1, LoginKeeps, GcAuthKeeps, GcLookupKeeps, GcAssignKeeps, GcTokenKeeps, GcTimeoutKeeps,
           GcDroppedKeeps, McReadKeeps, McAuthKeeps, McJoinKeeps, AcceptLoopKeeps, MhAuthKeeps,
           MhRegisteredKeeps, MhLeavesKeeps, WorldKeeps DEF JourneyNext

LEMMA JourneyStarts == JourneyInit => JourneyInv
<1> SUFFICES ASSUME JourneyInit PROVE JourneyInv OBVIOUS
<1>1. PICK f \in Flaw : visit = [at |-> "login", flaw |-> f, seen |-> {}] BY DEF JourneyInit
<1>2. visit \in [at : Place, flaw : Flaw, seen : SUBSET Thing] /\ visit.at = "login" /\ visit.seen = {}
  BY <1>1 DEF Place
<1>3. JourneyTyped BY <1>2, JourneyAssumption DEF JourneyInit, JourneyTyped
<1>4. Cleared BY <1>2 DEF Cleared, Late
<1>5. Counted BY <1>2 DEF JourneyInit, Counted, Early, Late, Tally
<1>6. SlotsCounted BY <1>2 DEF JourneyInit, SlotsCounted
<1>7. Fits(answer) BY DEF JourneyInit, Fits, Silent
<1> QED BY <1>2, <1>3, <1>4, <1>5, <1>6, <1>7 DEF JourneyInit, JourneyInv

LEMMA JourneyHolds == ASSUME JourneyInv PROVE JourneyCorrect
<1>1. visit \in [at : Place, flaw : Flaw, seen : SUBSET Thing] /\ Fits(answer) BY DEF JourneyInv, JourneyTyped
<1>2. JourneyTypeOK
  <2>1. meter \in {Tally(0, 0, 0, 0), Tally(1, 1, 0, 0), Tally(1, 1, 1, 1), Tally(1, 0, 1, 0)}
    BY <1>1 DEF JourneyInv, Counted, Early, Late, Place
  <2>2. meter \in [http : Nat, httpError : Nat, join : Nat, joinError : Nat, joinFailure : Nat]
    BY <2>1, TallyTyped
  <2> QED BY <1>1, <2>2 DEF JourneyInv, JourneyTyped, Fits, JourneyTypeOK
<1>3. FairBlame /\ TrueOutage BY <1>1 DEF Fits, FairBlame, TrueOutage, Answered, Own, Unauthorized
<1>4. TrueLabel /\ Opaque BY <1>1 DEF Fits, TrueLabel, Opaque, Own
<1>5. NoneFlawedIn BY <1>1, FlawFacts DEF JourneyInv, Cleared, Late, NoneFlawedIn
<1>6. Metered
  <2>1. ASSUME NEW h \in Nat, NEW he \in Nat, NEW jo \in Nat, NEW jf \in Nat, meter = Tally(h, he, jo, jf)
        PROVE  meter.http = h /\ meter.httpError = he /\ meter.join = jo /\ meter.joinError = jf /\ meter.joinFailure = jf
    BY <2>1 DEF Tally
  <2>2. CASE visit.at \in Early
    <3>1. meter = Tally(0, 0, 0, 0) BY <2>2 DEF JourneyInv, Counted
    <3> QED BY <2>1, <2>2, <3>1 DEF Metered, Early
  <2>3. CASE visit.at \in Late
    <3>1. meter = Tally(1, 0, 1, 0) /\ answer = Silent BY <2>3 DEF JourneyInv, Counted, Late
    <3> QED BY <2>1, <2>3, <3>1 DEF Metered, Late, Silent
  <2>4. CASE visit.at = "out"
    <3>1. \/ meter = Tally(0, 0, 0, 0) /\ (answer.by = "ac" \/ (answer.by = "gc" /\ answer.code = 0))
          \/ meter \in {Tally(1, 1, 0, 0), Tally(1, 1, 1, 1)} /\ answer.by = "gc" /\ answer.code # 0
          \/ meter = Tally(1, 0, 1, 0) /\ answer.by \notin {"ac", "gc"}
      BY <2>4 DEF JourneyInv, Counted
    <3> QED BY <2>1, <2>4, <3>1 DEF Metered
  <2> QED BY <1>1, <2>2, <2>3, <2>4 DEF Place, Early, Late
<1> QED BY <1>2, <1>3, <1>4, <1>5, <1>6 DEF JourneyInv, JourneyCorrect

\* Over every chain of failures behind every hop: nobody is blamed for what broke elsewhere
\* (but for the two exceptions FairBlame names), no inner text is shown, nobody with a flawed
\* request gets in, and the GC's counters and the MH's connection count come out right.
THEOREM JourneySoundProved == Spec => []JourneySound
<1> DEFINE Inv == part = "journey" => JourneyInv
<1>1. Init => Inv BY JourneyStarts DEF Init
<1>2. Inv /\ [Next]_partVars => Inv'
  <2> SUFFICES ASSUME Inv, [Next]_partVars, part' = "journey" PROVE JourneyInv' OBVIOUS
  <2>1. part = "journey" /\ [JourneyNext]_journeyVars BY DEF Next, partVars
  <2> QED BY <2>1, JourneySteps
<1>3. Inv => JourneySound BY JourneyHolds DEF JourneySound
<1> QED BY <1>1, <1>2, <1>3, PTL DEF Spec

-----------------------------------------------------------------------------
(* Calls.  A request is told by its fate: where its message is, what its    *)
(* caller knows and how often it was done.  The messages of a mailbox are   *)
(* where the fates say, each request at most once (so nothing is done       *)
(* twice) and every waiting one at least once (so nobody is forgotten).     *)

Kinds == ControllerMessage \cup MeetingMessage \cup ParticipantMessage \cup SessionMessage

\* A GetState that the controller has sent for its own caller.
IsQuery(a, r) == a = "meeting" /\ asked[r] = "GetMeeting"

\* A message is where the fate of its request says.
Placed(a, m) ==
    \/ IsQuery(a, m.req) /\ m.kind = "GetState"
    \/ fate[m.req] = "queued" /\ a = Receiver(asked[m.req]) /\ m.kind = asked[m.req]
    \/ fate[m.req] = "forwarded" /\ a = "meeting" /\ m.kind = "ConnectionJoin"

CallsTyped ==
    /\ CallsTypeOK
    /\ asked \in [Request -> Kinds \cup {"none"}] /\ done \in [Request -> Nat]
    /\ monitor \in [Actor -> [depth: Nat, peak: Nat, processed: Nat]]

Failed(r) == \E a \in {Receiver(asked[r]), "meeting"} : actor[a] = "panicked"

Story(r) ==
    /\ fate[r] = "none" <=> asked[r] = "none"
    /\ fate[r] = "none" => answers[r] = "none" /\ done[r] = 0
    /\ fate[r] = "sending" => answers[r] = "pending" /\ done[r] = 0
    /\ fate[r] \in {"queued", "relayed", "forwarded"} =>
          /\ done[r] = 0
          /\ answers[r] \in {"pending", "given_up"} \/ (answers[r] = "ok" /\ asked[r] \in Tell)
    /\ fate[r] \in {"relayed", "forwarded"} => asked[r] = "JoinConnection"
    /\ fate[r] = "handled" =>
          /\ answers[r] \in {"ok", "not_found", "zeros", "given_up"} /\ done[r] <= 1
          /\ answers[r] = "ok" => done[r] = 1
    /\ fate[r] = "dropped" =>
          /\ \/ answers[r] \in {"send_failed", "receive_failed", "default", "given_up"}
             \/ answers[r] = "ok" /\ asked[r] \in Tell
          /\ done[r] <= 1
          /\ answers[r] = "send_failed" => done[r] = 0
          /\ done[r] = 1 => Failed(r)

Stories == \A r \in Request : Story(r)

\* Every message is in its place, and no request is in a place twice.
Places ==
    \A a \in Actor :
        /\ \A i \in 1..Len(mailbox[a]) : Placed(a, mailbox[a][i])
        /\ busy[a] # NoMail => Placed(a, busy[a])
        /\ \A i, j \in 1..Len(mailbox[a]) :
              i # j /\ mailbox[a][i].req = mailbox[a][j].req => IsQuery(a, mailbox[a][i].req)
        /\ busy[a] # NoMail => \A i \in 1..Len(mailbox[a]) :
              mailbox[a][i].req = busy[a].req => IsQuery(a, busy[a].req)

\* The actor that has the message of a waiting request, and the message.
At(r) == IF fate[r] = "forwarded" THEN "meeting" ELSE Receiver(asked[r])
Has(a, r) == \/ busy[a] # NoMail /\ busy[a].req = r
             \/ \E i \in 1..Len(mailbox[a]) : mailbox[a][i].req = r
Kept == \A r \in Request : fate[r] \in {"queued", "forwarded"} => Has(At(r), r)

\* The controller's own call.
Queries ==
    /\ query # "none" => busy["controller"] # NoMail /\ busy["controller"].kind = "GetMeeting"
    /\ query = "queued" => \E r \in Request : asked[r] = "GetMeeting" /\ Has("meeting", r)
    /\ query = "failed" => Gone("meeting")

Endings ==
    /\ \A a \in Actor : /\ actor[a] # "running" => busy[a] = NoMail
                        /\ Gone(a) => mailbox[a] = <<>>
    /\ actor["session"] \in {"running", "panicked"} /\ ~cancelled["session"]
    /\ ~managed => cancelled["meeting"] \/ Gone("meeting")

CallsInv == CallsTyped /\ Stories /\ Places /\ Kept /\ Queries /\ Endings /\ MadeUpOnlyWhenGone /\ DepthInHand

LEMMA KindFacts ==
    /\ \A k \in ControllerMessage : Receiver(k) = "controller"
    /\ \A k \in MeetingMessage : Receiver(k) = "meeting"
    /\ \A k \in ParticipantMessage : Receiver(k) = "participant"
    /\ \A k \in SessionMessage : Receiver(k) = "session"
    /\ \A k \in Kinds : Receiver(k) \in Actor
    /\ "none" \notin Kinds
  BY DEF Receiver, ControllerMessage, MeetingMessage, ParticipantMessage, SessionMessage, Kinds, Actor

LEMMA MailFacts ==
    /\ \A m \in Mail : m # NoMail /\ m.req \in Request /\ m.kind \in Kinds
    /\ \A r \in Request, k \in Kinds : [req |-> r, kind |-> k] \in Mail
<1>1. \A m \in Mail : m # NoMail
  <2> SUFFICES ASSUME NEW m \in Mail, m = NoMail PROVE FALSE OBVIOUS
  <2>1. DOMAIN m = {"req", "kind"} BY DEF Mail
  <2>2. DOMAIN NoMail = 1..0 BY DEF NoMail
  <2> QED BY <2>1, <2>2
<1> QED BY <1>1 DEF Mail, Kinds

\* A message put into the mailbox of its actor is in its place, and only there.
LEMMA PostKeeps ==
    ASSUME CallsTyped, Stories, Places, Kept, NEW r \in Request, NEW a \in Actor, NEW k \in Kinds, NEW f \in Fates,
           fate[r] \notin {"queued", "forwarded"}, ~IsQuery(a, r),
           \/ f = "queued" /\ a = Receiver(asked[r]) /\ k = asked[r]
           \/ f = "forwarded" /\ a = "meeting" /\ k = "ConnectionJoin",
           mailbox' = [mailbox EXCEPT ![a] = Append(@, [req |-> r, kind |-> k])],
           fate' = [fate EXCEPT ![r] = f], UNCHANGED <<busy, asked>>
    PROVE  Places' /\ Kept'
<1> DEFINE m == [req |-> r, kind |-> k]
<1>1. m \in Mail /\ m.req = r /\ m.kind = k BY MailFacts
<1>2. /\ mailbox \in [Actor -> Seq(Mail)] /\ busy \in [Actor -> Mail \cup {NoMail}]
      /\ fate \in [Request -> Fates] /\ asked \in [Request -> Kinds \cup {"none"}] BY DEF CallsTyped, CallsTypeOK
<1>3. /\ Len(mailbox'[a]) = Len(mailbox[a]) + 1 /\ mailbox'[a][Len(mailbox[a]) + 1] = m
      /\ \A i \in 1..Len(mailbox[a]) : mailbox'[a][i] = mailbox[a][i]
      /\ \A b \in Actor \ {a} : mailbox'[b] = mailbox[b]
      /\ Len(mailbox[a]) \in Nat
  BY <1>1, <1>2
<1>4. \A b \in Actor : \A i \in 1..Len(mailbox[b]) : mailbox[b][i] \in Mail /\ mailbox[b][i].req \in Request BY <1>2, MailFacts
<1>5. \A b \in Actor : busy[b] # NoMail => busy[b] \in Mail /\ busy[b].req \in Request BY <1>2, MailFacts
<1>6. \A b \in Actor : Len(mailbox[b]) \in Nat BY <1>2
<1>7. fate'[r] = f /\ \A q \in Request \ {r} : fate'[q] = fate[q] BY <1>2
<1>8. asked' = asked /\ busy' = busy OBVIOUS
<1>9. ASSUME NEW b \in Actor, NEW x \in Mail, Placed(b, x), x.req \in Request PROVE Placed(b, x)' /\ (IsQuery(b, x.req) \/ x.req # r)
  BY <1>7, <1>8, <1>9 DEF Placed, IsQuery
<1>10. Placed(a, m)' BY <1>1, <1>7, <1>8 DEF Placed
<1> HIDE DEF m
<1>11. Places'
  <2> SUFFICES ASSUME NEW b \in Actor PROVE
        /\ \A i \in 1..Len(mailbox'[b]) : Placed(b, mailbox[b][i])'
        /\ busy'[b] # NoMail => Placed(b, busy[b])'
        /\ \A i, j \in 1..Len(mailbox'[b]) :
              i # j /\ mailbox'[b][i].req = mailbox'[b][j].req => IsQuery(b, mailbox[b][i].req)'
        /\ busy'[b] # NoMail => \A i \in 1..Len(mailbox'[b]) :
              mailbox'[b][i].req = busy'[b].req => IsQuery(b, busy[b].req)'
    BY DEF Places
  <2>1. /\ \A i \in 1..Len(mailbox[b]) : Placed(b, mailbox[b][i])
        /\ busy[b] # NoMail => Placed(b, busy[b])
        /\ \A i, j \in 1..Len(mailbox[b]) :
              i # j /\ mailbox[b][i].req = mailbox[b][j].req => IsQuery(b, mailbox[b][i].req)
        /\ busy[b] # NoMail => \A i \in 1..Len(mailbox[b]) :
              mailbox[b][i].req = busy[b].req => IsQuery(b, busy[b].req) BY DEF Places
  <2>2. \A x : IsQuery(b, x)' = IsQuery(b, x) BY <1>8 DEF IsQuery
  <2>3. \A i \in 1..Len(mailbox[b]) : Placed(b, mailbox[b][i])' /\ (IsQuery(b, mailbox[b][i].req) \/ mailbox[b][i].req # r)
    BY <1>4, <1>9, <2>1
  <2>4. busy[b] # NoMail => Placed(b, busy[b])' /\ (IsQuery(b, busy[b].req) \/ busy[b].req # r) BY <1>5, <1>9, <1>8, <2>1
  <2>5. CASE b # a
    <3>1. mailbox'[b] = mailbox[b] BY <1>3, <2>5
    <3>2. \A i \in 1..Len(mailbox'[b]) : Placed(b, mailbox[b][i])' BY <3>1, <2>3
    <3>3. \A i, j \in 1..Len(mailbox'[b]) :
              i # j /\ mailbox'[b][i].req = mailbox'[b][j].req => IsQuery(b, mailbox[b][i].req)'
      <4> SUFFICES ASSUME NEW i \in 1..Len(mailbox'[b]), NEW j \in 1..Len(mailbox'[b]), i # j,
                          mailbox'[b][i].req = mailbox'[b][j].req
                   PROVE  IsQuery(b, mailbox'[b][i].req)
        BY <1>8 DEF IsQuery
      <4>1. i \in 1..Len(mailbox[b]) /\ j \in 1..Len(mailbox[b]) /\ mailbox[b][i].req = mailbox[b][j].req BY <3>1
      <4>2. IsQuery(b, mailbox[b][i].req) BY <4>1, <2>1
      <4> QED BY <4>2, <3>1
    <3>4. busy'[b] # NoMail => \A i \in 1..Len(mailbox'[b]) :
              mailbox'[b][i].req = busy'[b].req => IsQuery(b, busy[b].req)'
      BY <3>1, <2>1, <1>8 DEF IsQuery
    <3> QED BY <3>2, <3>3, <3>4, <2>4, <1>8
  <2>6. CASE b = a
    <3>1. \A i \in 1..Len(mailbox'[b]) : i \in 1..Len(mailbox[b]) \/ mailbox'[b][i] = m BY <1>3, <2>6
    <3>2. \A i \in 1..Len(mailbox'[b]) : Placed(b, mailbox[b][i])'
      BY <1>3, <1>10, <2>3, <2>6, <3>1 DEF Placed, IsQuery
    <3>3. \A i, j \in 1..Len(mailbox'[b]) :
              i # j /\ mailbox'[b][i].req = mailbox'[b][j].req => IsQuery(b, mailbox[b][i].req)'
      BY <1>1, <1>3, <2>1, <2>2, <2>3, <2>6, <3>1 DEF IsQuery
    <3> QED BY <1>1, <1>3, <1>8, <2>1, <2>2, <2>3, <2>4, <2>6, <3>1, <3>2, <3>3 DEF Placed, IsQuery
  <2> QED BY <2>5, <2>6
<1>12. Kept'
  <2> SUFFICES ASSUME NEW q \in Request, fate'[q] \in {"queued", "forwarded"} PROVE Has(At(q), q)'
    BY DEF Kept
  <2>1. CASE q = r
    <3>1. At(r)' = a BY <2>1, <1>7, <1>8 DEF At
    <3>2. Has(a, r)' BY <1>1, <1>3 DEF Has
    <3> QED BY <2>1, <3>1, <3>2 DEF Has
  <2>2. CASE q # r
    <3>1. Has(At(q), q) /\ At(q)' = At(q) BY <2>2, <1>7, <1>8 DEF Kept, At
    <3>2. At(q) \in Actor BY <1>2, <1>7, <2>2, KindFacts DEF At, Actor, Stories, Story
    <3> QED BY <3>1, <1>3, <1>8, <1>6 DEF Has
  <2> QED BY <2>1, <2>2
<1> QED BY <1>11, <1>12

\* What is known of the messages of an actor.
LEMMA AtHand ==
    ASSUME CallsTyped, Places, NEW a \in Actor
    PROVE  /\ Len(mailbox[a]) \in Nat
           /\ \A i \in 1..Len(mailbox[a]) : /\ mailbox[a][i] \in Mail /\ mailbox[a][i].req \in Request
                                            /\ Placed(a, mailbox[a][i])
           /\ busy[a] # NoMail => busy[a] \in Mail /\ busy[a].req \in Request /\ Placed(a, busy[a])
           /\ \A i, j \in 1..Len(mailbox[a]) :
                 i # j /\ mailbox[a][i].req = mailbox[a][j].req => IsQuery(a, mailbox[a][i].req)
           /\ busy[a] # NoMail => \A i \in 1..Len(mailbox[a]) :
                 mailbox[a][i].req = busy[a].req => IsQuery(a, busy[a].req)
<1>1. mailbox[a] \in Seq(Mail) /\ busy[a] \in Mail \cup {NoMail} BY DEF CallsTyped, CallsTypeOK
<1>2. \A i \in 1..Len(mailbox[a]) : mailbox[a][i] \in Mail BY <1>1
<1> QED BY <1>1, <1>2, MailFacts DEF Places

\* The same of its requests: at most one place has each that is not a query.
LEMMA OnePlace ==
    ASSUME CallsTyped, Stories, Places, NEW r \in Request, NEW a \in Actor, Has(a, r)
    PROVE  IsQuery(a, r) \/ (fate[r] \in {"queued", "forwarded"} /\ a = At(r))
<1>1. PICK m \in Mail : m.req = r /\ Placed(a, m) BY AtHand DEF Has
<1> QED BY <1>1 DEF Placed, At

LEMMA AtActor ==
    ASSUME CallsTyped, Stories, NEW r \in Request, fate[r] \in {"queued", "forwarded"}
    PROVE  At(r) \in Actor /\ ~IsQuery(At(r), r)
<1>1. asked[r] \in Kinds BY DEF CallsTyped, Stories, Story
<1>2. fate[r] = "forwarded" => asked[r] = "JoinConnection" BY DEF Stories, Story
<1> QED BY <1>1, <1>2, KindFacts DEF At, IsQuery, Actor, ControllerMessage

\* Steps that only take messages away: what is still in a mailbox or in hand was there
\* before, the requests that were there and are no more have moved on.
LEMMA AwayKeeps ==
    ASSUME CallsTyped, Stories, Places, Kept, UNCHANGED asked,
           \A b \in Actor : /\ Len(mailbox'[b]) \in Nat
                            /\ mailbox'[b] = mailbox[b] \/ Len(mailbox'[b]) = 0
                            /\ busy'[b] = busy[b] \/ busy'[b] = NoMail,
           \A r \in Request : \/ fate'[r] = fate[r]
                              \/ fate'[r] \notin {"queued", "forwarded"} /\ \A b \in Actor : Has(b, r)' => IsQuery(b, r),
           \A r \in Request : fate'[r] \in {"queued", "forwarded"} /\ Has(At(r), r) => Has(At(r), r)'
    PROVE  Places' /\ Kept'
<1>1. Places'
  <2> SUFFICES ASSUME NEW b \in Actor PROVE
        /\ \A i \in 1..Len(mailbox'[b]) : Placed(b, mailbox[b][i])'
        /\ busy'[b] # NoMail => Placed(b, busy[b])'
        /\ \A i, j \in 1..Len(mailbox'[b]) :
              i # j /\ mailbox'[b][i].req = mailbox'[b][j].req => IsQuery(b, mailbox[b][i].req)'
        /\ busy'[b] # NoMail => \A i \in 1..Len(mailbox'[b]) :
              mailbox'[b][i].req = busy'[b].req => IsQuery(b, busy[b].req)'
    BY DEF Places
  <2>0. UNCHANGED asked OBVIOUS
  <2>1. ASSUME NEW i \in 1..Len(mailbox'[b])
        PROVE  i \in 1..Len(mailbox[b]) /\ mailbox'[b][i] = mailbox[b][i]
    OBVIOUS
  <2>2. busy'[b] # NoMail => busy'[b] = busy[b] OBVIOUS
  <2>3. ASSUME NEW m \in Mail, m.req \in Request, Placed(b, m), Has(b, m.req)' PROVE Placed(b, m)'
    <3>1. CASE fate'[m.req] = fate[m.req] BY <2>3, <2>0, <3>1 DEF Placed, IsQuery
    <3>2. CASE IsQuery(b, m.req)
      <4>1. m.kind = "GetState" BY <2>3, <3>2, KindFacts DEF Placed, IsQuery, Stories, Story, ControllerMessage
      <4> QED BY <4>1, <3>2, <2>0 DEF Placed, IsQuery
    <3> QED BY <3>1, <3>2, <2>3
  <2>4. \A i \in 1..Len(mailbox'[b]) : Placed(b, mailbox[b][i])'
    <3> SUFFICES ASSUME NEW i \in 1..Len(mailbox'[b]) PROVE Placed(b, mailbox[b][i])' OBVIOUS
    <3>1. PICK m \in Mail : m = mailbox'[b][i] /\ m.req \in Request /\ Placed(b, m) BY <2>1, AtHand
    <3>2. Has(b, m.req)' BY <3>1 DEF Has
    <3>3. Placed(b, m)' BY <3>1, <3>2, <2>3
    <3> QED BY <3>1, <3>3 DEF Placed, IsQuery
  <2>5. busy'[b] # NoMail => Placed(b, busy[b])'
    <3> SUFFICES ASSUME busy'[b] # NoMail PROVE Placed(b, busy[b])' OBVIOUS
    <3>1. PICK m \in Mail : m = busy'[b] /\ m.req \in Request /\ Placed(b, m) BY <2>2, AtHand
    <3>2. Has(b, m.req)' BY <3>1 DEF Has
    <3>3. Placed(b, m)' BY <3>1, <3>2, <2>3
    <3> QED BY <3>1, <3>3 DEF Placed, IsQuery
  <2>6. \A i, j \in 1..Len(mailbox'[b]) :
              i # j /\ mailbox'[b][i].req = mailbox'[b][j].req => IsQuery(b, mailbox[b][i].req)'
    <3> SUFFICES ASSUME NEW i \in 1..Len(mailbox'[b]), NEW j \in 1..Len(mailbox'[b]), i # j,
                        mailbox'[b][i].req = mailbox'[b][j].req
                 PROVE  IsQuery(b, mailbox'[b][i].req)
      BY <2>0 DEF IsQuery
    <3> QED BY <2>1, AtHand
  <2>7. busy'[b] # NoMail => \A i \in 1..Len(mailbox'[b]) :
              mailbox'[b][i].req = busy'[b].req => IsQuery(b, busy[b].req)'
    <3> SUFFICES ASSUME busy'[b] # NoMail, NEW i \in 1..Len(mailbox'[b]), mailbox'[b][i].req = busy'[b].req
                 PROVE  IsQuery(b, busy'[b].req)
      BY <2>0 DEF IsQuery
    <3> QED BY <2>1, <2>2, AtHand
  <2> QED BY <2>4, <2>5, <2>6, <2>7
<1>2. Kept'
  <2> SUFFICES ASSUME NEW q \in Request, fate'[q] \in {"queued", "forwarded"} PROVE Has(At(q), q)'
    BY DEF Kept
  <2>1. fate'[q] = fate[q] OBVIOUS
  <2>2. Has(At(q), q) BY <2>1 DEF Kept
  <2> QED BY <2>2
<1> QED BY <1>1, <1>2

\* The message in hand is done with.
LEMMA FinishKeeps ==
    ASSUME CallsTyped, Stories, Places, Kept, NEW a \in Actor, busy[a] # NoMail, ~IsQuery(a, busy[a].req),
           NEW f \in Fates \ {"queued", "forwarded"}, UNCHANGED <<mailbox, asked>>,
           busy' = [busy EXCEPT ![a] = NoMail], fate' = [fate EXCEPT ![busy[a].req] = f]
    PROVE  Places' /\ Kept'
<1>0. PICK r \in Request : r = busy[a].req BY AtHand
<1>1. /\ \A b \in Actor : mailbox'[b] = mailbox[b] /\ (busy'[b] = busy[b] \/ busy'[b] = NoMail)
      /\ busy'[a] = NoMail /\ \A b \in Actor \ {a} : busy'[b] = busy[b]
      /\ asked' = asked /\ fate'[r] = f /\ \A q \in Request \ {r} : fate'[q] = fate[q]
  BY <1>0 DEF CallsTyped, CallsTypeOK
<1>2. \A b \in Actor : Len(mailbox'[b]) \in Nat BY <1>1, AtHand
<1>3. ASSUME NEW b \in Actor, Has(b, r)' PROVE IsQuery(b, r)
  <2>1. Has(b, r) BY <1>1, <1>3 DEF Has
  <2>2. Has(a, r) BY <1>0 DEF Has
  <2>3. CASE b # a BY <2>1, <2>2, <2>3, <1>0, OnePlace
  <2>4. CASE b = a
    <3>1. PICK i \in 1..Len(mailbox[a]) : mailbox[a][i].req = r BY <1>1, <1>3, <2>4 DEF Has
    <3> QED BY <3>1, <2>4, <1>0, AtHand
  <2> QED BY <2>3, <2>4
<1>4. ASSUME NEW q \in Request, fate'[q] \in {"queued", "forwarded"}, Has(At(q), q) PROVE Has(At(q), q)'
  <2>1. q # r /\ fate'[q] = fate[q] BY <1>1, <1>4
  <2>2. PICK b \in Actor : b = At(q) /\ Has(b, q) BY <2>1, <1>4, AtActor
  <2>3. At(q)' = b BY <2>1, <2>2, <1>1, <1>4 DEF At
  <2>4. Has(b, q)' BY <2>1, <2>2, <1>0, <1>1 DEF Has
  <2> QED BY <2>3, <2>4 DEF Has
<1>5. \A q \in Request : \/ fate'[q] = fate[q]
                         \/ fate'[q] \notin {"queued", "forwarded"} /\ \A b \in Actor : Has(b, q)' => IsQuery(b, q)
  BY <1>1, <1>3
<1> QED BY <1>1, <1>2, <1>4, <1>5, AwayKeeps

\* The meeting has answered a query.
LEMMA AnsweredKeeps ==
    ASSUME CallsTyped, Stories, Places, Kept, busy["meeting"] # NoMail, IsQuery("meeting", busy["meeting"].req),
           UNCHANGED <<mailbox, asked, fate>>, busy' = [busy EXCEPT !["meeting"] = NoMail]
    PROVE  Places' /\ Kept'
<1>1. /\ \A b \in Actor : mailbox'[b] = mailbox[b] /\ (busy'[b] = busy[b] \/ busy'[b] = NoMail)
      /\ \A b \in Actor \ {"meeting"} : busy'[b] = busy[b]
      /\ asked' = asked /\ fate' = fate
  BY DEF CallsTyped, CallsTypeOK
<1>2. \A b \in Actor : Len(mailbox'[b]) \in Nat BY <1>1, AtHand
<1>4. ASSUME NEW q \in Request, fate'[q] \in {"queued", "forwarded"}, Has(At(q), q) PROVE Has(At(q), q)'
  <2>1. At(q)' = At(q) /\ At(q) \in Actor /\ ~IsQuery(At(q), q) BY <1>1, <1>4, AtActor DEF At
  <2> QED BY <2>1, <1>1, <1>4 DEF Has
<1>5. \A q \in Request : fate'[q] = fate[q] BY <1>1
<1> QED BY <1>1, <1>2, <1>4, <1>5, AwayKeeps

\* An actor's mailbox is dropped with the message in hand.
LEMMA DropKeeps ==
    ASSUME CallsTyped, Stories, Places, Kept, NEW a \in Actor, NEW lost, UNCHANGED asked, Drop(a, lost),
           \A r \in Request : r \in lost <=> Has(a, r) /\ ~IsQuery(a, r)
    PROVE  Places' /\ Kept'
<1>1. /\ mailbox'[a] = <<>> /\ busy'[a] = NoMail /\ asked' = asked
      /\ \A b \in Actor \ {a} : mailbox'[b] = mailbox[b] /\ busy'[b] = busy[b]
      /\ \A r \in Request : fate'[r] = IF r \in lost THEN "dropped" ELSE fate[r]
  BY DEF CallsTyped, CallsTypeOK, Drop
<1>2. \A b \in Actor : /\ Len(mailbox'[b]) \in Nat /\ (mailbox'[b] = mailbox[b] \/ Len(mailbox'[b]) = 0)
                       /\ busy'[b] = busy[b] \/ busy'[b] = NoMail BY <1>1, AtHand
<1>3. ASSUME NEW r \in lost, r \in Request, NEW b \in Actor, Has(b, r)' PROVE IsQuery(b, r)
  <2>1. b # a BY <1>1, <1>3 DEF Has
  <2>2. Has(b, r) BY <2>1, <1>1, <1>3 DEF Has
  <2> QED BY <2>1, <2>2, <1>3, OnePlace
<1>4. ASSUME NEW q \in Request, fate'[q] \in {"queued", "forwarded"}, Has(At(q), q) PROVE Has(At(q), q)'
  <2>1. q \notin lost /\ fate'[q] = fate[q] BY <1>1, <1>4
  <2>2. At(q)' = At(q) /\ At(q) \in Actor /\ ~IsQuery(At(q), q) BY <2>1, <1>1, <1>4, AtActor DEF At
  <2>3. At(q) # a BY <2>1, <2>2, <1>4
  <2> QED BY <2>2, <2>3, <1>1, <1>4 DEF Has
<1>5. \A q \in Request : \/ fate'[q] = fate[q]
                         \/ fate'[q] \notin {"queued", "forwarded"} /\ \A b \in Actor : Has(b, q)' => IsQuery(b, q)
  BY <1>1, <1>3
<1> QED BY <1>1, <1>2, <1>4, <1>5, AwayKeeps

\* recv takes the first message of the mailbox in hand.
LEMMA TakeKeeps ==
    ASSUME CallsTyped, Stories, Places, Kept, NEW a \in Actor, busy[a] = NoMail, mailbox[a] # <<>>,
           busy' = [busy EXCEPT ![a] = Head(mailbox[a])], mailbox' = [mailbox EXCEPT ![a] = Tail(@)],
           UNCHANGED <<asked, fate>>
    PROVE  Places' /\ Kept' /\ \A b \in Actor, r \in Request : Has(b, r)' <=> Has(b, r)
<1>0. mailbox \in [Actor -> Seq(Mail)] /\ busy \in [Actor -> Mail \cup {NoMail}] BY DEF CallsTyped, CallsTypeOK
<1>1. /\ busy'[a] = mailbox[a][1] /\ Len(mailbox'[a]) = Len(mailbox[a]) - 1 /\ 1 \in 1..Len(mailbox[a])
      /\ \A i \in 1..Len(mailbox'[a]) : mailbox'[a][i] = mailbox[a][i + 1] /\ i + 1 \in 1..Len(mailbox[a])
      /\ \A b \in Actor \ {a} : mailbox'[b] = mailbox[b] /\ busy'[b] = busy[b]
      /\ asked' = asked /\ fate' = fate /\ Len(mailbox[a]) \in Nat
  BY <1>0
<1>2. mailbox[a][1] \in Mail /\ busy'[a] # NoMail BY <1>1, AtHand, MailFacts
<1>3. ASSUME NEW b \in Actor, NEW m \in Mail PROVE Placed(b, m)' = Placed(b, m) BY <1>1 DEF Placed, IsQuery
<1>5. Places'
  <2> SUFFICES ASSUME NEW b \in Actor PROVE
        /\ \A i \in 1..Len(mailbox'[b]) : Placed(b, mailbox[b][i])'
        /\ busy'[b] # NoMail => Placed(b, busy[b])'
        /\ \A i, j \in 1..Len(mailbox'[b]) :
              i # j /\ mailbox'[b][i].req = mailbox'[b][j].req => IsQuery(b, mailbox[b][i].req)'
        /\ busy'[b] # NoMail => \A i \in 1..Len(mailbox'[b]) :
              mailbox'[b][i].req = busy'[b].req => IsQuery(b, busy[b].req)'
    BY DEF Places
  <2>1. \A i \in 1..Len(mailbox'[b]) : Placed(b, mailbox'[b][i]) BY <1>1, AtHand
  <2>2. busy'[b] # NoMail => Placed(b, busy'[b]) BY <1>1, AtHand
  <2>3. ASSUME NEW i \in 1..Len(mailbox'[b]), NEW j \in 1..Len(mailbox'[b]), i # j, mailbox'[b][i].req = mailbox'[b][j].req
        PROVE  IsQuery(b, mailbox'[b][i].req)
    <3>1. CASE b = a
      <4>1. i + 1 # j + 1 BY <2>3, <1>1
      <4> QED BY <1>1, <2>3, <3>1, <4>1, AtHand
    <3>2. CASE b # a BY <1>1, <2>3, <3>2, AtHand
    <3> QED BY <3>1, <3>2
  <2>4. ASSUME NEW i \in 1..Len(mailbox'[b]), busy'[b] # NoMail, mailbox'[b][i].req = busy'[b].req
        PROVE  IsQuery(b, busy'[b].req)
    <3>1. CASE b = a
      <4>1. i + 1 # 1 /\ i + 1 \in 1..Len(mailbox[a]) BY <1>1, <3>1
      <4> QED BY <1>1, <2>4, <3>1, <4>1, AtHand
    <3>2. CASE b # a BY <1>1, <2>4, <3>2, AtHand
    <3> QED BY <3>1, <3>2
  <2>5. ASSUME NEW i \in 1..Len(mailbox'[b]) PROVE Placed(b, mailbox[b][i])'
    <3>1. PICK m \in Mail : m = mailbox'[b][i] /\ Placed(b, m) BY <2>1, <1>1, AtHand
    <3>2. Placed(b, m)' BY <3>1, <1>3
    <3> QED BY <3>1, <3>2 DEF Placed, IsQuery
  <2>6. busy'[b] # NoMail => Placed(b, busy[b])' BY <2>2, <1>1 DEF Placed, IsQuery
  <2>7. \A i, j \in 1..Len(mailbox'[b]) :
              i # j /\ mailbox'[b][i].req = mailbox'[b][j].req => IsQuery(b, mailbox[b][i].req)'
    BY <2>3, <1>1 DEF IsQuery
  <2>8. busy'[b] # NoMail => \A i \in 1..Len(mailbox'[b]) :
              mailbox'[b][i].req = busy'[b].req => IsQuery(b, busy[b].req)'
    BY <2>4, <1>1 DEF IsQuery
  <2> QED BY <2>5, <2>6, <2>7, <2>8
<1>6. ASSUME NEW b \in Actor, NEW r \in Request PROVE Has(b, r)' <=> Has(b, r)
  <2>1. CASE b # a BY <1>1, <2>1 DEF Has
  <2>2. CASE b = a
    <3>1. ASSUME Has(a, r) PROVE Has(a, r)'
      <4>1. PICK i \in 1..Len(mailbox[a]) : mailbox[a][i].req = r BY <3>1 DEF Has
      <4>2. CASE i = 1 BY <1>1, <1>2, <4>1, <4>2 DEF Has
      <4>3. CASE i # 1
        <5>1. i - 1 \in 1..Len(mailbox'[a]) /\ mailbox'[a][i - 1].req = r BY <1>1, <4>1, <4>3
        <5> QED BY <5>1 DEF Has
      <4> QED BY <4>2, <4>3
    <3>2. ASSUME Has(a, r)' PROVE Has(a, r) BY <1>1, <1>2, <3>2 DEF Has
    <3> QED BY <2>2, <3>1, <3>2 DEF Has
  <2> QED BY <2>1, <2>2
<1>7. Kept'
  <2> SUFFICES ASSUME NEW q \in Request, fate'[q] \in {"queued", "forwarded"} PROVE Has(At(q), q)'
    BY DEF Kept
  <2>1. PICK b \in Actor : b = At(q) /\ Has(b, q) BY <1>1, AtActor DEF Kept
  <2>2. At(q)' = b BY <2>1, <1>1 DEF At
  <2>3. Has(b, q)' BY <2>1, <1>6
  <2> QED BY <2>2, <2>3 DEF Has
<1> QED BY <1>5, <1>6, <1>7

\* Endings and cancellations are for good.
Grows == \A a \in Actor : /\ actor[a] = "panicked" => actor'[a] = "panicked"
                          /\ Gone(a) => Gone(a)'
                          /\ cancelled[a] => cancelled'[a]

LEMMA GrowsSame == ASSUME UNCHANGED <<actor, cancelled>> PROVE Grows
  BY DEF Grows, Gone

LEMMA SameStory ==
    ASSUME NEW r \in Request, Story(r), Grows, asked[r] \in Kinds \cup {"none"}, asked'[r] = asked[r], fate'[r] = fate[r],
           answers'[r] = answers[r], done'[r] = done[r]
    PROVE  Story(r)'
<1>1. asked[r] \in Kinds => (Failed(r) => Failed(r)') BY KindFacts DEF Failed, Grows, Actor
<1> QED BY <1>1 DEF Story

LEMMA MadeUpKeeps ==
    ASSUME MadeUpOnlyWhenGone, Grows,
           \A q \in Request : answers'[q] = answers[q] \/ answers'[q] \notin {"zeros", "not_found", "default"}
    PROVE  MadeUpOnlyWhenGone'
<1>1. "meeting" \in Actor /\ "session" \in Actor BY DEF Actor
<1> QED BY <1>1 DEF MadeUpOnlyWhenGone, Grows

LEMMA AskKeeps ==
    ASSUME CallsInv, NEW r \in Request, NEW kind \in Asked, Ask(r, kind)
    PROVE  CallsInv'
<1>1. kind \in Kinds BY CallsAssumption DEF Kinds
<1>2. /\ CallsTyped /\ Stories /\ Places /\ Kept /\ Queries /\ Endings /\ MadeUpOnlyWhenGone /\ DepthInHand
      /\ asked \in [Request -> Kinds \cup {"none"}] /\ fate \in [Request -> Fates] /\ answers \in [Request -> Answers]
  BY DEF CallsInv, CallsTyped, CallsTypeOK
<1>3. /\ asked'[r] = kind /\ fate'[r] = "sending" /\ answers'[r] = "pending" /\ asked[r] = "none"
      /\ \A q \in Request \ {r} : asked'[q] = asked[q] /\ fate'[q] = fate[q] /\ answers'[q] = answers[q]
      /\ UNCHANGED <<mailbox, busy, actor, cancelled, managed, query, done, told, monitor>>
  BY <1>2 DEF Ask
<1>4. Grows BY <1>3, GrowsSame
<1>5. fate[r] = "none" /\ done[r] = 0 BY <1>2, <1>3 DEF Stories, Story
<1>6. CallsTyped'
  <2>1. asked' \in [Request -> Kinds \cup {"none"}] BY <1>1, <1>2 DEF Ask
  <2>2. fate' \in [Request -> Fates] BY <1>2 DEF Ask, Fates
  <2>3. answers' \in [Request -> Answers] BY <1>2 DEF Ask, Answers
  <2> QED BY <2>1, <2>2, <2>3, <1>2, <1>3 DEF CallsTyped, CallsTypeOK
<1>7. Stories'
  <2> SUFFICES ASSUME NEW q \in Request PROVE Story(q)' BY DEF Stories
  <2>1. CASE q = r BY <2>1, <1>1, <1>3, <1>5, KindFacts DEF Story
  <2>2. CASE q # r BY <2>2, <1>2, <1>3, <1>4, SameStory DEF Stories
  <2> QED BY <2>1, <2>2
<1>8. \A b \in Actor : ~Has(b, r)
  BY <1>2, <1>3, <1>5, OnePlace DEF IsQuery
<1>9. Places'
  <2>1. ASSUME NEW b \in Actor, NEW m \in Mail, Placed(b, m), m.req \in Request, Has(b, m.req)
        PROVE  Placed(b, m)' /\ IsQuery(b, m.req)' = IsQuery(b, m.req)
    BY <1>3, <1>8, <2>1 DEF Placed, IsQuery
  <2> SUFFICES ASSUME NEW b \in Actor PROVE
        /\ \A i \in 1..Len(mailbox'[b]) : Placed(b, mailbox[b][i])'
        /\ busy'[b] # NoMail => Placed(b, busy[b])'
        /\ \A i, j \in 1..Len(mailbox'[b]) :
              i # j /\ mailbox'[b][i].req = mailbox'[b][j].req => IsQuery(b, mailbox[b][i].req)'
        /\ busy'[b] # NoMail => \A i \in 1..Len(mailbox'[b]) :
              mailbox'[b][i].req = busy'[b].req => IsQuery(b, busy[b].req)'
    BY DEF Places
  <2>2. ASSUME NEW i \in 1..Len(mailbox[b])
        PROVE  Placed(b, mailbox[b][i])' /\ (IsQuery(b, mailbox[b][i].req) => IsQuery(b, mailbox[b][i].req)')
    <3>1. PICK m \in Mail : m = mailbox[b][i] /\ m.req \in Request /\ Placed(b, m) /\ Has(b, m.req) BY <1>2, AtHand DEF Has
    <3>2. Placed(b, m)' /\ IsQuery(b, m.req)' = IsQuery(b, m.req) BY <3>1, <2>1
    <3> QED BY <3>1, <3>2, <1>3 DEF Placed, IsQuery
  <2>3. ASSUME busy[b] # NoMail
        PROVE  Placed(b, busy[b])' /\ (IsQuery(b, busy[b].req) => IsQuery(b, busy[b].req)')
    <3>1. PICK m \in Mail : m = busy[b] /\ m.req \in Request /\ Placed(b, m) /\ Has(b, m.req) BY <1>2, <2>3, AtHand DEF Has
    <3>2. Placed(b, m)' /\ IsQuery(b, m.req)' = IsQuery(b, m.req) BY <3>1, <2>1
    <3> QED BY <3>1, <3>2, <1>3 DEF Placed, IsQuery
  <2> QED BY <1>2, <1>3, <2>2, <2>3, AtHand
<1>10. Kept'
  <2> SUFFICES ASSUME NEW q \in Request, fate'[q] \in {"queued", "forwarded"} PROVE Has(At(q), q)' BY DEF Kept
  <2>1. q # r /\ fate'[q] = fate[q] /\ asked'[q] = asked[q] BY <1>3
  <2> QED BY <2>1, <1>2, <1>3 DEF Kept, Has, At
<1>11. Queries'
  <2>1. \A q \in Request : asked[q] = "GetMeeting" => asked'[q] = "GetMeeting" BY <1>3
  <2>2. \A q \in Request : Has("meeting", q) => Has("meeting", q)' BY <1>3 DEF Has
  <2> QED BY <2>1, <2>2, <1>2, <1>3 DEF Queries, Gone
<1>12. Endings' BY <1>2, <1>3 DEF Endings, Gone
<1>13. MadeUpOnlyWhenGone' BY <1>2, <1>3, <1>4, MadeUpKeeps
<1>14. DepthInHand' BY <1>2, <1>3 DEF DepthInHand
<1> QED BY <1>6, <1>7, <1>9, <1>10, <1>11, <1>12, <1>13, <1>14 DEF CallsInv

\* A message is added to a mailbox with a free slot.
LEMMA Appended ==
    ASSUME CallsTyped, NEW a \in Actor, NEW m \in Mail, Len(mailbox[a]) + told[a] < Room, UNCHANGED <<busy, told>>,
           mailbox' = [mailbox EXCEPT ![a] = Append(@, m)]
    PROVE  /\ mailbox' \in [Actor -> Seq(Mail)] /\ \A b \in Actor : Len(mailbox'[b]) + told'[b] <= Room
           /\ \A b \in Actor : /\ Len(mailbox'[b]) >= Len(mailbox[b]) /\ Len(mailbox[b]) \in Nat /\ Len(mailbox'[b]) \in Nat
                                /\ \A i \in 1..Len(mailbox[b]) : mailbox'[b][i] = mailbox[b][i]
           /\ \A b \in Actor \ {a} : mailbox'[b] = mailbox[b]
           /\ Len(mailbox'[a]) = Len(mailbox[a]) + 1 /\ mailbox'[a][Len(mailbox[a]) + 1] = m
           /\ \A b \in Actor, q \in Request : Has(b, q) => Has(b, q)'
<1>1. /\ mailbox \in [Actor -> Seq(Mail)] /\ told \in [Actor -> Nat]
      /\ \A b \in Actor : Len(mailbox[b]) + told[b] <= Room BY DEF CallsTyped, CallsTypeOK
<1>2. Append(mailbox[a], m) \in Seq(Mail) /\ Len(Append(mailbox[a], m)) = Len(mailbox[a]) + 1
      /\ Len(mailbox[a]) \in Nat BY <1>1
<1>3. mailbox'[a] = Append(mailbox[a], m) /\ \A b \in Actor \ {a} : mailbox'[b] = mailbox[b] BY <1>1
<1>4. mailbox' \in [Actor -> Seq(Mail)] BY <1>1, <1>2
<1>5. \A b \in Actor : Len(mailbox'[b]) + told'[b] <= Room BY <1>1, <1>2, <1>3, CallsAssumption
<1>6. \A b \in Actor : /\ Len(mailbox'[b]) >= Len(mailbox[b]) /\ Len(mailbox[b]) \in Nat /\ Len(mailbox'[b]) \in Nat
                       /\ \A i \in 1..Len(mailbox[b]) : mailbox'[b][i] = mailbox[b][i]
  BY <1>1, <1>2, <1>3, <1>4
<1>7. mailbox'[a][Len(mailbox[a]) + 1] = m BY <1>1, <1>3
<1> QED BY <1>2, <1>3, <1>4, <1>5, <1>6, <1>7 DEF Has

LEMMA SendKeeps ==
    ASSUME CallsInv, NEW r \in Request, Send(r)
    PROVE  CallsInv'
<1>2. /\ CallsTyped /\ Stories /\ Places /\ Kept /\ Queries /\ Endings /\ MadeUpOnlyWhenGone /\ DepthInHand
      /\ asked \in [Request -> Kinds \cup {"none"}] /\ fate \in [Request -> Fates] /\ answers \in [Request -> Answers]
  BY DEF CallsInv, CallsTyped, CallsTypeOK
<1>0. PICK a : a = Receiver(asked[r]) OBVIOUS
<1>3. /\ fate[r] = "sending"
      /\ \A q \in Request \ {r} : fate'[q] = fate[q] /\ answers'[q] = answers[q]
      /\ UNCHANGED <<busy, actor, cancelled, managed, query, done, told, monitor, asked>>
      /\ \/ /\ ~Gone(a) /\ Len(mailbox[a]) + told[a] < Room /\ fate'[r] = "queued"
            /\ answers'[r] = IF asked[r] \in Tell THEN "ok" ELSE "pending"
            /\ mailbox' = [mailbox EXCEPT ![a] = Append(@, [req |-> r, kind |-> asked[r]])]
            /\ fate' = [fate EXCEPT ![r] = "queued"]
         \/ /\ Gone(a) /\ fate'[r] = "dropped" /\ answers'[r] = Refusal(a, "send_failed") /\ UNCHANGED mailbox
  BY <1>0, <1>2 DEF Send, Accepts
<1>4. Grows BY <1>3, GrowsSame
<1>5. asked[r] \in Kinds /\ done[r] = 0 /\ answers[r] = "pending" BY <1>2, <1>3 DEF Stories, Story
<1>1. a \in Actor /\ ~IsQuery(a, r) BY <1>0, <1>5, KindFacts DEF IsQuery, ControllerMessage
<1>6. CallsTyped'
  <2>1. fate' \in [Request -> Fates] BY <1>2 DEF Send, Fates
  <2>2. answers' \in [Request -> Answers] BY <1>2 DEF Send, Answers, Refusal
  <2>3. mailbox' \in [Actor -> Seq(Mail)] /\ \A b \in Actor : Len(mailbox'[b]) + told'[b] <= Room
    <3>1. CASE mailbox' = mailbox BY <3>1, <1>2, <1>3 DEF CallsTyped, CallsTypeOK
    <3>2. CASE mailbox' # mailbox BY <3>2, <1>1, <1>2, <1>3, <1>5, MailFacts, Appended
    <3> QED BY <3>1, <3>2
  <2> QED BY <2>1, <2>2, <2>3, <1>2, <1>3 DEF CallsTyped, CallsTypeOK
<1>7. Stories'
  <2> SUFFICES ASSUME NEW q \in Request PROVE Story(q)' BY DEF Stories
  <2>1. CASE q = r BY <2>1, <1>3, <1>5, KindFacts DEF Story, Refusal
  <2>2. CASE q # r BY <2>2, <1>2, <1>3, <1>4, SameStory DEF Stories
  <2> QED BY <2>1, <2>2
<1>8. Places' /\ Kept'
  <2>1. CASE fate'[r] = "queued"
    <3>1. /\ mailbox' = [mailbox EXCEPT ![a] = Append(@, [req |-> r, kind |-> asked[r]])]
          /\ fate' = [fate EXCEPT ![r] = "queued"] BY <2>1, <1>3
    <3> QED BY <3>1, <1>0, <1>1, <1>2, <1>3, <1>5, PostKeeps DEF Fates
  <2>2. CASE fate'[r] = "dropped"
    <3>1. UNCHANGED mailbox BY <2>2, <1>3
    <3>2. \A b \in Actor : ~Has(b, r)' \/ IsQuery(b, r)
      <4> SUFFICES ASSUME NEW b \in Actor, Has(b, r)' PROVE IsQuery(b, r) OBVIOUS
      <4>1. Has(b, r) BY <3>1, <1>3 DEF Has
      <4> QED BY <4>1, <1>2, <1>3, OnePlace
    <3>3. \A q \in Request : fate'[q] \in {"queued", "forwarded"} /\ Has(At(q), q) => Has(At(q), q)'
      BY <2>2, <3>1, <1>3 DEF Has, At
    <3>4. \A q \in Request : \/ fate'[q] = fate[q]
                             \/ fate'[q] \notin {"queued", "forwarded"} /\ \A b \in Actor : Has(b, q)' => IsQuery(b, q)
      BY <2>2, <3>2, <1>3
    <3>5. \A b \in Actor : Len(mailbox'[b]) \in Nat BY <3>1, <1>2, AtHand
    <3> QED BY <3>1, <3>3, <3>4, <3>5, <1>2, <1>3, AwayKeeps
  <2> QED BY <2>1, <2>2, <1>3
<1>11. Queries'
  <2>1. \A q \in Request : Has("meeting", q) => Has("meeting", q)'
    <3>1. CASE mailbox' = mailbox BY <3>1, <1>3 DEF Has
    <3>2. CASE mailbox' # mailbox
      <4>1. "meeting" \in Actor BY DEF Actor
      <4> QED BY <3>2, <4>1, <1>1, <1>2, <1>3, <1>5, MailFacts, Appended
    <3> QED BY <3>1, <3>2
  <2> QED BY <2>1, <1>2, <1>3 DEF Queries, Gone
<1>12. Endings'
  <2>1. \A b \in Actor : Gone(b) => mailbox'[b] = <<>> BY <1>1, <1>2, <1>3 DEF Endings, CallsTyped, CallsTypeOK
  <2> QED BY <2>1, <1>2, <1>3 DEF Endings, Gone
<1>13. MadeUpOnlyWhenGone'
  <2>1. answers'[r] = "default" => actor["session"] = "panicked" BY <1>2, <1>3 DEF Refusal, Endings, Gone
  <2>2. answers'[r] \notin {"zeros", "not_found"} BY <1>3 DEF Refusal
  <2> QED BY <2>1, <2>2, <1>2, <1>3 DEF MadeUpOnlyWhenGone, Gone
<1>14. DepthInHand' BY <1>2, <1>3 DEF DepthInHand
<1> QED BY <1>6, <1>7, <1>8, <1>11, <1>12, <1>13, <1>14 DEF CallsInv

LEMMA SameMail ==
    ASSUME UNCHANGED <<mailbox, busy, asked, fate>>, Places, Kept
    PROVE  Places' /\ Kept' /\ \A b \in Actor, q \in Request : Has(b, q)' = Has(b, q)
<1>1. Places' BY DEF Places, Placed, IsQuery
<1>2. Kept' BY DEF Kept, Has, At
<1>3. \A b \in Actor, q \in Request : Has(b, q)' = Has(b, q) BY DEF Has
<1> QED BY <1>1, <1>2, <1>3

LEMMA AbandonKeeps ==
    ASSUME CallsInv, NEW r \in Request, Abandon(r)
    PROVE  CallsInv'
<1>2. /\ CallsTyped /\ Stories /\ Places /\ Kept /\ Queries /\ Endings /\ MadeUpOnlyWhenGone /\ DepthInHand
      /\ asked \in [Request -> Kinds \cup {"none"}] /\ fate \in [Request -> Fates] /\ answers \in [Request -> Answers]
  BY DEF CallsInv, CallsTyped, CallsTypeOK
<1>3. /\ \A q \in Request \ {r} : fate'[q] = fate[q] /\ answers'[q] = answers[q]
      /\ UNCHANGED <<mailbox, busy, actor, cancelled, managed, query, done, told, monitor, asked>>
      /\ answers[r] = "pending" /\ answers'[r] = "given_up"
      /\ fate'[r] = IF fate[r] = "sending" THEN "dropped" ELSE fate[r]
  BY <1>2 DEF Abandon
<1>4. Grows BY <1>3, GrowsSame
<1>6. CallsTyped'
  <2>1. fate' \in [Request -> Fates] BY <1>2 DEF Abandon, Fates
  <2>2. answers' \in [Request -> Answers] BY <1>2 DEF Abandon, Answers
  <2> QED BY <2>1, <2>2, <1>2, <1>3 DEF CallsTyped, CallsTypeOK
<1>7. Stories'
  <2> SUFFICES ASSUME NEW q \in Request PROVE Story(q)' BY DEF Stories
  <2>1. CASE q = r
    <3>1. Story(r) BY <1>2 DEF Stories
    <3> QED BY <2>1, <3>1, <1>2, <1>3 DEF Story, Fates
  <2>2. CASE q # r BY <2>2, <1>2, <1>3, <1>4, SameStory DEF Stories
  <2> QED BY <2>1, <2>2
<1>8. Places' /\ Kept'
  <2>1. \A b \in Actor : Has(b, r)' /\ fate[r] = "sending" => IsQuery(b, r)
    <3> SUFFICES ASSUME NEW b \in Actor, Has(b, r)', fate[r] = "sending" PROVE IsQuery(b, r) OBVIOUS
    <3>1. Has(b, r) BY <1>3 DEF Has
    <3> QED BY <3>1, <1>2, OnePlace
  <2>2. \A q \in Request : fate'[q] \in {"queued", "forwarded"} /\ Has(At(q), q) => Has(At(q), q)'
    BY <1>3 DEF Has, At
  <2>3. \A q \in Request : \/ fate'[q] = fate[q]
                           \/ fate'[q] \notin {"queued", "forwarded"} /\ \A b \in Actor : Has(b, q)' => IsQuery(b, q)
    BY <2>1, <1>3
  <2>4. \A b \in Actor : Len(mailbox'[b]) \in Nat BY <1>2, <1>3, AtHand
  <2> QED BY <2>2, <2>3, <2>4, <1>2, <1>3, AwayKeeps
<1>11. Queries' BY <1>2, <1>3 DEF Queries, Has, Gone
<1>12. Endings' BY <1>2, <1>3 DEF Endings, Gone
<1>13. MadeUpOnlyWhenGone' BY <1>2, <1>3, <1>4, MadeUpKeeps
<1>14. DepthInHand' BY <1>2, <1>3 DEF DepthInHand
<1> QED BY <1>6, <1>7, <1>8, <1>11, <1>12, <1>13, <1>14 DEF CallsInv

LEMMA MonitorFacts ==
    ASSUME NEW m \in [depth: Nat, peak: Nat, processed: Nat]
    PROVE  /\ RecordEnqueue(m) \in [depth: Nat, peak: Nat, processed: Nat]
           /\ m.depth = 1 => /\ RecordDequeue(m) \in [depth: Nat, peak: Nat, processed: Nat]
                            /\ RecordDequeue(m).depth = 0 /\ RecordDequeue(m).peak = m.peak
                            /\ RecordDequeue(m).processed > 0
<1>1. ASSUME NEW x \in Nat, NEW y \in Nat
      PROVE  [m EXCEPT !.depth = x, !.peak = y] \in [depth: Nat, peak: Nat, processed: Nat]
  OBVIOUS
<1>2. ASSUME NEW x \in Nat, NEW y \in Nat
      PROVE  /\ [m EXCEPT !.depth = x, !.processed = y] \in [depth: Nat, peak: Nat, processed: Nat]
             /\ [m EXCEPT !.depth = x, !.processed = y].depth = x
             /\ [m EXCEPT !.depth = x, !.processed = y].peak = m.peak
             /\ [m EXCEPT !.depth = x, !.processed = y].processed = y
  OBVIOUS
<1>3. m.depth \in Nat /\ m.peak \in Nat /\ m.processed \in Nat OBVIOUS
<1>4. PICK x \in Nat, y \in Nat : x = m.depth + 1 /\ y = IF m.depth + 1 > m.peak THEN m.depth + 1 ELSE m.peak BY <1>3
<1>5. RecordEnqueue(m) = [m EXCEPT !.depth = x, !.peak = y] BY <1>4 DEF RecordEnqueue
<1>6. ASSUME m.depth = 1
      PROVE  /\ RecordDequeue(m) \in [depth: Nat, peak: Nat, processed: Nat]
             /\ RecordDequeue(m).depth = 0 /\ RecordDequeue(m).peak = m.peak
             /\ RecordDequeue(m).processed > 0
  <2>1. PICK u \in Nat, v \in Nat : u = 0 /\ u = m.depth - 1 /\ v = m.processed + 1 /\ v > 0 BY <1>3, <1>6
  <2>2. RecordDequeue(m) = [m EXCEPT !.depth = u, !.processed = v] BY <2>1 DEF RecordDequeue
  <2> QED BY <2>1, <2>2, <1>2
<1> QED BY <1>1, <1>5, <1>6

LEMMA ReceiveKeeps ==
    ASSUME CallsInv, NEW a \in Actor, Receive(a)
    PROVE  CallsInv'
<1>2. /\ CallsTyped /\ Stories /\ Places /\ Kept /\ Queries /\ Endings /\ MadeUpOnlyWhenGone /\ DepthInHand
      /\ asked \in [Request -> Kinds \cup {"none"}] /\ mailbox \in [Actor -> Seq(Mail)]
      /\ busy \in [Actor -> Mail \cup {NoMail}] /\ monitor \in [Actor -> [depth: Nat, peak: Nat, processed: Nat]]
  BY DEF CallsInv, CallsTyped, CallsTypeOK
<1>3. /\ actor[a] = "running" /\ busy[a] = NoMail /\ mailbox[a] # <<>>
      /\ UNCHANGED <<actor, cancelled, managed, query, asked, fate, answers, done, told>>
      /\ busy' = [busy EXCEPT ![a] = Head(mailbox[a])] /\ mailbox' = [mailbox EXCEPT ![a] = Tail(@)]
      /\ monitor' = [monitor EXCEPT ![a] = IF Monitored(a) THEN RecordEnqueue(@) ELSE @]
  BY DEF Receive, CanReceive
<1>4. Grows BY <1>3, GrowsSame
<1>5. Head(mailbox[a]) \in Mail /\ Tail(mailbox[a]) \in Seq(Mail) /\ Len(Tail(mailbox[a])) = Len(mailbox[a]) - 1
      /\ Len(mailbox[a]) \in Nat BY <1>2, <1>3
<1>6. CallsTyped'
  <2>1. mailbox' \in [Actor -> Seq(Mail)] BY <1>2, <1>3, <1>5
  <2>2. \A b \in Actor : Len(mailbox'[b]) + told'[b] <= Room
    <3>1. told \in [Actor -> Nat] /\ \A b \in Actor : Len(mailbox[b]) + told[b] <= Room BY <1>2 DEF CallsTyped, CallsTypeOK
    <3>2. \A b \in Actor : mailbox'[b] = IF b = a THEN Tail(mailbox[a]) ELSE mailbox[b] BY <1>2, <1>3
    <3> SUFFICES ASSUME NEW b \in Actor PROVE Len(mailbox'[b]) + told'[b] <= Room OBVIOUS
    <3>3. CASE b = a
      <4>1. mailbox'[b] = Tail(mailbox[a]) BY <3>2, <3>3
      <4>2. Len(mailbox'[b]) = Len(mailbox[a]) - 1 BY <4>1, <1>5
      <4>3. Room \in Nat BY CallsAssumption
      <4> QED BY <4>2, <4>3, <3>1, <3>3, <1>3, <1>5
    <3>4. CASE b # a BY <3>1, <3>2, <3>4, <1>3
    <3> QED BY <3>3, <3>4
  <2>3. busy' \in [Actor -> Mail \cup {NoMail}] BY <1>2, <1>3, <1>5
  <2>4. monitor' \in [Actor -> [depth: Nat, peak: Nat, processed: Nat]] BY <1>2, <1>3, MonitorFacts
  <2> QED BY <2>1, <2>2, <2>3, <2>4, <1>2, <1>3 DEF CallsTyped, CallsTypeOK
<1>7. Stories' BY <1>2, <1>3, <1>4, SameStory DEF Stories
<1>8. Places' /\ Kept' /\ \A b \in Actor, q \in Request : Has(b, q)' <=> Has(b, q) BY <1>2, <1>3, TakeKeeps
<1>9. busy'[a] # NoMail /\ \A b \in Actor \ {a} : busy'[b] = busy[b] BY <1>2, <1>3, <1>5, MailFacts
<1>11. Queries'
  <2>1. "controller" \in Actor /\ "meeting" \in Actor BY DEF Actor
  <2>2. query # "none" => a # "controller" BY <1>2, <1>3 DEF Queries
  <2> QED BY <2>1, <2>2, <1>2, <1>3, <1>8, <1>9 DEF Queries, Gone
<1>12. Endings'
  <2>1. \A b \in Actor : Gone(b) => mailbox'[b] = <<>> BY <1>2, <1>3 DEF Endings, Gone
  <2> QED BY <2>1, <1>2, <1>3, <1>9 DEF Endings, Gone
<1>13. MadeUpOnlyWhenGone' BY <1>2, <1>3, <1>4, MadeUpKeeps
<1>14. DepthInHand'
  <2> SUFFICES ASSUME NEW b \in Actor \ {"session"} PROVE
        /\ monitor'[b].depth = IF busy'[b] # NoMail \/ actor'[b] = "panicked" THEN 1 ELSE 0
        /\ monitor'[b].peak = IF monitor'[b].depth + monitor'[b].processed > 0 THEN 1 ELSE 0
    BY DEF DepthInHand
  <2>1. CASE b = a
    <3>1. monitor'[a] = RecordEnqueue(monitor[a]) BY <2>1, <1>2, <1>3 DEF Monitored
    <3>2. monitor[a].depth = 0 /\ monitor[a].peak \in {0, 1} /\ monitor[a] \in [depth: Nat, peak: Nat, processed: Nat]
      BY <2>1, <1>2, <1>3 DEF DepthInHand
    <3>3. monitor'[a].depth = 1 /\ monitor'[a].peak = 1 /\ monitor'[a].processed \in Nat BY <3>1, <3>2 DEF RecordEnqueue
    <3> QED BY <2>1, <3>3, <1>9
  <2>2. CASE b # a
    <3>1. monitor'[b] = monitor[b] BY <2>2, <1>2, <1>3
    <3> QED BY <3>1, <2>2, <1>2, <1>3, <1>9 DEF DepthInHand
  <2> QED BY <2>1, <2>2
<1> QED BY <1>6, <1>7, <1>8, <1>11, <1>12, <1>13, <1>14 DEF CallsInv

LEMMA HearKeeps ==
    ASSUME CallsInv, NEW a \in Actor, Hear(a)
    PROVE  CallsInv'
<1>2. /\ CallsTyped /\ Stories /\ Places /\ Kept /\ Queries /\ Endings /\ MadeUpOnlyWhenGone /\ DepthInHand
      /\ asked \in [Request -> Kinds \cup {"none"}] /\ mailbox \in [Actor -> Seq(Mail)] /\ told \in [Actor -> Nat]
      /\ monitor \in [Actor -> [depth: Nat, peak: Nat, processed: Nat]]
  BY DEF CallsInv, CallsTyped, CallsTypeOK
<1>3. /\ actor[a] = "running" /\ busy[a] = NoMail /\ told[a] > 0 /\ told' = [told EXCEPT ![a] = @ - 1]
      /\ UNCHANGED <<mailbox, busy, actor, cancelled, managed, query, asked, fate, answers, done>>
      /\ monitor' = [monitor EXCEPT ![a] = RecordDequeue(RecordEnqueue(@))]
  BY DEF Hear, CanHear
<1>4. Grows BY <1>3, GrowsSame
<1>5. PICK m, e, d : m = monitor[a] /\ e = RecordEnqueue(m) /\ d = RecordDequeue(e) OBVIOUS
<1>6. m \in [depth: Nat, peak: Nat, processed: Nat] BY <1>2, <1>5
<1>7. /\ e.depth = m.depth + 1 /\ e.peak = (IF m.depth + 1 > m.peak THEN m.depth + 1 ELSE m.peak)
      /\ e.processed = m.processed /\ e \in [depth: Nat, peak: Nat, processed: Nat]
  <2>1. PICK x \in Nat, y \in Nat : x = m.depth + 1 /\ y = (IF m.depth + 1 > m.peak THEN m.depth + 1 ELSE m.peak)
    BY <1>6
  <2>2. e = [m EXCEPT !.depth = x, !.peak = y] BY <1>5, <2>1 DEF RecordEnqueue
  <2> QED BY <1>6, <2>1, <2>2
<1>8. /\ d.depth = m.depth /\ d.peak = e.peak /\ d.processed = m.processed + 1
      /\ d \in [depth: Nat, peak: Nat, processed: Nat]
  <2>1. PICK x \in Nat, y \in Nat : x = m.depth /\ x = e.depth - 1 /\ y = m.processed + 1 /\ y = e.processed + 1
    BY <1>6, <1>7
  <2>2. d = [e EXCEPT !.depth = x, !.processed = y] BY <1>5, <2>1 DEF RecordDequeue
  <2> QED BY <1>7, <2>1, <2>2
<1>9. monitor'[a] = d /\ \A b \in Actor \ {a} : monitor'[b] = monitor[b] BY <1>2, <1>3, <1>5
<1>10. CallsTyped'
  <2>1. told[a] - 1 \in Nat BY <1>2, <1>3
  <2>2. told' \in [Actor -> Nat] BY <1>2, <1>3, <2>1
  <2>3. \A b \in Actor : Len(mailbox'[b]) + told'[b] <= Room
    <3>1. \A b \in Actor : Len(mailbox[b]) \in Nat /\ Len(mailbox[b]) + told[b] <= Room /\ Room \in Nat
      BY <1>2, CallsAssumption DEF CallsTyped, CallsTypeOK
    <3>2. \A b \in Actor : told'[b] <= told[b] BY <1>2, <1>3
    <3> QED BY <1>2, <1>3, <2>2, <3>1, <3>2
  <2>4. monitor' \in [Actor -> [depth: Nat, peak: Nat, processed: Nat]] BY <1>2, <1>3, <1>5, <1>8
  <2> QED BY <1>2, <1>3, <2>2, <2>3, <2>4 DEF CallsTyped, CallsTypeOK
<1>11. Stories' BY <1>2, <1>3, <1>4, SameStory DEF Stories
<1>12. Places' /\ Kept' /\ \A b \in Actor, q \in Request : Has(b, q)' = Has(b, q) BY <1>2, <1>3, SameMail
<1>13. Queries' BY <1>2, <1>3 DEF Queries, Has, Gone
<1>14. Endings' BY <1>2, <1>3 DEF Endings, Gone
<1>15. MadeUpOnlyWhenGone' BY <1>2, <1>3, <1>4, MadeUpKeeps
<1>16. DepthInHand'
  <2> SUFFICES ASSUME NEW b \in Actor \ {"session"} PROVE
        /\ monitor'[b].depth = IF busy'[b] # NoMail \/ actor'[b] = "panicked" THEN 1 ELSE 0
        /\ monitor'[b].peak = IF monitor'[b].depth + monitor'[b].processed > 0 THEN 1 ELSE 0
    BY DEF DepthInHand
  <2>1. CASE b = a
    <3>1. m.depth = 0 /\ m.peak \in {0, 1} BY <2>1, <1>2, <1>3, <1>5 DEF DepthInHand
    <3>2. d.depth = 0 /\ d.peak = 1 /\ d.processed > 0 /\ d.processed \in Nat BY <3>1, <1>6, <1>7, <1>8
    <3> QED BY <2>1, <3>2, <1>3, <1>9
  <2>2. CASE b # a BY <2>2, <1>2, <1>3, <1>9 DEF DepthInHand
  <2> QED BY <2>1, <2>2
<1> QED BY <1>10, <1>11, <1>12, <1>13, <1>14, <1>15, <1>16 DEF CallsInv

\* The end of a loop's iteration, for its monitor.
LEMMA FinishedDepth ==
    ASSUME CallsTyped, DepthInHand, NEW a \in Actor, busy[a] # NoMail, actor[a] = "running", Finished(a),
           \A b \in Actor : actor'[b] = "panicked" <=> actor[b] = "panicked"
    PROVE  /\ DepthInHand' /\ monitor' \in [Actor -> [depth: Nat, peak: Nat, processed: Nat]]
           /\ busy' \in [Actor -> Mail \cup {NoMail}]
<1>1. /\ monitor \in [Actor -> [depth: Nat, peak: Nat, processed: Nat]] /\ busy \in [Actor -> Mail \cup {NoMail}]
      /\ busy' = [busy EXCEPT ![a] = NoMail]
      /\ monitor' = [monitor EXCEPT ![a] = IF Monitored(a) THEN RecordDequeue(@) ELSE @]
  BY DEF CallsTyped, CallsTypeOK, Finished
<1>2. a # "session" => /\ monitor[a].depth = 1 /\ monitor[a].peak = 1
  BY <1>1 DEF DepthInHand
<1>3. CASE a # "session"
  <2>1. monitor'[a] = RecordDequeue(monitor[a]) BY <1>1, <1>3 DEF Monitored
  <2>2. /\ monitor'[a].depth = 0 /\ monitor'[a].peak = 1 /\ monitor'[a].processed \in Nat /\ monitor'[a].processed > 0
        /\ monitor'[a] \in [depth: Nat, peak: Nat, processed: Nat]
    BY <2>1, <1>1, <1>2, <1>3, MonitorFacts
  <2>3. \A b \in Actor \ {a} : monitor'[b] = monitor[b] /\ busy'[b] = busy[b] BY <1>1
  <2>4. busy'[a] = NoMail BY <1>1
  <2>5. DepthInHand' BY <2>2, <2>3, <2>4 DEF DepthInHand
  <2>6. monitor' \in [Actor -> [depth: Nat, peak: Nat, processed: Nat]] BY <1>1, <2>1, <2>2
  <2> QED BY <2>5, <2>6, <1>1
<1>4. CASE a = "session"
  <2>1. monitor' = monitor BY <1>1, <1>4 DEF Monitored
  <2>2. \A b \in Actor \ {"session"} : busy'[b] = busy[b] BY <1>1, <1>4
  <2> QED BY <1>1, <2>1, <2>2 DEF DepthInHand
<1> QED BY <1>3, <1>4

\* What a handler leaves behind that finished its message: of the request, of the
\* mailboxes, and of the answers.
LEMMA DoneKeeps ==
    ASSUME CallsInv, NEW a \in Actor, NEW r, busy[a] # NoMail, r = busy[a].req, ~IsQuery(a, r),
           NEW f \in {"handled", "relayed"}, NEW res \in {"ok", "not_found", "zeros", "pending"},
           Finished(a), UNCHANGED <<mailbox, asked>>, Grows,
           \A b \in Actor : actor'[b] = "panicked" <=> actor[b] = "panicked",
           fate' = [fate EXCEPT ![r] = f], Reply(r, res),
           done' = [done EXCEPT ![r] = @ + 1] \/ (UNCHANGED done /\ res # "ok" /\ asked[r] \notin Tell),
           f = "relayed" => res = "pending" /\ asked[r] = "JoinConnection" /\ UNCHANGED done,
           f = "handled" => res # "pending",
           res = "not_found" => cancelled["meeting"] \/ Gone("meeting"),
           res = "zeros" => Gone("meeting")
    PROVE  /\ Stories' /\ Places' /\ Kept' /\ MadeUpOnlyWhenGone' /\ DepthInHand'
           /\ fate' \in [Request -> Fates] /\ answers' \in [Request -> Answers]
           /\ asked' \in [Request -> Kinds \cup {"none"}] /\ done' \in [Request -> Nat]
           /\ monitor' \in [Actor -> [depth: Nat, peak: Nat, processed: Nat]]
           /\ busy' \in [Actor -> Mail \cup {NoMail}] /\ actor[a] = "running"
<1>2. /\ CallsTyped /\ Stories /\ Places /\ Kept /\ Queries /\ Endings /\ MadeUpOnlyWhenGone /\ DepthInHand
      /\ asked \in [Request -> Kinds \cup {"none"}] /\ fate \in [Request -> Fates] /\ answers \in [Request -> Answers]
      /\ done \in [Request -> Nat]
  BY DEF CallsInv, CallsTyped, CallsTypeOK
<1>1. r \in Request /\ Has(a, r) BY <1>2, AtHand DEF Has
<1>3. fate[r] \in {"queued", "forwarded"} BY <1>1, <1>2, OnePlace
<1>4. actor[a] = "running" BY <1>2 DEF Endings
<1>5. Places' /\ Kept'
  <2>1. f \in Fates \ {"queued", "forwarded"} BY DEF Fates
  <2>2. busy' = [busy EXCEPT ![a] = NoMail] BY DEF Finished
  <2> QED BY <1>2, <2>1, <2>2, FinishKeeps
<1>6. DepthInHand' /\ monitor' \in [Actor -> [depth: Nat, peak: Nat, processed: Nat]]
      /\ busy' \in [Actor -> Mail \cup {NoMail}]
  BY <1>2, <1>4, FinishedDepth
<1>7. /\ fate'[r] = f /\ answers'[r] = IF answers[r] = "pending" THEN res ELSE answers[r]
      /\ done'[r] = done[r] + 1 \/ (done'[r] = done[r] /\ res # "ok" /\ asked[r] \notin Tell)
      /\ f = "relayed" => done'[r] = done[r]
      /\ \A q \in Request \ {r} : fate'[q] = fate[q] /\ answers'[q] = answers[q] /\ done'[q] = done[q]
      /\ UNCHANGED asked
  BY <1>1, <1>2 DEF Reply
<1>8. Stories'
  <2> SUFFICES ASSUME NEW q \in Request PROVE Story(q)' BY DEF Stories
  <2>1. CASE q = r
    <3>1. Story(r) BY <1>1, <1>2 DEF Stories
    <3>2. asked[r] \in Kinds BY <1>1, <1>2, <1>3, <3>1 DEF Story
    <3>3. CASE f = "handled" BY <2>1, <3>1, <3>2, <3>3, <1>3, <1>7, KindFacts DEF Story
    <3>4. CASE f = "relayed" BY <2>1, <3>1, <3>2, <3>4, <1>3, <1>7, KindFacts DEF Story
    <3> QED BY <3>3, <3>4
  <2>2. CASE q # r BY <2>2, <1>2, <1>7, SameStory DEF Stories
  <2> QED BY <2>1, <2>2
<1>9. MadeUpOnlyWhenGone'
  <2>1. "meeting" \in Actor /\ "session" \in Actor BY DEF Actor
  <2> SUFFICES ASSUME NEW q \in Request PROVE
        /\ answers'[q] = "zeros" => Gone("meeting")'
        /\ answers'[q] = "not_found" => cancelled'["meeting"] \/ Gone("meeting")'
        /\ answers'[q] = "default" => actor'["session"] = "panicked"
    BY DEF MadeUpOnlyWhenGone
  <2>2. /\ answers[q] = "zeros" => Gone("meeting")
        /\ answers[q] = "not_found" => cancelled["meeting"] \/ Gone("meeting")
        /\ answers[q] = "default" => actor["session"] = "panicked"
    BY <1>2 DEF MadeUpOnlyWhenGone
  <2> QED BY <2>1, <2>2, <1>7 DEF Grows
<1>10. fate' \in [Request -> Fates] BY <1>2 DEF Fates
<1>11. answers' \in [Request -> Answers] BY <1>2 DEF Reply, Answers
<1>12. done' \in [Request -> Nat]
  <2>1. done[r] + 1 \in Nat BY <1>1, <1>2
  <2> QED BY <2>1, <1>1, <1>2
<1> QED BY <1>2, <1>4, <1>5, <1>6, <1>8, <1>9, <1>10, <1>11, <1>12

\* The message in hand of the controller is what was asked, and no query.
LEMMA ControllerHand ==
    ASSUME CallsInv, busy["controller"] # NoMail
    PROVE  /\ busy["controller"].req \in Request /\ ~IsQuery("controller", busy["controller"].req)
           /\ asked[busy["controller"].req] = busy["controller"].kind /\ "controller" \in Actor
           /\ fate[busy["controller"].req] = "queued" /\ actor["controller"] = "running"
<1>1. "controller" \in Actor BY DEF Actor
<1>2. CallsTyped /\ Places /\ Endings BY DEF CallsInv
<1>3. Placed("controller", busy["controller"]) /\ busy["controller"].req \in Request BY <1>1, <1>2, AtHand
<1> QED BY <1>1, <1>2, <1>3 DEF Placed, IsQuery, Endings

LEMMA CancelledGrows ==
    ASSUME CallsTyped, NEW a \in {"controller", "meeting", "participant"}, cancelled' = Cancelled(a)
    PROVE  /\ cancelled' \in [Actor -> BOOLEAN] /\ \A b \in Actor : cancelled[b] => cancelled'[b]
           /\ cancelled'["session"] = cancelled["session"] /\ cancelled'[a]
           /\ a = "controller" => cancelled'["meeting"]
<1>1. a \in Actor /\ "session" \in Actor /\ "meeting" \in Actor BY DEF Actor
<1>2. cancelled \in [Actor -> BOOLEAN] BY DEF CallsTyped, CallsTypeOK
<1>3. ASSUME NEW b \in Actor
      PROVE  cancelled'[b] <=> (\/ cancelled[b]
                                \/ b = a
                                \/ a = "controller" /\ b \in {"meeting", "participant"}
                                \/ a = "meeting" /\ b = "participant")
  BY DEF Cancelled
<1>4. cancelled' \in [Actor -> BOOLEAN] BY <1>2 DEF Cancelled
<1>5. cancelled["session"] \in BOOLEAN /\ cancelled'["session"] \in BOOLEAN BY <1>1, <1>2, <1>4
<1>6. cancelled'["session"] = cancelled["session"] BY <1>1, <1>3, <1>5
<1> QED BY <1>1, <1>3, <1>4, <1>6

LEMMA NotFoundKeeps ==
    ASSUME CallsInv, busy["controller"] # NoMail, NEW r, r = busy["controller"].req,
           busy["controller"].kind \in {"RemoveMeeting", "JoinConnection", "GetMeeting"}, NotFound(r), query = "none"
    PROVE  CallsInv'
<1>1. /\ r \in Request /\ ~IsQuery("controller", r) /\ "controller" \in Actor
      /\ asked[r] \in {"RemoveMeeting", "JoinConnection", "GetMeeting"} BY ControllerHand
<1>2. /\ ~managed /\ Finished("controller") /\ fate' = [fate EXCEPT ![r] = "handled"] /\ Reply(r, "not_found")
      /\ UNCHANGED <<mailbox, actor, cancelled, managed, query, asked, done, told>> BY DEF NotFound
<1>3. Grows BY <1>2, GrowsSame
<1>4. CallsTyped /\ Endings BY DEF CallsInv
<1>5. cancelled["meeting"] \/ Gone("meeting") BY <1>2, <1>4 DEF Endings
<1>6. asked[r] \notin Tell BY <1>1 DEF Tell
<1>7. /\ Stories' /\ Places' /\ Kept' /\ MadeUpOnlyWhenGone' /\ DepthInHand'
      /\ fate' \in [Request -> Fates] /\ answers' \in [Request -> Answers]
      /\ asked' \in [Request -> Kinds \cup {"none"}] /\ done' \in [Request -> Nat]
      /\ monitor' \in [Actor -> [depth: Nat, peak: Nat, processed: Nat]]
      /\ busy' \in [Actor -> Mail \cup {NoMail}]
  <2>1. \A b \in Actor : actor'[b] = "panicked" <=> actor[b] = "panicked" BY <1>2
  <2>2. \E f \in {"handled", "relayed"}, res \in {"ok", "not_found", "zeros", "pending"} :
            f = "handled" /\ res = "not_found" OBVIOUS
  <2>3. PICK f \in {"handled", "relayed"}, res \in {"ok", "not_found", "zeros", "pending"} :
            f = "handled" /\ res = "not_found" BY <2>2
  <2>4. fate' = [fate EXCEPT ![r] = f] /\ Reply(r, res) BY <2>3, <1>2
  <2>5. UNCHANGED <<mailbox, asked>> /\ UNCHANGED done BY <1>2
  <2> QED BY <1>1, <1>2, <1>3, <1>5, <1>6, <2>1, <2>3, <2>4, <2>5, DoneKeeps
<1>8. CallsTyped' BY <1>2, <1>4, <1>7 DEF CallsTyped, CallsTypeOK
<1>9. Queries' BY <1>2 DEF Queries
<1>10. Endings'
  <2>1. \A b \in Actor : busy'[b] = busy[b] \/ busy'[b] = NoMail BY <1>2, <1>4 DEF Finished, CallsTyped, CallsTypeOK
  <2> QED BY <1>2, <1>4, <2>1 DEF Endings, Gone
<1> QED BY <1>7, <1>8, <1>9, <1>10 DEF CallsInv

LEMMA RemoveMeetingKeeps == ASSUME CallsInv, RemoveMeeting PROVE CallsInv'
<1>0. busy["controller"] # NoMail /\ busy["controller"].kind = "RemoveMeeting" BY DEF RemoveMeeting, Holding
<1>1. PICK r \in Request : /\ r = busy["controller"].req /\ ~IsQuery("controller", r) /\ "controller" \in Actor
                           /\ asked[r] = "RemoveMeeting"
  BY <1>0, ControllerHand
<1>n. query = "none" BY <1>0 DEF CallsInv, Queries
<1>2. CASE NotFound(r) BY <1>0, <1>1, <1>2, <1>n, NotFoundKeeps
<1>3. CASE /\ managed /\ managed' = FALSE /\ cancelled' = Cancelled("meeting") /\ Finished("controller")
           /\ done' = [done EXCEPT ![r] = @ + 1] /\ fate' = [fate EXCEPT ![r] = "handled"]
           /\ Reply(r, "ok") /\ UNCHANGED <<mailbox, actor, query, asked, told>>
  <2>1. CallsTyped /\ Endings /\ Queries BY DEF CallsInv
  <2>2. /\ cancelled' \in [Actor -> BOOLEAN] /\ \A b \in Actor : cancelled[b] => cancelled'[b]
        /\ cancelled'["session"] = cancelled["session"] /\ cancelled'["meeting"]
    BY <2>1, <1>3, CancelledGrows
  <2>3. Grows BY <2>2, <1>3 DEF Grows, Gone
  <2>4. /\ Stories' /\ Places' /\ Kept' /\ MadeUpOnlyWhenGone' /\ DepthInHand'
        /\ fate' \in [Request -> Fates] /\ answers' \in [Request -> Answers]
        /\ asked' \in [Request -> Kinds \cup {"none"}] /\ done' \in [Request -> Nat]
        /\ monitor' \in [Actor -> [depth: Nat, peak: Nat, processed: Nat]]
        /\ busy' \in [Actor -> Mail \cup {NoMail}]
    <3>1. \A b \in Actor : actor'[b] = "panicked" <=> actor[b] = "panicked" BY <1>3
    <3>2. PICK f \in {"handled", "relayed"}, res \in {"ok", "not_found", "zeros", "pending"} :
              f = "handled" /\ res = "ok" OBVIOUS
    <3>3. fate' = [fate EXCEPT ![r] = f] /\ Reply(r, res) BY <3>2, <1>3
    <3>4. UNCHANGED <<mailbox, asked>> BY <1>3
    <3> QED BY <1>0, <1>1, <1>3, <2>3, <3>1, <3>2, <3>3, <3>4, DoneKeeps
  <2>5. CallsTyped' BY <1>3, <2>1, <2>2, <2>4 DEF CallsTyped, CallsTypeOK
  <2>6. Queries' BY <1>3, <1>n DEF Queries
  <2>7. Endings'
    <3>1. \A b \in Actor : busy'[b] = busy[b] \/ busy'[b] = NoMail BY <1>3, <2>1 DEF Finished, CallsTyped, CallsTypeOK
    <3> QED BY <1>3, <2>1, <2>2, <3>1 DEF Endings, Gone
  <2> QED BY <2>4, <2>5, <2>6, <2>7 DEF CallsInv
<1> QED BY <1>1, <1>2, <1>3 DEF RemoveMeeting

LEMMA JoinConnectionKeeps == ASSUME CallsInv, JoinConnection PROVE CallsInv'
<1>0. busy["controller"] # NoMail /\ busy["controller"].kind = "JoinConnection" BY DEF JoinConnection, Holding
<1>1. PICK r \in Request : /\ r = busy["controller"].req /\ ~IsQuery("controller", r) /\ "controller" \in Actor
                           /\ asked[r] = "JoinConnection"
  BY <1>0, ControllerHand
<1>n. query = "none" BY <1>0 DEF CallsInv, Queries
<1>2. CASE NotFound(r) BY <1>0, <1>1, <1>2, <1>n, NotFoundKeeps
<1>3. CASE /\ managed /\ managed' = Healthy /\ fate' = [fate EXCEPT ![r] = "relayed"]
           /\ Finished("controller") /\ RelayReply(r) /\ UNCHANGED <<mailbox, actor, cancelled, query, asked, done, told>>
  <2>1. CallsTyped /\ Endings /\ Queries BY DEF CallsInv
  <2>2. Grows BY <1>3, GrowsSame
  <2>3. Reply(r, "pending")
    BY <1>3, <2>1 DEF RelayReply, Reply, CallsTyped, CallsTypeOK
  <2>4. /\ Stories' /\ Places' /\ Kept' /\ MadeUpOnlyWhenGone' /\ DepthInHand'
        /\ fate' \in [Request -> Fates] /\ answers' \in [Request -> Answers]
        /\ asked' \in [Request -> Kinds \cup {"none"}] /\ done' \in [Request -> Nat]
        /\ monitor' \in [Actor -> [depth: Nat, peak: Nat, processed: Nat]]
        /\ busy' \in [Actor -> Mail \cup {NoMail}]
    <3>1. \A b \in Actor : actor'[b] = "panicked" <=> actor[b] = "panicked" BY <1>3
    <3>2. PICK f \in {"handled", "relayed"}, res \in {"ok", "not_found", "zeros", "pending"} :
              f = "relayed" /\ res = "pending" OBVIOUS
    <3>3. fate' = [fate EXCEPT ![r] = f] /\ Reply(r, res) BY <3>2, <1>3, <2>3
    <3>4. UNCHANGED <<mailbox, asked>> /\ UNCHANGED done /\ asked[r] \notin Tell BY <1>1, <1>3 DEF Tell
    <3> QED BY <1>0, <1>1, <1>3, <2>2, <3>1, <3>2, <3>3, <3>4, DoneKeeps
  <2>5. CallsTyped' BY <1>3, <2>1, <2>4 DEF CallsTyped, CallsTypeOK, Healthy
  <2>6. Queries' BY <1>3, <1>n DEF Queries
  <2>7. Endings'
    <3>1. \A b \in Actor : busy'[b] = busy[b] \/ busy'[b] = NoMail BY <1>3, <2>1 DEF Finished, CallsTyped, CallsTypeOK
    <3> QED BY <1>3, <2>1, <3>1 DEF Endings, Gone, Healthy
  <2> QED BY <2>4, <2>5, <2>6, <2>7 DEF CallsInv
<1> QED BY <1>1, <1>2, <1>3 DEF JoinConnection

LEMMA GetMeetingKeeps == ASSUME CallsInv, GetMeeting PROVE CallsInv'
<1>0. busy["controller"] # NoMail /\ busy["controller"].kind = "GetMeeting" /\ query = "none" BY DEF GetMeeting, Holding
<1>1. PICK r : r = busy["controller"].req OBVIOUS
<1>2. CASE NotFound(r) BY <1>0, <1>1, <1>2, NotFoundKeeps
<1>3. CASE query' = "sending" /\ UNCHANGED <<mailbox, busy, actor, cancelled, managed, asked, fate, answers, done, told, monitor>>
  <2>1. CallsTyped /\ Stories /\ Places /\ Kept /\ Endings /\ MadeUpOnlyWhenGone /\ DepthInHand BY DEF CallsInv
  <2>2. Grows BY <1>3, GrowsSame
  <2>3. CallsTyped' BY <1>3, <2>1 DEF CallsTyped, CallsTypeOK
  <2>4. Stories' BY <1>3, <2>1, <2>2, SameStory DEF Stories, CallsTyped
  <2>5. Places' /\ Kept' BY <1>3, <2>1, SameMail
  <2>6. Queries' BY <1>0, <1>3 DEF Queries
  <2>7. Endings' BY <1>3, <2>1 DEF Endings, Gone
  <2>8. MadeUpOnlyWhenGone' BY <1>3, <2>1, <2>2, MadeUpKeeps
  <2>9. DepthInHand' BY <1>3, <2>1 DEF DepthInHand
  <2> QED BY <2>3, <2>4, <2>5, <2>6, <2>7, <2>8, <2>9 DEF CallsInv
<1> QED BY <1>1, <1>2, <1>3 DEF GetMeeting

LEMMA QueryDoneKeeps == ASSUME CallsInv, QueryDone PROVE CallsInv'
<1>0. busy["controller"] # NoMail /\ busy["controller"].kind = "GetMeeting" BY DEF QueryDone, CallsInv, Queries
<1>1. PICK r \in Request : /\ r = busy["controller"].req /\ ~IsQuery("controller", r) /\ "controller" \in Actor
                           /\ asked[r] = "GetMeeting"
  BY <1>0, ControllerHand
<1>3. /\ query \in {"answered", "failed"} /\ query' = "none" /\ managed' = Healthy /\ Finished("controller")
      /\ done' = [done EXCEPT ![r] = @ + 1] /\ fate' = [fate EXCEPT ![r] = "handled"]
      /\ Reply(r, QueryAnswer(query)) /\ UNCHANGED <<mailbox, actor, cancelled, asked, told>>
  BY <1>1 DEF QueryDone
<1>4. CallsTyped /\ Endings /\ Queries BY DEF CallsInv
<1>5. Grows BY <1>3, GrowsSame
<1>6. /\ Stories' /\ Places' /\ Kept' /\ MadeUpOnlyWhenGone' /\ DepthInHand'
      /\ fate' \in [Request -> Fates] /\ answers' \in [Request -> Answers]
      /\ asked' \in [Request -> Kinds \cup {"none"}] /\ done' \in [Request -> Nat]
      /\ monitor' \in [Actor -> [depth: Nat, peak: Nat, processed: Nat]]
      /\ busy' \in [Actor -> Mail \cup {NoMail}]
  <2>1. \A b \in Actor : actor'[b] = "panicked" <=> actor[b] = "panicked" BY <1>3
  <2>2. PICK f \in {"handled", "relayed"}, res \in {"ok", "not_found", "zeros", "pending"} :
            f = "handled" /\ res = QueryAnswer(query) /\ res \in {"ok", "zeros"} BY DEF QueryAnswer
  <2>3. fate' = [fate EXCEPT ![r] = f] /\ Reply(r, res) BY <2>2, <1>3
  <2>4. UNCHANGED <<mailbox, asked>> BY <1>3
  <2>5. res = "zeros" => Gone("meeting") BY <2>2, <1>3, <1>4 DEF QueryAnswer, Queries
  <2>6. res # "not_found" /\ f # "relayed" /\ res # "pending" BY <2>2
  <2>7. done' = [done EXCEPT ![r] = @ + 1] /\ Finished("controller") BY <1>3
  <2> QED BY <1>0, <1>1, <1>5, <2>1, <2>3, <2>4, <2>5, <2>6, <2>7, DoneKeeps
<1>7. CallsTyped' BY <1>3, <1>4, <1>6 DEF CallsTyped, CallsTypeOK, Healthy
<1>8. Queries' BY <1>3 DEF Queries
<1>9. Endings'
  <2>1. \A b \in Actor : busy'[b] = busy[b] \/ busy'[b] = NoMail BY <1>3, <1>4 DEF Finished, CallsTyped, CallsTypeOK
  <2> QED BY <1>3, <1>4, <2>1 DEF Endings, Gone, Healthy
<1> QED BY <1>6, <1>7, <1>8, <1>9 DEF CallsInv

LEMMA RelayKeeps ==
    ASSUME CallsInv, NEW r \in Request, Relay(r)
    PROVE  CallsInv'
<1>2. /\ CallsTyped /\ Stories /\ Places /\ Kept /\ Queries /\ Endings /\ MadeUpOnlyWhenGone /\ DepthInHand
      /\ asked \in [Request -> Kinds \cup {"none"}] /\ fate \in [Request -> Fates] /\ answers \in [Request -> Answers]
  BY DEF CallsInv, CallsTyped, CallsTypeOK
<1>3. /\ fate[r] = "relayed"
      /\ \A q \in Request \ {r} : fate'[q] = fate[q] /\ answers'[q] = answers[q]
      /\ UNCHANGED <<busy, actor, cancelled, managed, query, done, told, monitor, asked>>
      /\ \/ /\ ~Gone("meeting") /\ Len(mailbox["meeting"]) + told["meeting"] < Room /\ fate'[r] = "forwarded"
            /\ answers'[r] = answers[r]
            /\ mailbox' = [mailbox EXCEPT !["meeting"] = Append(@, [req |-> r, kind |-> "ConnectionJoin"])]
            /\ fate' = [fate EXCEPT ![r] = "forwarded"]
         \/ /\ Gone("meeting") /\ fate'[r] = "dropped" /\ UNCHANGED mailbox
            /\ answers'[r] = IF answers[r] = "pending" THEN "send_failed" ELSE answers[r]
  BY <1>2 DEF Relay, Accepts, Reply
<1>4. Grows BY <1>3, GrowsSame
<1>5. /\ asked[r] = "JoinConnection" /\ done[r] = 0 /\ asked[r] \notin Tell /\ answers[r] \in {"pending", "given_up"}
      /\ "ConnectionJoin" \in Kinds /\ "meeting" \in Actor
  BY <1>2, <1>3 DEF Stories, Story, Tell, Kinds, MeetingMessage, Actor
<1>1. ~IsQuery("meeting", r) BY <1>5 DEF IsQuery
<1>6. CallsTyped'
  <2>1. fate' \in [Request -> Fates] BY <1>2 DEF Relay, Fates
  <2>2. answers' \in [Request -> Answers] BY <1>2 DEF Relay, Reply, Answers
  <2>3. mailbox' \in [Actor -> Seq(Mail)] /\ \A b \in Actor : Len(mailbox'[b]) + told'[b] <= Room
    <3>1. CASE mailbox' = mailbox BY <3>1, <1>2, <1>3 DEF CallsTyped, CallsTypeOK
    <3>2. CASE mailbox' # mailbox BY <3>2, <1>2, <1>3, <1>5, MailFacts, Appended
    <3> QED BY <3>1, <3>2
  <2> QED BY <2>1, <2>2, <2>3, <1>2, <1>3 DEF CallsTyped, CallsTypeOK
<1>7. Stories'
  <2> SUFFICES ASSUME NEW q \in Request PROVE Story(q)' BY DEF Stories
  <2>1. CASE q = r BY <2>1, <1>3, <1>5 DEF Story
  <2>2. CASE q # r BY <2>2, <1>2, <1>3, <1>4, SameStory DEF Stories
  <2> QED BY <2>1, <2>2
<1>8. Places' /\ Kept'
  <2>1. CASE fate'[r] = "forwarded"
    <3>1. /\ mailbox' = [mailbox EXCEPT !["meeting"] = Append(@, [req |-> r, kind |-> "ConnectionJoin"])]
          /\ fate' = [fate EXCEPT ![r] = "forwarded"] BY <2>1, <1>3
    <3> QED BY <3>1, <1>1, <1>2, <1>3, <1>5, PostKeeps DEF Fates
  <2>2. CASE fate'[r] = "dropped"
    <3>1. UNCHANGED mailbox BY <2>2, <1>3
    <3>2. \A b \in Actor : ~Has(b, r)' \/ IsQuery(b, r)
      <4> SUFFICES ASSUME NEW b \in Actor, Has(b, r)' PROVE IsQuery(b, r) OBVIOUS
      <4>1. Has(b, r) BY <3>1, <1>3 DEF Has
      <4> QED BY <4>1, <1>2, <1>3, OnePlace
    <3>3. \A q \in Request : fate'[q] \in {"queued", "forwarded"} /\ Has(At(q), q) => Has(At(q), q)'
      BY <2>2, <3>1, <1>3 DEF Has, At
    <3>4. \A q \in Request : \/ fate'[q] = fate[q]
                             \/ fate'[q] \notin {"queued", "forwarded"} /\ \A b \in Actor : Has(b, q)' => IsQuery(b, q)
      BY <2>2, <3>2, <1>3
    <3>5. \A b \in Actor : Len(mailbox'[b]) \in Nat BY <3>1, <1>2, AtHand
    <3> QED BY <3>1, <3>3, <3>4, <3>5, <1>2, <1>3, AwayKeeps
  <2> QED BY <2>1, <2>2, <1>3
<1>11. Queries'
  <2>1. \A q \in Request : Has("meeting", q) => Has("meeting", q)'
    <3>1. CASE mailbox' = mailbox BY <3>1, <1>3 DEF Has
    <3>2. CASE mailbox' # mailbox BY <3>2, <1>2, <1>3, <1>5, MailFacts, Appended
    <3> QED BY <3>1, <3>2
  <2> QED BY <2>1, <1>2, <1>3 DEF Queries, Gone
<1>12. Endings'
  <2>1. \A b \in Actor : Gone(b) => mailbox'[b] = <<>> BY <1>2, <1>3, <1>5 DEF Endings, CallsTyped, CallsTypeOK
  <2> QED BY <2>1, <1>2, <1>3 DEF Endings, Gone
<1>13. MadeUpOnlyWhenGone' BY <1>2, <1>3, <1>4, <1>5, MadeUpKeeps
<1>14. DepthInHand' BY <1>2, <1>3 DEF DepthInHand
<1> QED BY <1>6, <1>7, <1>8, <1>11, <1>12, <1>13, <1>14 DEF CallsInv

LEMMA QuerySendKeeps == ASSUME CallsInv, QuerySend PROVE CallsInv'
<1>2. /\ CallsTyped /\ Stories /\ Places /\ Kept /\ Queries /\ Endings /\ MadeUpOnlyWhenGone /\ DepthInHand
      /\ asked \in [Request -> Kinds \cup {"none"}] /\ fate \in [Request -> Fates] /\ answers \in [Request -> Answers]
  BY DEF CallsInv, CallsTyped, CallsTypeOK
<1>0. query = "sending" /\ busy["controller"] # NoMail /\ busy["controller"].kind = "GetMeeting"
  BY <1>2 DEF QuerySend, Queries
<1>1. PICK r \in Request : /\ r = busy["controller"].req /\ asked[r] = "GetMeeting" BY <1>0, ControllerHand
<1>3. /\ UNCHANGED <<busy, actor, cancelled, managed, asked, fate, answers, done, told, monitor>>
      /\ \/ /\ ~Gone("meeting") /\ Len(mailbox["meeting"]) + told["meeting"] < Room /\ query' = "queued"
            /\ mailbox' = [mailbox EXCEPT !["meeting"] = Append(@, [req |-> r, kind |-> "GetState"])]
         \/ Gone("meeting") /\ query' = "failed" /\ UNCHANGED mailbox
  BY <1>1 DEF QuerySend, Accepts
<1>4. Grows BY <1>3, GrowsSame
<1>5. Stories' BY <1>2, <1>3, <1>4, SameStory DEF Stories
<1>6. MadeUpOnlyWhenGone' BY <1>2, <1>3, <1>4, MadeUpKeeps
<1>7. DepthInHand' BY <1>2, <1>3 DEF DepthInHand
<1>8. CASE Gone("meeting") /\ query' = "failed" /\ UNCHANGED mailbox
  <2>1. CallsTyped' BY <1>2, <1>3, <1>8 DEF CallsTyped, CallsTypeOK
  <2>2. Places' /\ Kept' BY <1>2, <1>3, <1>8, SameMail
  <2>3. Queries' BY <1>0, <1>3, <1>8 DEF Queries, Gone
  <2>4. Endings' BY <1>2, <1>3, <1>8 DEF Endings, Gone
  <2> QED BY <1>5, <1>6, <1>7, <2>1, <2>2, <2>3, <2>4 DEF CallsInv
<1>9. CASE /\ ~Gone("meeting") /\ Len(mailbox["meeting"]) + told["meeting"] < Room /\ query' = "queued"
           /\ mailbox' = [mailbox EXCEPT !["meeting"] = Append(@, [req |-> r, kind |-> "GetState"])]
  <2>0. PICK m \in Mail : m = [req |-> r, kind |-> "GetState"] /\ m.req = r /\ m.kind = "GetState"
    <3>1. "GetState" \in Kinds BY DEF Kinds, MeetingMessage
    <3>2. [req |-> r, kind |-> "GetState"] \in Mail BY <3>1, MailFacts
    <3> QED BY <3>2
  <2>1. "meeting" \in Actor BY DEF Actor
  <2>2. /\ mailbox' \in [Actor -> Seq(Mail)] /\ \A b \in Actor : Len(mailbox'[b]) + told'[b] <= Room
        /\ \A b \in Actor : /\ Len(mailbox'[b]) >= Len(mailbox[b]) /\ Len(mailbox[b]) \in Nat /\ Len(mailbox'[b]) \in Nat
                            /\ \A i \in 1..Len(mailbox[b]) : mailbox'[b][i] = mailbox[b][i]
        /\ \A b \in Actor \ {"meeting"} : mailbox'[b] = mailbox[b]
        /\ Len(mailbox'["meeting"]) = Len(mailbox["meeting"]) + 1 /\ mailbox'["meeting"][Len(mailbox["meeting"]) + 1] = m
        /\ \A b \in Actor, q \in Request : Has(b, q) => Has(b, q)'
    BY <1>2, <1>3, <1>9, <2>0, <2>1, Appended
  <2>3. CallsTyped' BY <1>2, <1>3, <1>9, <2>2 DEF CallsTyped, CallsTypeOK
  <2>4. Kept'
    <3> SUFFICES ASSUME NEW q \in Request, fate'[q] \in {"queued", "forwarded"} PROVE Has(At(q), q)' BY DEF Kept
    <3>1. PICK b \in Actor : b = At(q) /\ Has(b, q) BY <1>2, <1>3, AtActor DEF Kept
    <3>2. At(q)' = b BY <3>1, <1>3 DEF At
    <3>3. Has(b, q)' BY <3>1, <2>2
    <3> QED BY <3>2, <3>3 DEF Has
  <2>5. Places'
    <3> SUFFICES ASSUME NEW b \in Actor PROVE
          /\ \A i \in 1..Len(mailbox'[b]) : Placed(b, mailbox[b][i])'
          /\ busy'[b] # NoMail => Placed(b, busy[b])'
          /\ \A i, j \in 1..Len(mailbox'[b]) :
                i # j /\ mailbox'[b][i].req = mailbox'[b][j].req => IsQuery(b, mailbox[b][i].req)'
          /\ busy'[b] # NoMail => \A i \in 1..Len(mailbox'[b]) :
                mailbox'[b][i].req = busy'[b].req => IsQuery(b, busy[b].req)'
      BY DEF Places
    <3>1. \A i \in 1..Len(mailbox'[b]) : \/ i \in 1..Len(mailbox[b]) /\ mailbox'[b][i] = mailbox[b][i]
                                         \/ b = "meeting" /\ mailbox'[b][i] = m
      BY <2>2
    <3>2. Placed("meeting", m) /\ IsQuery("meeting", m.req) BY <1>1, <2>0 DEF Placed, IsQuery
    <3>3. \A i \in 1..Len(mailbox'[b]) : Placed(b, mailbox'[b][i]) BY <3>1, <3>2, <1>2, AtHand
    <3>4. ASSUME NEW i \in 1..Len(mailbox'[b]), NEW j \in 1..Len(mailbox'[b]), i # j, mailbox'[b][i].req = mailbox'[b][j].req
          PROVE  IsQuery(b, mailbox'[b][i].req)
      BY <3>1, <3>2, <3>4, <1>2, AtHand
    <3>5. ASSUME busy'[b] # NoMail, NEW i \in 1..Len(mailbox'[b]), mailbox'[b][i].req = busy'[b].req
          PROVE  IsQuery(b, busy'[b].req)
      BY <3>1, <3>2, <3>5, <1>2, <1>3, AtHand
    <3>6. \A i \in 1..Len(mailbox'[b]) : Placed(b, mailbox[b][i])' BY <3>3, <1>3 DEF Placed, IsQuery
    <3>7. busy'[b] # NoMail => Placed(b, busy[b])' BY <1>2, <1>3, AtHand DEF Placed, IsQuery
    <3>8. \A i, j \in 1..Len(mailbox'[b]) :
                i # j /\ mailbox'[b][i].req = mailbox'[b][j].req => IsQuery(b, mailbox[b][i].req)'
      BY <3>4, <1>3 DEF IsQuery
    <3>9. busy'[b] # NoMail => \A i \in 1..Len(mailbox'[b]) :
                mailbox'[b][i].req = busy'[b].req => IsQuery(b, busy[b].req)'
      BY <3>5, <1>3 DEF IsQuery
    <3> QED BY <3>6, <3>7, <3>8, <3>9
  <2>6. Has("meeting", r)' BY <2>0, <2>2, <2>1 DEF Has
  <2>7. Queries' BY <1>0, <1>1, <1>3, <1>9, <2>6 DEF Queries
  <2>8. Endings'
    <3>1. \A b \in Actor : Gone(b) => mailbox'[b] = <<>> BY <1>2, <1>9, <2>2 DEF Endings
    <3> QED BY <3>1, <1>2, <1>3 DEF Endings, Gone
  <2> QED BY <1>5, <1>6, <1>7, <2>3, <2>4, <2>5, <2>7, <2>8 DEF CallsInv
<1> QED BY <1>3, <1>8, <1>9

LEMMA StopKeeps == ASSUME CallsInv, NEW a \in Actor, Stop(a) PROVE CallsInv'
<1>2. /\ CallsTyped /\ Stories /\ Places /\ Kept /\ Queries /\ Endings /\ MadeUpOnlyWhenGone /\ DepthInHand
      /\ asked \in [Request -> Kinds \cup {"none"}]
  BY DEF CallsInv, CallsTyped, CallsTypeOK
<1>3. /\ actor[a] = "running" /\ busy[a] = NoMail /\ cancelled[a] /\ cancelled' = Cancelled(a)
      /\ actor' = [actor EXCEPT ![a] = "closing"] /\ managed' = (managed /\ a # "controller")
      /\ UNCHANGED <<mailbox, busy, query, asked, fate, answers, done, told, monitor>>
  BY DEF Stop, CanStop
<1>1. a \in {"controller", "meeting", "participant"} BY <1>2, <1>3 DEF Endings, Actor
<1>4. /\ cancelled' \in [Actor -> BOOLEAN] /\ \A b \in Actor : cancelled[b] => cancelled'[b]
      /\ cancelled'["session"] = cancelled["session"] /\ cancelled'[a]
      /\ a = "controller" => cancelled'["meeting"]
  BY <1>1, <1>2, <1>3, CancelledGrows
<1>5. actor'[a] = "closing" /\ \A b \in Actor \ {a} : actor'[b] = actor[b] BY <1>2, <1>3 DEF CallsTyped, CallsTypeOK
<1>6. \A b \in Actor : (Gone(b)' <=> Gone(b)) /\ (actor'[b] = "panicked" <=> actor[b] = "panicked") BY <1>3, <1>5 DEF Gone
<1>7. Grows BY <1>4, <1>6 DEF Grows
<1>8. CallsTyped'
  <2>1. managed' \in BOOLEAN BY <1>3
  <2>2. actor' \in [Actor -> {"running", "closing", "stopped", "panicked"}] BY <1>2, <1>3 DEF CallsTyped, CallsTypeOK
  <2> QED BY <1>2, <1>3, <1>4, <2>1, <2>2 DEF CallsTyped, CallsTypeOK
<1>9. Stories' BY <1>2, <1>3, <1>7, SameStory DEF Stories
<1>10. Places' /\ Kept' /\ \A b \in Actor, q \in Request : Has(b, q)' = Has(b, q) BY <1>2, <1>3, SameMail
<1>m. "meeting" \in Actor /\ "session" \in Actor BY DEF Actor
<1>11. Queries' BY <1>2, <1>3, <1>6, <1>10, <1>m DEF Queries
<1>12. Endings'
  <2>1. \A b \in Actor : actor'[b] # "running" => busy'[b] = NoMail BY <1>2, <1>3, <1>5 DEF Endings
  <2>2. \A b \in Actor : Gone(b)' => mailbox'[b] = <<>> BY <1>2, <1>3, <1>6 DEF Endings
  <2>3. actor'["session"] = actor["session"] BY <1>1, <1>5, <1>m
  <2>4. ~managed' => cancelled'["meeting"] \/ Gone("meeting")'
    <3>1. CASE ~managed BY <3>1, <1>2, <1>4, <1>6, <1>m DEF Endings
    <3>2. CASE a = "controller" BY <3>2, <1>4
    <3> QED BY <3>1, <3>2, <1>3
  <2> QED BY <1>2, <1>4, <2>1, <2>2, <2>3, <2>4 DEF Endings
<1>13. MadeUpOnlyWhenGone' BY <1>2, <1>3, <1>7, MadeUpKeeps
<1>14. DepthInHand' BY <1>2, <1>3, <1>6 DEF DepthInHand
<1> QED BY <1>8, <1>9, <1>10, <1>11, <1>12, <1>13, <1>14 DEF CallsInv

LEMMA HandleKeeps == ASSUME CallsInv, NEW a \in Actor, Handle(a) PROVE CallsInv'
<1>0. /\ CallsTyped /\ Stories /\ Places /\ Kept /\ Queries /\ Endings /\ MadeUpOnlyWhenGone /\ DepthInHand
      /\ asked \in [Request -> Kinds \cup {"none"}]
  BY DEF CallsInv, CallsTyped, CallsTypeOK
<1>1. busy[a] # NoMail /\ busy[a].kind \notin {"JoinConnection", "GetMeeting", "RemoveMeeting"} BY DEF Handle, CanHandle
<1>2. PICK r \in Request : r = busy[a].req /\ Placed(a, busy[a]) BY <1>0, <1>1, AtHand
<1>3. actor[a] = "running" /\ Finished(a) /\ UNCHANGED <<mailbox, asked>> BY <1>0, <1>1 DEF Endings, Handle
<1>4. actor' = actor \/ (actor' = [actor EXCEPT ![a] = "closing"] /\ busy[a].kind = "Close")
  BY DEF Handle, ShouldExit
<1>5. cancelled' = Cancelled("controller") \/ cancelled' = Cancelled("meeting") \/ cancelled' = cancelled
  BY DEF Handle
<1>6. managed' = (managed /\ (a = "controller" => Healthy)) BY DEF Handle
<1>7. /\ cancelled' \in [Actor -> BOOLEAN] /\ \A b \in Actor : cancelled[b] => cancelled'[b]
      /\ cancelled'["session"] = cancelled["session"]
  <2>1. cancelled \in [Actor -> BOOLEAN] BY <1>0 DEF CallsTyped, CallsTypeOK
  <2> QED BY <2>1, <1>0, <1>5, CancelledGrows
<1>8. /\ actor' \in [Actor -> {"running", "closing", "stopped", "panicked"}]
      /\ \A b \in Actor \ {a} : actor'[b] = actor[b]
      /\ actor'[a] \in {"running", "closing"}
  BY <1>0, <1>3, <1>4 DEF CallsTyped, CallsTypeOK
<1>9. \A b \in Actor : (Gone(b)' <=> Gone(b)) /\ (actor'[b] = "panicked" <=> actor[b] = "panicked") BY <1>3, <1>8 DEF Gone
<1>10. Grows BY <1>7, <1>9 DEF Grows
<1>11. busy' = [busy EXCEPT ![a] = NoMail] /\ busy'[a] = NoMail /\ \A b \in Actor \ {a} : busy'[b] = busy[b]
  BY <1>0, <1>3 DEF Finished, CallsTyped, CallsTypeOK
<1>12. "meeting" \in Actor /\ "session" \in Actor /\ "controller" \in Actor BY DEF Actor
<1>13. Endings'
  <2>1. \A b \in Actor : actor'[b] # "running" => busy'[b] = NoMail BY <1>0, <1>8, <1>11 DEF Endings
  <2>2. \A b \in Actor : Gone(b)' => mailbox'[b] = <<>> BY <1>0, <1>3, <1>9 DEF Endings
  <2>3. actor'["session"] \in {"running", "panicked"}
    <3>1. CASE a = "session"
      <4>1. busy[a].kind # "Close"
        <5>1. asked[r] = "none" \/ asked[r] \in Kinds BY <1>0
        <5>2. fate[r] = "queued" => asked[r] # "none" BY <1>0 DEF Stories, Story
        <5>3. "Close" \in ParticipantMessage BY DEF ParticipantMessage
        <5> QED BY <1>2, <3>1, <5>1, <5>2, <5>3, KindFacts DEF Placed, IsQuery
      <4> QED BY <1>0, <1>4, <4>1 DEF Endings
    <3>2. CASE a # "session" BY <3>2, <1>0, <1>8, <1>12 DEF Endings
    <3> QED BY <3>1, <3>2
  <2>4. ~managed' => cancelled'["meeting"] \/ Gone("meeting")'
    BY <1>0, <1>6, <1>7, <1>9, <1>12 DEF Endings, Healthy
  <2> QED BY <1>0, <1>7, <2>1, <2>2, <2>3, <2>4 DEF Endings
<1>14. managed' \in BOOLEAN BY <1>6, <1>0 DEF CallsTyped, CallsTypeOK
<1>t. told' \in [Actor -> Nat] /\ \A b \in Actor : Len(mailbox'[b]) + told'[b] <= Room
  <2>0. "participant" \in Actor BY DEF Actor
  <2>1. /\ told \in [Actor -> Nat] /\ mailbox \in [Actor -> Seq(Mail)] /\ Room \in Nat /\ "participant" \in Actor
        /\ \A b \in Actor : Len(mailbox[b]) + told[b] <= Room /\ Len(mailbox[b]) \in Nat
    BY <1>0, <2>0, CallsAssumption DEF CallsTyped, CallsTypeOK
  <2>2. mailbox' = mailbox BY <1>3
  <2>3. CASE Broadcasts(a) /\ ~Gone("participant")
    <3>1. told' = [told EXCEPT !["participant"] = @ + 1] BY <2>3 DEF Handle
    <3>2. Len(mailbox["participant"]) + told["participant"] < Room BY <2>3 DEF Handle, CanHandle, SendEnds, Accepts
    <3>3. told["participant"] + 1 \in Nat BY <2>1
    <3> QED BY <2>1, <2>2, <3>1, <3>2, <3>3
  <2>4. CASE ~(Broadcasts(a) /\ ~Gone("participant"))
    <3>1. told' = told BY <2>4 DEF Handle
    <3> QED BY <2>1, <2>2, <3>1
  <2> QED BY <2>3, <2>4
<1>15. query # "none" => a # "controller" BY <1>0, <1>1 DEF Queries
<1>16. CASE IsQuery(a, r)
  <2>1. a = "meeting" /\ query' = (IF query = "queued" THEN "answered" ELSE query) /\ UNCHANGED <<fate, done, answers>>
    BY <1>2, <1>16 DEF Handle, IsQuery
  <2>2. Stories' BY <1>0, <1>3, <1>10, <2>1, SameStory DEF Stories
  <2>3. Places' /\ Kept' BY <1>0, <1>1, <1>2, <1>3, <1>11, <1>16, <2>1, AnsweredKeeps
  <2>4. MadeUpOnlyWhenGone' BY <1>0, <1>10, <2>1, MadeUpKeeps
  <2>5. /\ DepthInHand' /\ monitor' \in [Actor -> [depth: Nat, peak: Nat, processed: Nat]]
        /\ busy' \in [Actor -> Mail \cup {NoMail}]
    BY <1>0, <1>1, <1>3, <1>9, FinishedDepth
  <2>6. CallsTyped' BY <1>0, <1>3, <1>7, <1>8, <1>14, <1>t, <2>1, <2>5 DEF CallsTyped, CallsTypeOK
  <2>7. Queries' BY <1>0, <1>9, <1>11, <1>12, <2>1 DEF Queries
  <2> QED BY <1>13, <2>2, <2>3, <2>4, <2>5, <2>6, <2>7 DEF CallsInv
<1>17. CASE ~IsQuery(a, r)
  <2>1. /\ done' = [done EXCEPT ![r] = @ + 1] /\ fate' = [fate EXCEPT ![r] = "handled"] /\ Reply(r, "ok")
        /\ UNCHANGED query
    BY <1>2, <1>17 DEF Handle, IsQuery
  <2>2. /\ Stories' /\ Places' /\ Kept' /\ MadeUpOnlyWhenGone' /\ DepthInHand'
        /\ fate' \in [Request -> Fates] /\ answers' \in [Request -> Answers]
        /\ asked' \in [Request -> Kinds \cup {"none"}] /\ done' \in [Request -> Nat]
        /\ monitor' \in [Actor -> [depth: Nat, peak: Nat, processed: Nat]]
        /\ busy' \in [Actor -> Mail \cup {NoMail}]
    <3>1. PICK f \in {"handled", "relayed"}, res \in {"ok", "not_found", "zeros", "pending"} :
              f = "handled" /\ res = "ok" OBVIOUS
    <3>2. fate' = [fate EXCEPT ![r] = f] /\ Reply(r, res) BY <3>1, <2>1
    <3> QED BY <1>1, <1>2, <1>3, <1>9, <1>10, <1>17, <2>1, <3>1, <3>2, DoneKeeps
  <2>3. CallsTyped' BY <1>0, <1>3, <1>7, <1>8, <1>14, <1>t, <2>1, <2>2 DEF CallsTyped, CallsTypeOK
  <2>4. \A q \in Request : asked[q] = "GetMeeting" /\ Has("meeting", q) => Has("meeting", q)'
    BY <1>2, <1>3, <1>11, <1>12, <1>17 DEF Has, IsQuery
  <2>5. Queries'
    <3>1. query' # "none" => busy'["controller"] # NoMail /\ busy'["controller"].kind = "GetMeeting"
      BY <1>0, <1>11, <1>12, <1>15, <2>1 DEF Queries
    <3> QED BY <3>1, <1>0, <1>3, <1>9, <1>12, <2>1, <2>4 DEF Queries
  <2> QED BY <1>13, <2>2, <2>3, <2>5 DEF CallsInv
<1> QED BY <1>16, <1>17

\* The end of an actor, orderly or by a panic.
LEMMA EndKeeps ==
    ASSUME CallsInv, NEW a \in Actor, NEW lost, NEW s \in {"stopped", "panicked"}, Drop(a, lost),
           \A q \in Request : q \in lost <=> Has(a, q) /\ ~IsQuery(a, q),
           actor' = [actor EXCEPT ![a] = s], ~Gone(a), UNCHANGED <<asked, cancelled, managed, monitor>>,
           busy[a] # NoMail <=> s = "panicked", a = "session" => s = "panicked",
           done' \in [Request -> Nat],
           \A q \in Request : done'[q] = done[q] \/ (q \in lost /\ done'[q] = 1 /\ s = "panicked"),
           query' \in {query, "none", "failed"}, query = "none" => query' = "none",
           a = "controller" => query' = "none",
           a = "meeting" => query' # "queued",
           a # "meeting" => query' \in {query, "none"},
           told' \in [Actor -> Nat], told'[a] = 0, \A b \in Actor \ {a} : Len(mailbox[b]) + told'[b] <= Room
    PROVE  CallsInv'
<1>0. /\ CallsTyped /\ Stories /\ Places /\ Kept /\ Queries /\ Endings /\ MadeUpOnlyWhenGone /\ DepthInHand
      /\ asked \in [Request -> Kinds \cup {"none"}] /\ fate \in [Request -> Fates] /\ answers \in [Request -> Answers]
      /\ query \in {"none", "sending", "queued", "answered", "failed"}
  BY DEF CallsInv, CallsTyped, CallsTypeOK
<1>1. /\ mailbox'[a] = <<>> /\ busy'[a] = NoMail /\ actor'[a] = s
      /\ \A b \in Actor \ {a} : mailbox'[b] = mailbox[b] /\ busy'[b] = busy[b] /\ actor'[b] = actor[b]
      /\ \A q \in Request : fate'[q] = IF q \in lost THEN "dropped" ELSE fate[q]
      /\ \A q \in Request : answers'[q] = IF q \in lost /\ answers[q] = "pending"
                                          THEN Refusal(a, "receive_failed") ELSE answers[q]
  BY <1>0 DEF Drop, CallsTyped, CallsTypeOK
<1>2. Grows BY <1>1 DEF Grows, Gone
<1>3. "meeting" \in Actor /\ "session" \in Actor /\ "controller" \in Actor BY DEF Actor
<1>4. CallsTyped'
  <2>1. fate' \in [Request -> Fates] BY <1>0 DEF Drop, Fates
  <2>2. answers' \in [Request -> Answers] BY <1>0 DEF Drop, Answers, Refusal
  <2>3. busy' \in [Actor -> Mail \cup {NoMail}] BY <1>0 DEF Drop, CallsTyped, CallsTypeOK
  <2>4. mailbox' \in [Actor -> Seq(Mail)] BY <1>0 DEF Drop, CallsTyped, CallsTypeOK
  <2>5. \A b \in Actor : Len(mailbox'[b]) + told'[b] <= Room
    <3>1. Room \in Nat /\ Len(<<>>) = 0 BY CallsAssumption
    <3>2. Len(mailbox'[a]) + told'[a] <= Room BY <3>1, <1>1
    <3>3. \A b \in Actor \ {a} : Len(mailbox'[b]) + told'[b] <= Room BY <1>1
    <3> QED BY <3>2, <3>3
  <2>6. actor' \in [Actor -> {"running", "closing", "stopped", "panicked"}] BY <1>0 DEF CallsTyped, CallsTypeOK
  <2>7. query' \in {"none", "sending", "queued", "answered", "failed"} BY <1>0
  <2> QED BY <1>0, <2>1, <2>2, <2>3, <2>4, <2>5, <2>6, <2>7 DEF CallsTyped, CallsTypeOK
<1>5. Stories'
  <2> SUFFICES ASSUME NEW q \in Request PROVE Story(q)' BY DEF Stories
  <2>0. Story(q) BY <1>0 DEF Stories
  <2>1. CASE q \in lost
    <3>1. fate[q] \in {"queued", "forwarded"} /\ a = At(q) BY <2>1, <1>0, OnePlace
    <3>2. done[q] = 0 /\ asked[q] # "none" BY <2>0, <3>1 DEF Story
    <3>3. s = "panicked" => Failed(q)' BY <3>1, <1>1, <1>3 DEF Failed, At
    <3>4. answers[q] \in {"pending", "given_up"} \/ (answers[q] = "ok" /\ asked[q] \in Tell) BY <2>0, <3>1 DEF Story
    <3>5. fate'[q] = "dropped" /\ (done'[q] = 0 \/ (done'[q] = 1 /\ s = "panicked")) BY <2>1, <1>1, <3>2
    <3>6. answers'[q] \in {"receive_failed", "default", "given_up"} \/ (answers'[q] = "ok" /\ asked[q] \in Tell)
      BY <2>1, <1>1, <3>4 DEF Refusal
    <3> QED BY <3>2, <3>3, <3>5, <3>6 DEF Story
  <2>2. CASE q \notin lost BY <2>0, <2>2, <1>0, <1>1, <1>2, SameStory
  <2> QED BY <2>1, <2>2
<1>6. Places' /\ Kept' BY <1>0, DropKeeps
<1>7. Queries'
  <2>1. query' # "none" => busy'["controller"] # NoMail /\ busy'["controller"].kind = "GetMeeting"
    <3>1. CASE a = "controller" BY <3>1
    <3>2. CASE a = "meeting"
      <4>1. query' # "none" => query # "none" OBVIOUS
      <4> QED BY <1>0, <1>1, <1>3, <3>2, <4>1 DEF Queries
    <3>3. CASE a \notin {"controller", "meeting"} BY <3>3, <1>0, <1>1, <1>3 DEF Queries
    <3> QED BY <3>1, <3>2, <3>3
  <2>2. query' = "queued" => \E q \in Request : asked'[q] = "GetMeeting" /\ Has("meeting", q)'
    <3> SUFFICES ASSUME query' = "queued" PROVE \E q \in Request : asked'[q] = "GetMeeting" /\ Has("meeting", q)' OBVIOUS
    <3>1. a # "meeting" /\ query = "queued" OBVIOUS
    <3>2. \A q \in Request : Has("meeting", q) => Has("meeting", q)' BY <3>1, <1>1, <1>3 DEF Has
    <3> QED BY <3>1, <3>2, <1>0 DEF Queries
  <2>3. query' = "failed" => Gone("meeting")' BY <1>0, <1>1, <1>2, <1>3 DEF Queries, Gone, Grows
  <2> QED BY <2>1, <2>2, <2>3 DEF Queries
<1>8. Endings'
  <2>1. \A b \in Actor : /\ actor'[b] # "running" => busy'[b] = NoMail
                         /\ Gone(b)' => mailbox'[b] = <<>>
    BY <1>0, <1>1 DEF Endings, Gone
  <2>2. actor'["session"] \in {"running", "panicked"} /\ ~cancelled'["session"] BY <1>0, <1>1, <1>3 DEF Endings
  <2>3. ~managed' => cancelled'["meeting"] \/ Gone("meeting")' BY <1>0, <1>2, <1>3 DEF Endings, Grows
  <2> QED BY <2>1, <2>2, <2>3 DEF Endings
<1>9. MadeUpOnlyWhenGone'
  <2> SUFFICES ASSUME NEW q \in Request PROVE
        /\ answers'[q] = "zeros" => Gone("meeting")'
        /\ answers'[q] = "not_found" => cancelled'["meeting"] \/ Gone("meeting")'
        /\ answers'[q] = "default" => actor'["session"] = "panicked"
    BY DEF MadeUpOnlyWhenGone
  <2>1. answers'[q] = answers[q] \/ (answers'[q] = "default" /\ a = "session") \/ answers'[q] = "receive_failed"
    BY <1>1 DEF Refusal
  <2>2. /\ answers[q] = "zeros" => Gone("meeting")
        /\ answers[q] = "not_found" => cancelled["meeting"] \/ Gone("meeting")
        /\ answers[q] = "default" => actor["session"] = "panicked"
    BY <1>0 DEF MadeUpOnlyWhenGone
  <2> QED BY <1>1, <1>2, <1>3, <2>1, <2>2 DEF Grows
<1>10. DepthInHand'
  <2>1. ~(actor[a] = "panicked") BY DEF Gone
  <2> SUFFICES ASSUME NEW b \in Actor \ {"session"} PROVE
        /\ monitor'[b].depth = IF busy'[b] # NoMail \/ actor'[b] = "panicked" THEN 1 ELSE 0
        /\ monitor'[b].peak = IF monitor'[b].depth + monitor'[b].processed > 0 THEN 1 ELSE 0
    BY DEF DepthInHand
  <2>2. monitor'[b] = monitor[b] OBVIOUS
  <2>3. busy'[b] # NoMail \/ actor'[b] = "panicked" <=> busy[b] # NoMail \/ actor[b] = "panicked"
    BY <1>1, <2>1
  <2> QED BY <1>0, <2>2, <2>3 DEF DepthInHand
<1> QED BY <1>4, <1>5, <1>6, <1>7, <1>8, <1>9, <1>10 DEF CallsInv

LEMMA EndedKeeps == ASSUME CallsInv, NEW a \in Actor, Ended(a) PROVE CallsInv'
<1>0. /\ CallsTyped /\ Stories /\ Places /\ Kept /\ Queries /\ Endings
      /\ asked \in [Request -> Kinds \cup {"none"}] /\ done \in [Request -> Nat]
  BY DEF CallsInv, CallsTyped, CallsTypeOK
<1>1. /\ actor[a] = "closing" /\ actor' = [actor EXCEPT ![a] = "stopped"] /\ Drop(a, Waiting(a, Queued(a)))
      /\ query' = QueryLost(a, Queued(a)) /\ UNCHANGED <<cancelled, managed, asked, done, monitor>>
      /\ a = "participant" => SendEnds("meeting")
  BY DEF Ended, CanEnd
<1>2. busy[a] = NoMail /\ ~Gone(a) /\ a # "session" BY <1>0, <1>1 DEF Endings, Gone
<1>3. PICK lost : lost = Waiting(a, Queued(a)) OBVIOUS
<1>d. DOMAIN mailbox[a] = 1..Len(mailbox[a]) BY <1>0 DEF CallsTyped, CallsTypeOK
<1>4. \A q \in Request : q \in lost <=> Has(a, q) /\ ~IsQuery(a, q)
  BY <1>2, <1>3, <1>d DEF Waiting, Queued, Has, IsQuery
<1>5. query' \in {query, "failed"} /\ (a # "meeting" => query' = query) /\ (query = "none" => query' = "none")
  BY <1>1 DEF QueryLost
<1>6. a = "controller" => query = "none" BY <1>0, <1>2 DEF Queries
<1>7. a = "meeting" => query' # "queued"
  <2> SUFFICES ASSUME a = "meeting", query' = "queued" PROVE FALSE OBVIOUS
  <2>1. query = "queued" /\ ~\E m \in Queued(a) : asked[m.req] = "GetMeeting" BY <1>1 DEF QueryLost
  <2>2. PICK q \in Request : asked[q] = "GetMeeting" /\ Has("meeting", q) BY <1>0, <2>1 DEF Queries
  <2> QED BY <2>1, <2>2, <1>2, <1>d DEF Has, Queued
<1>8. PICK s \in {"stopped", "panicked"} : s = "stopped" OBVIOUS
<1>9. actor' = [actor EXCEPT ![a] = s] /\ Drop(a, lost) BY <1>1, <1>3, <1>8
<1>10. query' \in {query, "none", "failed"} /\ (a = "controller" => query' = "none")
       /\ (a # "meeting" => query' \in {query, "none"}) BY <1>5, <1>6
<1>11. done' \in [Request -> Nat] /\ \A q \in Request : done'[q] = done[q] BY <1>0, <1>1
<1>12. UNCHANGED <<asked, cancelled, managed, monitor>> BY <1>1
<1>13. told' \in [Actor -> Nat] /\ told'[a] = 0 /\ \A b \in Actor \ {a} : Len(mailbox[b]) + told'[b] <= Room
  <2>0. "meeting" \in Actor BY DEF Actor
  <2>1. /\ told \in [Actor -> Nat] /\ mailbox \in [Actor -> Seq(Mail)] /\ Room \in Nat /\ "meeting" \in Actor
        /\ \A b \in Actor : Len(mailbox[b]) + told[b] <= Room /\ Len(mailbox[b]) \in Nat
    BY <1>0, <2>0, CallsAssumption DEF CallsTyped, CallsTypeOK
  <2>2. told' = [b \in Actor |-> CASE b = a -> 0
                                   [] b = "meeting" /\ a = "participant" /\ ~Gone(b) -> told[b] + 1
                                   [] OTHER -> told[b]]
    BY DEF Ended
  <2>3. told'[a] = 0 BY <2>2
  <2>4. ASSUME NEW b \in Actor \ {a} PROVE told'[b] \in Nat /\ Len(mailbox[b]) + told'[b] <= Room
    <3>1. CASE b = "meeting" /\ a = "participant" /\ ~Gone(b)
      <4>1. told'[b] = told[b] + 1 BY <2>2, <3>1
      <4>2. Len(mailbox[b]) + told[b] < Room BY <1>1, <3>1 DEF SendEnds, Accepts
      <4> QED BY <2>1, <4>1, <4>2
    <3>2. CASE ~(b = "meeting" /\ a = "participant" /\ ~Gone(b))
      <4>1. told'[b] = told[b] BY <2>2, <3>2
      <4> QED BY <2>1, <4>1
    <3> QED BY <3>1, <3>2
  <2>5. told' = [b \in Actor |-> told'[b]] BY <2>2
  <2>6. \A b \in Actor : told'[b] \in Nat BY <2>3, <2>4
  <2> QED BY <2>3, <2>4, <2>5, <2>6
<1> QED BY <1>2, <1>4, <1>5, <1>7, <1>8, <1>9, <1>10, <1>11, <1>12, <1>13, EndKeeps

LEMMA PanicKeeps == ASSUME CallsInv, NEW a \in Actor, Panic(a) PROVE CallsInv'
<1>0. /\ CallsTyped /\ Stories /\ Places /\ Kept /\ Queries /\ Endings
      /\ asked \in [Request -> Kinds \cup {"none"}] /\ done \in [Request -> Nat]
  BY DEF CallsInv, CallsTyped, CallsTypeOK
<1>1. PICK m : m = busy[a] OBVIOUS
<1>2. /\ m # NoMail /\ actor' = [actor EXCEPT ![a] = "panicked"] /\ Drop(a, Waiting(a, Queued(a) \cup {m}))
      /\ query' = (IF a = "controller" THEN "none" ELSE QueryLost(a, Queued(a) \cup {m}))
      /\ \/ done' = done
         \/ done' = [done EXCEPT ![m.req] = IF a = "meeting" /\ asked[m.req] = "GetMeeting" THEN @ ELSE 1]
      /\ UNCHANGED <<cancelled, managed, asked, monitor>>
  BY <1>1 DEF Panic
<1>3. /\ actor[a] = "running" /\ ~Gone(a) /\ m.req \in Request /\ m \in Mail BY <1>0, <1>1, <1>2, AtHand DEF Endings, Gone
<1>4. PICK lost : lost = Waiting(a, Queued(a) \cup {m}) OBVIOUS
<1>d. DOMAIN mailbox[a] = 1..Len(mailbox[a]) BY <1>0 DEF CallsTyped, CallsTypeOK
<1>5. \A q \in Request : q \in lost <=> Has(a, q) /\ ~IsQuery(a, q)
  BY <1>1, <1>2, <1>4, <1>d DEF Waiting, Queued, Has, IsQuery
<1>6. /\ query' \in {query, "none", "failed"} /\ (a = "controller" => query' = "none")
      /\ (a # "meeting" => query' \in {query, "none"}) /\ (query = "none" => query' = "none")
  BY <1>2 DEF QueryLost
<1>7. a = "meeting" => query' # "queued"
  <2> SUFFICES ASSUME a = "meeting", query' = "queued" PROVE FALSE OBVIOUS
  <2>1. query = "queued" /\ ~\E x \in Queued(a) \cup {m} : asked[x.req] = "GetMeeting" BY <1>2 DEF QueryLost
  <2>2. PICK q \in Request : asked[q] = "GetMeeting" /\ Has("meeting", q) BY <1>0, <2>1 DEF Queries
  <2> QED BY <2>1, <2>2, <1>1, <1>2, <1>d DEF Has, Queued
<1>8. PICK s \in {"stopped", "panicked"} : s = "panicked" OBVIOUS
<1>9. actor' = [actor EXCEPT ![a] = s] /\ Drop(a, lost) BY <1>2, <1>4, <1>8
<1>10. done' \in [Request -> Nat] BY <1>0, <1>2, <1>3
<1>11. \A q \in Request : done'[q] = done[q] \/ (q \in lost /\ done'[q] = 1 /\ s = "panicked")
  <2>1. Has(a, m.req) BY <1>1, <1>2 DEF Has
  <2> QED BY <1>0, <1>2, <1>3, <1>5, <1>8, <2>1 DEF IsQuery
<1>12. UNCHANGED <<asked, cancelled, managed, monitor>> BY <1>2
<1>13. told' \in [Actor -> Nat] /\ told'[a] = 0 /\ \A b \in Actor \ {a} : Len(mailbox[b]) + told'[b] <= Room
  BY <1>0 DEF Panic, CallsTyped, CallsTypeOK
<1> QED BY <1>1, <1>2, <1>3, <1>5, <1>6, <1>7, <1>8, <1>9, <1>10, <1>11, <1>12, <1>13, EndKeeps

LEMMA CallsStarts == CallsInit => CallsInv
<1> SUFFICES ASSUME CallsInit PROVE CallsInv OBVIOUS
<1> USE DEF CallsInit
<1>1. CallsTyped
  <2>1. mailbox \in [Actor -> Seq(Mail)] /\ told \in [Actor -> Nat] OBVIOUS
  <2>3. \A a \in Actor : Len(mailbox[a]) + told[a] <= Room
    <3>1. \A a \in Actor : Len(mailbox[a]) = 0 /\ told[a] \in {0, 1} OBVIOUS
    <3> QED BY <3>1, CallsAssumption
  <2>2. monitor \in [Actor -> [depth: Nat, peak: Nat, processed: Nat]] BY DEF FreshMonitor
  <2> QED BY <2>1, <2>2, <2>3 DEF CallsTyped, CallsTypeOK, Fates, Answers
<1>2. Stories BY DEF Stories, Story
<1>3. Places BY DEF Places
<1>4. Kept BY DEF Kept
<1>5. Queries BY DEF Queries
<1>6. Endings BY DEF Endings, Gone, Actor
<1>7. MadeUpOnlyWhenGone BY DEF MadeUpOnlyWhenGone
<1>8. DepthInHand BY DEF DepthInHand, FreshMonitor
<1> QED BY <1>1, <1>2, <1>3, <1>4, <1>5, <1>6, <1>7, <1>8 DEF CallsInv

LEMMA CallsSteps == ASSUME CallsInv, [CallsNext]_callsVars PROVE CallsInv'
<1>1. CASE UNCHANGED callsVars
  <2>1. CallsTyped' BY <1>1 DEF CallsInv, CallsTyped, CallsTypeOK, callsVars
  <2>2. UNCHANGED <<mailbox, busy, asked, fate>> BY <1>1 DEF callsVars
  <2>3. Places' /\ Kept' BY <2>2, SameMail DEF CallsInv
  <2>4. Grows BY <1>1, GrowsSame DEF callsVars
  <2>5. Stories' BY <1>1, <2>4, SameStory DEF CallsInv, CallsTyped, Stories, callsVars
  <2>6. MadeUpOnlyWhenGone' BY <1>1, <2>4, MadeUpKeeps DEF CallsInv, callsVars
  <2>7. Queries' /\ Endings' BY <1>1 DEF CallsInv, Queries, Endings, Has, Gone, callsVars
  <2>8. DepthInHand' BY <1>1 DEF CallsInv, DepthInHand, callsVars
  <2> QED BY <2>1, <2>3, <2>5, <2>6, <2>7, <2>8 DEF CallsInv
<1>2. CASE \E a \in Actor : Receive(a) \/ Hear(a) \/ Handle(a) \/ Stop(a) \/ Ended(a) \/ Panic(a)
  BY <1>2, ReceiveKeeps, HearKeeps, HandleKeeps, StopKeeps, EndedKeeps, PanicKeeps
<1>3. CASE \E r \in Request : Send(r) \/ Relay(r) \/ Abandon(r) \/ \E kind \in Asked : Ask(r, kind)
  BY <1>3, SendKeeps, RelayKeeps, AbandonKeeps, AskKeeps
<1>4. CASE RemoveMeeting \/ JoinConnection \/ GetMeeting \/ QuerySend \/ QueryDone
  BY <1>4, RemoveMeetingKeeps, JoinConnectionKeeps, GetMeetingKeeps, QuerySendKeeps, QueryDoneKeeps
<1> QED BY <1>1, <1>2, <1>3, <1>4 DEF CallsNext, CallsStep


\* Either some task goes on, or the meeting and the participant wait for each other.
Moves == CanStep \/ CircularWait

\* An actor is gone, at a message, or can take one, be stopped or end.
LEMMA Life == ASSUME CallsInv, NEW a \in Actor PROVE actor[a] \in {"running", "closing"} \/ Gone(a)
  BY DEF CallsInv, CallsTyped, CallsTypeOK, Gone

\* A mailbox without a free slot holds a message or what another actor has told.
LEMMA Full ==
    ASSUME CallsInv, NEW a \in Actor, ~SendEnds(a)
    PROVE  ~Gone(a) /\ (mailbox[a] # <<>> \/ told[a] > 0)
<1>1. mailbox[a] \in Seq(Mail) /\ told[a] \in Nat /\ Room \in Nat \ {0}
  BY CallsAssumption DEF CallsInv, CallsTyped, CallsTypeOK
<1>2. ~Gone(a) /\ ~(Len(mailbox[a]) + told[a] < Room) BY DEF SendEnds, Accepts
<1> QED BY <1>1, <1>2

\* What the meeting, the participant and the session manager take out, they can handle.
LEMMA InHand ==
    ASSUME CallsInv, NEW a \in Actor \ {"controller"}, busy[a] # NoMail
    PROVE  busy[a].kind \notin {"JoinConnection", "GetMeeting", "RemoveMeeting"} /\ actor[a] = "running"
<1>0. CallsTyped /\ Stories /\ Places /\ Endings BY DEF CallsInv
<1>1. PICK m \in Mail : m = busy[a] /\ m.req \in Request /\ Placed(a, m) BY <1>0, AtHand
<1>2. asked[m.req] = "none" \/ asked[m.req] \in Kinds BY <1>0, <1>1 DEF CallsTyped
<1>3. fate[m.req] = "queued" => asked[m.req] # "none" BY <1>0, <1>1 DEF Stories, Story
<1>4. m.kind \notin {"JoinConnection", "GetMeeting", "RemoveMeeting"}
  BY <1>1, <1>2, <1>3, KindFacts DEF Placed, ControllerMessage
<1> QED BY <1>0, <1>1, <1>4 DEF Endings

\* A running actor with something to do, and that awaits nobody's slot, goes on.
LEMMA Runs ==
    ASSUME CallsInv, NEW a \in Actor \ {"controller"}, actor[a] = "running",
           mailbox[a] # <<>> \/ busy[a] # NoMail \/ told[a] > 0,
           busy[a] # NoMail /\ Broadcasts(a) => SendEnds("participant")
    PROVE  CanStep
<1>1. CASE busy[a] = NoMail BY <1>1 DEF CanStep, CanReceive, CanHear
<1>2. CASE busy[a] # NoMail BY <1>2, InHand DEF CanStep, CanHandle
<1> QED BY <1>1, <1>2

\* The participant, when the meeting awaits its slot: it reads on, or it is at its end and
\* awaits the meeting's.
LEMMA ParticipantMoves ==
    ASSUME CallsInv, busy["meeting"] # NoMail, Broadcasts("meeting"), ~SendEnds("participant")
    PROVE  Moves
<1>1. "participant" \in Actor \ {"controller"} BY DEF Actor
<1>2. ~Gone("participant") /\ (mailbox["participant"] # <<>> \/ told["participant"] > 0) BY <1>1, Full
<1>3. CASE actor["participant"] = "running"
  <2>1. ~Broadcasts("participant") BY DEF Broadcasts
  <2> QED BY <1>1, <1>2, <1>3, <2>1, Runs DEF Moves
<1>4. CASE actor["participant"] = "closing"
  <2>1. CASE SendEnds("meeting") BY <1>1, <1>4, <2>1 DEF Moves, CanStep, CanEnd
  <2>2. CASE ~SendEnds("meeting") BY <1>4, <2>2 DEF Moves, CircularWait
  <2> QED BY <2>1, <2>2
<1> QED BY <1>1, <1>2, <1>3, <1>4, Life

\* The meeting, when it has something to do.
LEMMA MeetingMoves ==
    ASSUME CallsInv, ~Gone("meeting"), mailbox["meeting"] # <<>> \/ busy["meeting"] # NoMail \/ told["meeting"] > 0
    PROVE  Moves
<1>1. "meeting" \in Actor \ {"controller"} BY DEF Actor
<1>2. CASE actor["meeting"] = "closing" BY <1>1, <1>2 DEF Moves, CanStep, CanEnd
<1>3. CASE actor["meeting"] = "running"
  <2>1. CASE busy["meeting"] # NoMail /\ Broadcasts("meeting") /\ ~SendEnds("participant") BY <2>1, ParticipantMoves
  <2>2. CASE ~(busy["meeting"] # NoMail /\ Broadcasts("meeting") /\ ~SendEnds("participant"))
    BY <1>1, <1>3, <2>2, Runs DEF Moves
  <2> QED BY <2>1, <2>2
<1> QED BY <1>1, <1>2, <1>3, Life

LEMMA MeetingSettles == ASSUME CallsInv, ~SendEnds("meeting") PROVE Moves
<1>1. "meeting" \in Actor BY DEF Actor
<1> QED BY <1>1, Full, MeetingMoves

\* An actor that has something to do and is not gone goes on, or the one it waits for does.
LEMMA ActorMoves ==
    ASSUME CallsInv, NEW a \in Actor, ~Gone(a), mailbox[a] # <<>> \/ busy[a] # NoMail \/ told[a] > 0
    PROVE  Moves
<1>0. CallsTyped /\ Queries BY DEF CallsInv
<1>1. CASE a = "meeting" BY <1>1, MeetingMoves
<1>2. CASE a \in {"participant", "session"}
  <2>1. ~Broadcasts(a) /\ a \in Actor \ {"controller"} BY <1>2 DEF Broadcasts
  <2>2. CASE actor[a] = "running" BY <2>1, <2>2, Runs DEF Moves
  <2>3. CASE actor[a] = "closing"
    <3>1. CASE SendEnds("meeting") BY <2>3, <3>1 DEF Moves, CanStep, CanEnd
    <3>2. CASE ~SendEnds("meeting") BY <3>2, MeetingSettles
    <3> QED BY <3>1, <3>2
  <2> QED BY <2>2, <2>3, Life
<1>3. CASE a = "controller"
  <2>2. CASE actor[a] = "closing" BY <1>3, <2>2 DEF Moves, CanStep, CanEnd
  <2>3. CASE actor[a] = "running" /\ busy[a] = NoMail BY <1>3, <2>3 DEF Moves, CanStep, CanReceive, CanHear
  <2>4. CASE actor[a] = "running" /\ busy[a] # NoMail
    <3>1. CASE busy[a].kind \notin {"JoinConnection", "GetMeeting", "RemoveMeeting"}
      <4>1. ~Broadcasts(a) BY <1>3 DEF Broadcasts
      <4> QED BY <2>4, <3>1, <4>1 DEF Moves, CanStep, CanHandle
    <3>2. CASE busy[a].kind \in {"JoinConnection", "RemoveMeeting"} BY <1>3, <2>4, <3>2 DEF Moves, CanStep, Holding
    <3>3. CASE busy[a].kind = "GetMeeting"
      <4>1. CASE query = "none" BY <1>3, <2>4, <3>3, <4>1 DEF Moves, CanStep, Holding
      <4>2. CASE query = "sending" BY <1>3, <2>4, <4>2, MeetingSettles DEF Moves, CanStep
      <4>3. CASE query = "queued"
        <5>1. PICK q \in Request : Has("meeting", q) BY <1>0, <4>3 DEF Queries
        <5>2. "meeting" \in Actor /\ (mailbox["meeting"] # <<>> \/ busy["meeting"] # NoMail) BY <5>1 DEF Has, Actor
        <5>3. ~Gone("meeting") BY <5>2 DEF CallsInv, Endings, Gone
        <5> QED BY <5>2, <5>3, MeetingMoves
      <4>4. CASE query \in {"answered", "failed"} BY <1>3, <2>4, <4>4 DEF Moves, CanStep
      <4> QED BY <1>0, <4>1, <4>2, <4>3, <4>4 DEF CallsTyped, CallsTypeOK
    <3> QED BY <3>1, <3>2, <3>3
  <2> QED BY <2>2, <2>3, <2>4, Life
<1> QED BY <1>1, <1>2, <1>3 DEF Actor

LEMMA CallsHold == ASSUME CallsInv PROVE CallsCorrect
<1>0. CallsTyped /\ Stories /\ Kept /\ MadeUpOnlyWhenGone /\ DepthInHand BY DEF CallsInv
<1>1. AnswersTrue
  <2> SUFFICES ASSUME NEW r \in Request PROVE
        /\ done[r] <= 1
        /\ answers[r] = "ok" /\ asked[r] \notin Tell => fate[r] = "handled" /\ done[r] = 1
        /\ answers[r] = "send_failed" => fate[r] = "dropped" /\ done[r] = 0
        /\ answers[r] = "receive_failed" =>
              /\ fate[r] = "dropped"
              /\ done[r] = 0 \/ \E a \in {Receiver(asked[r]), "meeting"} : actor[a] = "panicked"
        /\ fate[r] \in {"handled", "dropped"} => answers[r] # "pending"
    BY DEF AnswersTrue
  <2>1. Story(r) /\ fate[r] \in Fates /\ done[r] \in Nat BY <1>0 DEF Stories, CallsTyped, CallsTypeOK
  <2> QED BY <2>1 DEF Story, Failed, Fates
<1>2. NobodyStuck
  <2> SUFFICES ASSUME NEW r \in Request, answers[r] = "pending" PROVE Moves BY DEF NobodyStuck, Moves
  <2>1. Story(r) /\ fate[r] \in Fates BY <1>0 DEF Stories, CallsTyped, CallsTypeOK
  <2>2. fate[r] \in {"sending", "queued", "relayed", "forwarded"} BY <2>1 DEF Story, Fates
  <2>3. CASE fate[r] \in {"queued", "forwarded"}
    <3>1. PICK a \in Actor : Has(a, r) BY <1>0, <2>3, AtActor DEF Kept
    <3>2. mailbox[a] # <<>> \/ busy[a] # NoMail BY <3>1 DEF Has
    <3>3. ~Gone(a) BY <3>2 DEF CallsInv, Endings, Gone
    <3> QED BY <3>2, <3>3, ActorMoves
  <2>4. CASE fate[r] = "relayed" BY <2>4, MeetingSettles DEF Moves, CanStep
  <2>5. CASE fate[r] = "sending"
    <3>1. asked[r] \in Kinds BY <1>0, <2>1, <2>5 DEF Story, CallsTyped
    <3>2. PICK a \in Actor : a = Receiver(asked[r]) BY <3>1, KindFacts
    <3>3. CASE SendEnds(a) BY <2>5, <3>2, <3>3 DEF Moves, CanStep
    <3>4. CASE ~SendEnds(a) BY <3>4, Full, ActorMoves
    <3> QED BY <3>3, <3>4
  <2> QED BY <2>2, <2>3, <2>4, <2>5
<1> QED BY <1>0, <1>1, <1>2 DEF CallsCorrect, CallsTyped

\* A call through an actor's handle ends in one of the ways its caller is told: what was
\* answered was done once, what was refused was not, unless its actor panicked on the way;
\* made-up answers only follow the end of the actor asked; a loop's monitor counts the
\* message in hand; and while anyone waits, some actor or task can go on, or the meeting
\* and a participant that ends await a slot of each other.  For any callers, kinds of
\* messages, calls and size of the mailboxes.
THEOREM CallsSoundProved == Spec => []CallsSound
<1> DEFINE Inv == part = "calls" => CallsInv
<1>1. Init => Inv BY CallsStarts DEF Init
<1>2. Inv /\ [Next]_partVars => Inv'
  <2> SUFFICES ASSUME Inv, [Next]_partVars, part' = "calls" PROVE CallsInv' OBVIOUS
  <2>1. part = "calls" /\ CallsInv BY DEF Next, partVars
  <2>2. [CallsNext]_callsVars BY <2>1 DEF Next, partVars
  <2> QED BY <2>1, <2>2, CallsSteps
<1>3. Inv => CallsSound BY CallsHold DEF CallsSound
<1> QED BY <1>1, <1>2, <1>3, PTL DEF Spec

-----------------------------------------------------------------------------
(* Clusters.  What a write still has to do says how far its cluster is: an  *)
(* image that was built is behind the tag until another helper builds it,   *)
(* it is in the cluster when its load is no longer ahead, and its pods run  *)
(* it or are due when their restarts are no longer ahead.                   *)

\* The steps of the rebuild of a service.
BuildStep(x) ==
    \E s \in Services : \/ x \in {<<"build", s>>, <<"save", s>>, <<"load", s>>}
                        \/ \E p \in Pods(s) : x = <<"restart", s, p[2]>>

PlanStep == {"build", "save", "load", "apply"} \X Services \cup {"restart"} \X Services \X {0, 1}
            \cup {"write"} \X RuntimeFile \cup {<<"create">>, <<"script">>, <<"kubeconfig">>, <<"delete">>, <<"deallocate">>}

\* A command that may outlive its helper.
LeftOver == {x \in PlanStep : x[1] = "restart" => <<x[2], x[3]>> \in AllPods}

Ahead(pl, i, x) == \E j \in 1..Len(pl) : j > i /\ pl[j] = x

\* A plan that builds: each build is followed by its load, each load by the restarts, and
\* with podman a save is directly before each load.
Rebuilding(pl) ==
    /\ \A i \in 1..Len(pl) : BuildStep(pl[i])
    /\ \A i \in 1..Len(pl), s \in Services :
        /\ pl[i] = <<"build", s>> => Ahead(pl, i, <<"load", s>>)
        /\ pl[i] = <<"load", s>> => \A p \in Pods(s) : Ahead(pl, i, <<"restart", s, p[2]>>)
        /\ pl[i] = <<"save", s>> => runtime = "podman" /\ i + 1 \in 1..Len(pl) /\ pl[i + 1] = <<"load", s>>
        /\ (pl[i] = <<"load", s>> /\ i > 1 /\ runtime = "podman") => pl[i - 1] = <<"save", s>>

SetupSteps == <<<<"write", "kind-config">>, <<"write", "ports.json">>, <<"create">>,
                <<"write", "port-map.env">>, <<"script">>, <<"kubeconfig">>>>

Command == {"none", "setup", "rebuild", "rebuild-all", "deploy", "teardown"}
WriteState == [cmd: Command, plan: Seq(PlanStep), built: [Services -> Revisions], foreign: SUBSET Services,
               kept: SUBSET AllPods, spoiled: BOOLEAN]
StatusState == [at: {"idle", "cluster", "pods", "ports"}, busy: BOOLEAN, exists: BOOLEAN, healthy: BOOLEAN,
                ports: BOOLEAN, calm: BOOLEAN]
NodeState == [exists: BOOLEAN, image: [Services -> Revisions], pod: [AllPods -> Revisions], due: SUBSET AllPods]
ClusterTyped ==
    /\ runtime \in {"podman", "docker"}
    /\ sources \in [Devloops -> [Services -> 0..MaxTreeEdits]]
    /\ store \in [Services -> Revisions] /\ tar \in [Devloops -> Revisions \cup {Partial}]
    /\ node \in [Devloops -> NodeState]
    /\ files \in [Devloops -> SUBSET RuntimeFile]
    /\ cancelSet \in [Devloops -> BOOLEAN]
    /\ op \in [Devloops -> WriteState] /\ probe \in [Devloops -> StatusState]
    /\ orphans \in [Devloops -> SUBSET LeftOver]
    /\ DOMAIN result = Devloops /\ \A d \in Devloops : result[d].outcome \in {"none", "ok", "spoiled", "error", "cancelled"}

\* The write in flight, and what is left of it.
Underway(d) ==
    LET pl == op[d].plan  n == Len(op[d].plan) IN
    /\ op[d].cmd = "none" => op[d] = NoWrite
    /\ op[d].cmd \in {"rebuild", "rebuild-all"} => Rebuilding(pl)
    /\ op[d].cmd = "setup" =>
        /\ n <= 6 /\ \A i \in 1..n : pl[i] = SetupSteps[6 - n + i]
        /\ n <= 5 => "kind-config" \in files[d]
        /\ n <= 4 => "ports.json" \in files[d]
        /\ n <= 3 => node[d].exists \/ op[d].spoiled
        /\ n <= 2 => "port-map.env" \in files[d]
        /\ n <= 1 => op[d].spoiled \/ \A p \in AllPods : node[d].pod[p] # NoImage \/ p \in node[d].due
        /\ n = 0 => "kubeconfig" \in files[d]
        /\ n >= 2 => op[d].built = NoneBuilt
    /\ op[d].cmd = "deploy" => op[d].built = NoneBuilt /\ n <= 1 /\ (n = 1 => \E s \in Services : pl[1] = <<"apply", s>>)
    /\ op[d].cmd = "teardown" =>
        /\ op[d].built = NoneBuilt /\ n <= 2
        /\ n = 2 => pl[1] = <<"delete">> /\ pl[2] = <<"deallocate">>
        /\ n = 1 => pl[1] = <<"deallocate">>

\* What the write has built and nobody else has built since.
OwnBuild(d, s) == op[d].built[s] # NoImage /\ s \notin op[d].foreign /\ ~op[d].spoiled
Tagged(d) == \A s \in Services : OwnBuild(d, s) => store[s] = op[d].built[s]

Loading(d) == op[d].plan # <<>> /\ op[d].plan[1][1] = "load"
\* What is about to be loaded was saved by the write itself; what an earlier one has left is
\* gone when the last image is loaded.
ToLoad(d) == \E s \in Services : Ahead(op[d].plan, 0, <<"load", s>>)
HasBuilt(d) == op[d].cmd \in {"rebuild", "rebuild-all"} /\ ~op[d].spoiled /\ \E s \in Services : op[d].built[s] # NoImage
Archive(d) ==
    /\ (Loading(d) /\ runtime = "podman" /\ ~op[d].spoiled) =>
        /\ tar[d] # Partial
        /\ \A s \in Services : op[d].plan[1] = <<"load", s>> /\ OwnBuild(d, s) => tar[d] = op[d].built[s]
    /\ HasBuilt(d) /\ tar[d] # NoImage => ToLoad(d)

Loaded(d) ==
    \A s \in Services : OwnBuild(d, s) /\ ~Ahead(op[d].plan, 0, <<"load", s>>) =>
        /\ node[d].image[s] = op[d].built[s]
        /\ \A p \in Pods(s) : \/ Ahead(op[d].plan, 0, <<"restart", s, p[2]>>)
                              \/ p \in node[d].due \/ node[d].pod[p] = node[d].image[s] \/ p \in op[d].kept

\* The last write has ended with ok, and the next has not begun.
EndedOk(d) ==
    op[d] = NoWrite /\ result[d].outcome = "ok" =>
        /\ \A s \in Services : (result[d].built[s] # NoImage /\ s \notin result[d].foreign) =>
            /\ node[d].image[s] = result[d].built[s]
            /\ \A p \in Pods(s) : p \in node[d].due \/ node[d].pod[p] = node[d].image[s] \/ p \in result[d].kept
        /\ (result[d].cmd \in {"rebuild", "rebuild-all"} /\ \E s \in Services : result[d].built[s] # NoImage) => tar[d] = NoImage
        /\ result[d].cmd = "setup" => /\ node[d].exists /\ files[d] = RuntimeFile
                                      /\ \A p \in AllPods : node[d].pod[p] # NoImage \/ p \in node[d].due

Probed(d) ==
    /\ probe[d].calm /\ ~probe[d].busy => op[d] = NoWrite
    /\ (probe[d].at = "ports" /\ probe[d].calm /\ ~probe[d].busy /\ probe[d].healthy
            /\ result[d].cmd = "setup" /\ result[d].outcome = "ok") =>
        \A p \in AllPods : node[d].pod[p] # NoImage

\* While a command of a helper that has exited lives on, no write is said to be ok.
Strays(d) == orphans[d] # {} => result[d].outcome # "ok" /\ (op[d] # NoWrite => op[d].spoiled)

InStep(d) == Underway(d) /\ Tagged(d) /\ Archive(d) /\ Loaded(d) /\ EndedOk(d) /\ Probed(d) /\ Strays(d)
ClusterInv == ClusterTyped /\ \A d \in Devloops : InStep(d)

LEMMA StepFacts ==
    /\ \A s \in Services : /\ <<"build", s>> \in PlanStep /\ <<"save", s>> \in PlanStep /\ <<"load", s>> \in PlanStep
                           /\ <<"apply", s>> \in PlanStep /\ <<"restart", s, 0>> \in PlanStep /\ <<"restart", s, 1>> \in PlanStep
    /\ \A f \in RuntimeFile : <<"write", f>> \in PlanStep
    /\ <<"create">> \in PlanStep /\ <<"script">> \in PlanStep /\ <<"kubeconfig">> \in PlanStep
    /\ <<"delete">> \in PlanStep /\ <<"deallocate">> \in PlanStep
  BY DEF PlanStep

LEMMA PodFacts ==
    /\ \A s \in Services : \A p \in Pods(s) : p = <<s, p[2]>> /\ p[1] = s /\ p[2] \in {0, 1} /\ p \in AllPods
    /\ \A s \in Services : s \notin {"mc", "mh"} => \A p \in Pods(s) : p[2] = 0
    /\ \A p \in AllPods : p[1] \in Services /\ p \in Pods(p[1]) /\ p = <<p[1], p[2]>>
  BY DEF Pods, AllPods

\* Sequences put together.
LEMMA ConcatFacts ==
    ASSUME NEW S, NEW p \in Seq(S), NEW q \in Seq(S)
    PROVE  /\ p \o q \in Seq(S) /\ Len(p \o q) = Len(p) + Len(q) /\ Len(p) \in Nat /\ Len(q) \in Nat
           /\ \A i \in 1..Len(p) : (p \o q)[i] = p[i]
           /\ \A i \in 1..Len(q) : (p \o q)[Len(p) + i] = q[i]
  OBVIOUS

LEMMA SnocFacts ==
    ASSUME NEW S, NEW p \in Seq(S), NEW a \in S
    PROVE  /\ p \o <<a>> \in Seq(S) /\ Len(p \o <<a>>) = Len(p) + 1 /\ Len(p) \in Nat
           /\ \A i \in 1..Len(p) : (p \o <<a>>)[i] = p[i]
           /\ (p \o <<a>>)[Len(p) + 1] = a
  OBVIOUS

LEMMA NilFacts == ASSUME NEW S, NEW p \in Seq(S) PROVE p \o <<>> = p
  OBVIOUS

\* The steps of a rebuild, written out.
LEMMA RebuildPlan ==
    ASSUME NEW s \in Services, NEW pl, pl = RebuildSteps(s), runtime \in {"podman", "docker"}
    PROVE  /\ pl \in Seq(PlanStep) /\ pl[1] = <<"build", s>>
           /\ runtime = "podman" =>
                /\ pl[2] = <<"save", s>> /\ pl[3] = <<"load", s>> /\ pl[4] = <<"restart", s, 0>>
                /\ s \in {"mc", "mh"} => Len(pl) = 5 /\ pl[5] = <<"restart", s, 1>>
                /\ s \notin {"mc", "mh"} => Len(pl) = 4
           /\ runtime = "docker" =>
                /\ pl[2] = <<"load", s>> /\ pl[3] = <<"restart", s, 0>>
                /\ s \in {"mc", "mh"} => Len(pl) = 4 /\ pl[4] = <<"restart", s, 1>>
                /\ s \notin {"mc", "mh"} => Len(pl) = 3
<1>1. PICK b \in PlanStep, v \in PlanStep, l \in PlanStep, r \in PlanStep, t \in PlanStep :
        b = <<"build", s>> /\ v = <<"save", s>> /\ l = <<"load", s>> /\ r = <<"restart", s, 0>> /\ t = <<"restart", s, 1>>
  BY StepFacts
<1>2. PICK q1 : q1 = <<b>> OBVIOUS
<1>3. q1 \in Seq(PlanStep) /\ Len(q1) = 1 /\ q1[1] = b BY <1>2
<1>4. PICK q2 : q2 = q1 \o (IF runtime = "podman" THEN <<v>> ELSE <<>>) OBVIOUS
<1>5. /\ q2 \in Seq(PlanStep) /\ q2[1] = b
      /\ runtime = "podman" => Len(q2) = 2 /\ q2[2] = v
      /\ runtime = "docker" => Len(q2) = 1
  <2>1. CASE runtime = "podman"
    <3>1. q2 = q1 \o <<v>> BY <2>1, <1>4
    <3>a. q2 \in Seq(PlanStep) /\ Len(q2) = Len(q1) + 1 /\ (\A i \in 1..Len(q1) : q2[i] = q1[i]) /\ q2[Len(q1) + 1] = v
      <4>1. q1 \in Seq(PlanStep) BY <1>3
      <4>2. v \in PlanStep OBVIOUS
      <4> HIDE <1>3
      <4> QED BY <3>1, <4>1, <4>2, SnocFacts
    <3>b. Len(q1) + 1 = 2 /\ 1 \in 1..Len(q1) BY <1>3
    <3>2. q2 \in Seq(PlanStep) /\ Len(q2) = 2 /\ q2[2] = v /\ q2[1] = q1[1] BY <3>a, <3>b
    <3> QED BY <2>1, <3>2, <1>3
  <2>2. CASE runtime = "docker"
    <3>1. q2 = q1 \o <<>> BY <2>2, <1>4
    <3>2. q2 = q1 BY <3>1, <1>3, NilFacts
    <3> QED BY <2>2, <3>2, <1>3
  <2> QED BY <2>1, <2>2
<1>6. PICK q3 : q3 = q2 \o <<l>> OBVIOUS
<1>7. /\ q3 \in Seq(PlanStep) /\ q3[1] = b
      /\ runtime = "podman" => Len(q3) = 3 /\ q3[2] = v /\ q3[3] = l
      /\ runtime = "docker" => Len(q3) = 2 /\ q3[2] = l
  BY <1>5, <1>6, SnocFacts
<1>8. PICK q4 : q4 = q3 \o <<r>> OBVIOUS
<1>9. /\ q4 \in Seq(PlanStep) /\ q4[1] = b
      /\ runtime = "podman" => Len(q4) = 4 /\ q4[2] = v /\ q4[3] = l /\ q4[4] = r
      /\ runtime = "docker" => Len(q4) = 3 /\ q4[2] = l /\ q4[3] = r
  BY <1>7, <1>8, SnocFacts
<1>10. pl = q4 \o (IF s \in {"mc", "mh"} THEN <<t>> ELSE <<>>) BY <1>1, <1>2, <1>4, <1>6, <1>8 DEF RebuildSteps
<1>11. CASE s \in {"mc", "mh"}
  <2>1. pl = q4 \o <<t>> BY <1>10, <1>11
  <2>2. /\ pl \in Seq(PlanStep) /\ Len(pl) = Len(q4) + 1 /\ pl[Len(q4) + 1] = t /\ Len(q4) \in Nat
        /\ \A i \in 1..Len(q4) : pl[i] = q4[i]
    BY <1>9, <2>1, SnocFacts
  <2>3. CASE runtime = "podman"
    <3>a. Len(q4) = 4 BY <1>9, <2>3
    <3>b. Len(q4) + 1 = 5 /\ 1 \in 1..Len(q4) /\ 2 \in 1..Len(q4) /\ 3 \in 1..Len(q4) /\ 4 \in 1..Len(q4) BY <3>a
    <3>1. Len(pl) = 5 /\ pl[5] = t /\ pl[1] = q4[1] /\ pl[2] = q4[2] /\ pl[3] = q4[3] /\ pl[4] = q4[4] BY <2>2, <3>b
    <3>2. pl[1] = b /\ pl[2] = v /\ pl[3] = l /\ pl[4] = r BY <1>9, <2>3, <3>1
    <3> QED BY <1>1, <1>11, <2>2, <2>3, <3>1, <3>2
  <2>4. CASE runtime = "docker"
    <3>a. Len(q4) = 3 BY <1>9, <2>4
    <3>b. Len(q4) + 1 = 4 /\ 1 \in 1..Len(q4) /\ 2 \in 1..Len(q4) /\ 3 \in 1..Len(q4) BY <3>a
    <3>1. Len(pl) = 4 /\ pl[4] = t /\ pl[1] = q4[1] /\ pl[2] = q4[2] /\ pl[3] = q4[3] BY <2>2, <3>b
    <3>2. pl[1] = b /\ pl[2] = l /\ pl[3] = r BY <1>9, <2>4, <3>1
    <3> QED BY <1>1, <1>11, <2>2, <2>4, <3>1, <3>2
  <2> QED BY <2>3, <2>4
<1>12. CASE s \notin {"mc", "mh"}
  <2>1. pl = q4 BY <1>9, <1>10, <1>12, NilFacts
  <2> QED BY <1>1, <1>9, <1>12, <2>1
<1> QED BY <1>11, <1>12

LEMMA StepsDiffer ==
    ASSUME NEW s, NEW t, NEW i, NEW j
    PROVE  /\ <<"build", s>> # <<"save", t>> /\ <<"build", s>> # <<"load", t>> /\ <<"save", s>> # <<"load", t>>
           /\ <<"build", s>> # <<"restart", t, j>> /\ <<"save", s>> # <<"restart", t, j>> /\ <<"load", s>> # <<"restart", t, j>>
           /\ <<"build", s>> = <<"build", t>> => s = t
           /\ <<"save", s>> = <<"save", t>> => s = t
           /\ <<"load", s>> = <<"load", t>> => s = t
           /\ <<"restart", s, i>> = <<"restart", t, j>> => s = t /\ i = j
  OBVIOUS

LEMMA RebuildIsPlan ==
    ASSUME NEW s \in Services, runtime \in {"podman", "docker"}
    PROVE  /\ RebuildSteps(s) \in Seq(PlanStep) /\ Rebuilding(RebuildSteps(s))
           /\ Len(RebuildSteps(s)) > 0 /\ RebuildSteps(s)[1] = <<"build", s>>
<1>1. PICK pl : pl = RebuildSteps(s) OBVIOUS
<1>2. /\ pl \in Seq(PlanStep) /\ pl[1] = <<"build", s>>
      /\ runtime = "podman" =>
           /\ pl[2] = <<"save", s>> /\ pl[3] = <<"load", s>> /\ pl[4] = <<"restart", s, 0>>
           /\ s \in {"mc", "mh"} => Len(pl) = 5 /\ pl[5] = <<"restart", s, 1>>
           /\ s \notin {"mc", "mh"} => Len(pl) = 4
      /\ runtime = "docker" =>
           /\ pl[2] = <<"load", s>> /\ pl[3] = <<"restart", s, 0>>
           /\ s \in {"mc", "mh"} => Len(pl) = 4 /\ pl[4] = <<"restart", s, 1>>
           /\ s \notin {"mc", "mh"} => Len(pl) = 3
  BY <1>1, RebuildPlan
<1> DEFINE b == <<"build", s>>  v == <<"save", s>>  l == <<"load", s>>  r == <<"restart", s, 0>>  t == <<"restart", s, 1>>
<1>3. /\ BuildStep(b) /\ BuildStep(v) /\ BuildStep(l) /\ BuildStep(r) /\ (s \in {"mc", "mh"} => BuildStep(t))
  <2>1. <<s, 0>> \in Pods(s) /\ (s \in {"mc", "mh"} => <<s, 1>> \in Pods(s)) BY DEF Pods
  <2>2. BuildStep(b) /\ BuildStep(v) /\ BuildStep(l) BY DEF BuildStep
  <2>3. <<s, 0>>[2] = 0 /\ <<s, 1>>[2] = 1 OBVIOUS
  <2>4. \A p \in Pods(s) : BuildStep(<<"restart", s, p[2]>>) BY DEF BuildStep
  <2>5. BuildStep(r) BY <2>1, <2>3, <2>4
  <2>6. s \in {"mc", "mh"} => BuildStep(t) BY <2>1, <2>3, <2>4
  <2> QED BY <2>2, <2>5, <2>6
<1>4. \A x \in Services : /\ b = <<"build", x>> => x = s
                          /\ v # <<"build", x>> /\ l # <<"build", x>> /\ r # <<"build", x>> /\ t # <<"build", x>>
                          /\ l = <<"load", x>> => x = s
                          /\ b # <<"load", x>> /\ v # <<"load", x>> /\ r # <<"load", x>> /\ t # <<"load", x>>
                          /\ v = <<"save", x>> => x = s
                          /\ b # <<"save", x>> /\ l # <<"save", x>> /\ r # <<"save", x>> /\ t # <<"save", x>>
  BY StepsDiffer
<1>5. \A p \in Pods(s) : p[2] = 0 \/ (p[2] = 1 /\ s \in {"mc", "mh"}) BY PodFacts
<1>6. ASSUME NEW n \in Nat, NEW lo \in Nat, Len(pl) = n, pl[1] = b, pl[lo] = l, pl[lo + 1] = r, lo \in {2, 3}, lo + 1 <= n, n <= lo + 2,
             lo = 3 <=> runtime = "podman", lo = 3 => pl[2] = v,
             n = lo + 2 <=> s \in {"mc", "mh"}, n = lo + 2 => pl[n] = t
      PROVE  Rebuilding(pl)
  <2>1. ASSUME NEW i \in 1..Len(pl)
        PROVE  \/ i = 1 /\ pl[i] = b
               \/ lo = 3 /\ i = 2 /\ pl[i] = v
               \/ i = lo /\ pl[i] = l
               \/ i = lo + 1 /\ pl[i] = r
               \/ i = lo + 2 /\ n = lo + 2 /\ pl[i] = t
    BY <1>6
  <2> HIDE DEF b, v, l, r, t
  <2>a. n = lo + 2 => s \in {"mc", "mh"} BY <1>6
  <2>2. \A i \in 1..Len(pl) : BuildStep(pl[i]) BY <1>3, <2>1, <2>a
  <2>3. ASSUME NEW i \in 1..Len(pl), NEW x \in Services, pl[i] = <<"build", x>> PROVE Ahead(pl, i, <<"load", x>>)
    <3>1. i = 1 /\ x = s BY <1>4, <2>1, <2>3
    <3>2. lo \in 1..Len(pl) /\ lo > 1 BY <1>6
    <3> QED BY <1>6, <3>1, <3>2 DEF Ahead, l
  <2>4. ASSUME NEW i \in 1..Len(pl), NEW x \in Services, pl[i] = <<"load", x>>, NEW p \in Pods(x)
        PROVE  Ahead(pl, i, <<"restart", x, p[2]>>)
    <3>1. i = lo /\ x = s BY <1>4, <2>1, <2>4
    <3>2. CASE p[2] = 0
      <4>1. lo + 1 \in 1..Len(pl) /\ lo + 1 > lo BY <1>6
      <4> QED BY <1>6, <3>1, <3>2, <4>1 DEF Ahead, r
    <3>3. CASE p[2] = 1 /\ s \in {"mc", "mh"}
      <4>1. n \in 1..Len(pl) /\ n > lo /\ pl[n] = t BY <1>6, <3>3
      <4> QED BY <3>1, <3>3, <4>1 DEF Ahead, t
    <3> QED BY <1>5, <3>1, <3>2, <3>3
  <2>5. ASSUME NEW i \in 1..Len(pl), NEW x \in Services, pl[i] = <<"save", x>>
        PROVE  runtime = "podman" /\ i + 1 \in 1..Len(pl) /\ pl[i + 1] = <<"load", x>>
    <3>1. i = 2 /\ lo = 3 /\ x = s BY <1>4, <2>1, <2>5
    <3> QED BY <1>6, <3>1 DEF l
  <2>6. ASSUME NEW i \in 1..Len(pl), NEW x \in Services, pl[i] = <<"load", x>>, i > 1, runtime = "podman"
        PROVE  pl[i - 1] = <<"save", x>>
    <3>1. i = lo /\ x = s /\ lo = 3 BY <1>4, <1>6, <2>1, <2>6
    <3> QED BY <1>6, <3>1 DEF v
  <2> QED BY <2>2, <2>3, <2>4, <2>5, <2>6 DEF Rebuilding
<1>7. CASE runtime = "podman"
  <2>1. PICK lo \in Nat, n \in Nat : lo = 3 /\ n = Len(pl) BY <1>2
  <2>2. n = 5 \/ n = 4 BY <1>2, <1>7, <2>1
  <2>a. s \in {"mc", "mh"} => n = 5 BY <1>2, <1>7, <2>1
  <2>b. s \notin {"mc", "mh"} => n = 4 BY <1>2, <1>7, <2>1
  <2>3. n = 5 <=> s \in {"mc", "mh"} BY <2>a, <2>b
  <2>4. n = 5 => pl[n] = t BY <1>2, <1>7, <2>1, <2>3
  <2>5. pl[1] = b /\ pl[lo] = l /\ pl[lo + 1] = r /\ pl[2] = v BY <1>2, <1>7, <2>1
  <2> HIDE DEF b, v, l, r, t
  <2>c. Len(pl) = n /\ lo \in {2, 3} /\ lo + 1 <= n /\ n <= lo + 2 /\ (n = lo + 2 <=> n = 5) BY <2>1, <2>2
  <2>d. (lo = 3 <=> runtime = "podman") /\ (lo = 3 => pl[2] = v) BY <2>1, <2>5, <1>7
  <2>e. (n = lo + 2 <=> s \in {"mc", "mh"}) /\ (n = lo + 2 => pl[n] = t) BY <2>c, <2>3, <2>4
  <2>6. Rebuilding(pl) BY <1>6, <2>c, <2>d, <2>e, <2>5
  <2> QED BY <1>1, <1>2, <2>1, <2>2, <2>6
<1>8. CASE runtime = "docker"
  <2>1. PICK lo \in Nat, n \in Nat : lo = 2 /\ n = Len(pl) BY <1>2
  <2>2. n = 4 \/ n = 3 BY <1>2, <1>8, <2>1
  <2>a. s \in {"mc", "mh"} => n = 4 BY <1>2, <1>8, <2>1
  <2>b. s \notin {"mc", "mh"} => n = 3 BY <1>2, <1>8, <2>1
  <2>3. n = 4 <=> s \in {"mc", "mh"} BY <2>a, <2>b
  <2>4. n = 4 => pl[n] = t BY <1>2, <1>8, <2>1, <2>3
  <2>5. pl[1] = b /\ pl[lo] = l /\ pl[lo + 1] = r BY <1>2, <1>8, <2>1
  <2> HIDE DEF b, v, l, r, t
  <2>f. lo = 2 /\ Len(pl) = n BY <2>1
  <2>c. Len(pl) = n /\ lo \in {2, 3} /\ lo + 1 <= n /\ n <= lo + 2 /\ (n = lo + 2 <=> n = 4) BY <2>f, <2>2
  <2>d. (lo = 3 <=> runtime = "podman") /\ (lo = 3 => pl[2] = v) BY <2>1, <2>5, <1>8
  <2>e. (n = lo + 2 <=> s \in {"mc", "mh"}) /\ (n = lo + 2 => pl[n] = t) BY <2>c, <2>3, <2>4
  <2>6. Rebuilding(pl) BY <1>6, <2>c, <2>d, <2>e, <2>5
  <2> QED BY <1>1, <1>2, <2>1, <2>2, <2>6
<1> QED BY <1>7, <1>8

LEMMA NilIsPlan == <<>> \in Seq(PlanStep) /\ Rebuilding(<<>>)
  BY DEF Rebuilding

\* Rebuilds one after the other.
LEMMA ConcatIsPlan ==
    ASSUME NEW p \in Seq(PlanStep), NEW q \in Seq(PlanStep), Rebuilding(p), Rebuilding(q),
           Len(q) > 0 => \E s \in Services : q[1] = <<"build", s>>
    PROVE  p \o q \in Seq(PlanStep) /\ Rebuilding(p \o q)
<1>1. PICK c : c = p \o q OBVIOUS
<1>2. /\ c \in Seq(PlanStep) /\ Len(c) = Len(p) + Len(q) /\ Len(p) \in Nat /\ Len(q) \in Nat
      /\ \A i \in 1..Len(p) : c[i] = p[i]
      /\ \A i \in 1..Len(q) : c[Len(p) + i] = q[i]
  BY <1>1, ConcatFacts
<1>3. ASSUME NEW i \in 1..Len(c)
      PROVE  \/ i \in 1..Len(p) /\ c[i] = p[i]
             \/ i - Len(p) \in 1..Len(q) /\ c[i] = q[i - Len(p)]
  <2>1. CASE i \in 1..Len(p) BY <2>1, <1>2
  <2>2. CASE i \notin 1..Len(p)
    <3>1. i - Len(p) \in 1..Len(q) /\ Len(p) + (i - Len(p)) = i BY <2>2, <1>2
    <3> QED BY <3>1, <1>2
  <2> QED BY <2>1, <2>2
<1>4. ASSUME NEW i \in 1..Len(p), NEW x, Ahead(p, i, x) PROVE Ahead(c, i, x)
  <2>1. PICK j \in 1..Len(p) : j > i /\ p[j] = x BY <1>4 DEF Ahead
  <2>2. j \in 1..Len(c) /\ c[j] = x BY <2>1, <1>2
  <2> QED BY <2>1, <2>2 DEF Ahead
<1>5. ASSUME NEW k \in 1..Len(q), NEW x, Ahead(q, k, x) PROVE Ahead(c, Len(p) + k, x)
  <2>1. PICK j \in 1..Len(q) : j > k /\ q[j] = x BY <1>5 DEF Ahead
  <2>2. Len(p) + j \in 1..Len(c) /\ c[Len(p) + j] = x /\ Len(p) + j > Len(p) + k BY <2>1, <1>2
  <2> QED BY <2>2 DEF Ahead
<1>6. \A i \in 1..Len(c) : BuildStep(c[i]) BY <1>3 DEF Rebuilding
<1>7. ASSUME NEW i \in 1..Len(c), NEW s \in Services PROVE
        /\ c[i] = <<"build", s>> => Ahead(c, i, <<"load", s>>)
        /\ c[i] = <<"load", s>> => \A d \in Pods(s) : Ahead(c, i, <<"restart", s, d[2]>>)
        /\ c[i] = <<"save", s>> => runtime = "podman" /\ i + 1 \in 1..Len(c) /\ c[i + 1] = <<"load", s>>
        /\ (c[i] = <<"load", s>> /\ i > 1 /\ runtime = "podman") => c[i - 1] = <<"save", s>>
  <2>1. CASE i \in 1..Len(p) /\ c[i] = p[i]
    <3>1. /\ p[i] = <<"build", s>> => Ahead(p, i, <<"load", s>>)
          /\ p[i] = <<"load", s>> => \A d \in Pods(s) : Ahead(p, i, <<"restart", s, d[2]>>)
          /\ p[i] = <<"save", s>> => runtime = "podman" /\ i + 1 \in 1..Len(p) /\ p[i + 1] = <<"load", s>>
          /\ (p[i] = <<"load", s>> /\ i > 1 /\ runtime = "podman") => p[i - 1] = <<"save", s>>
      BY <2>1 DEF Rebuilding
    <3>a. i > 1 => i - 1 \in 1..Len(p) BY <2>1, <1>2
    <3>2. i > 1 => i - 1 \in 1..Len(p) /\ c[i - 1] = p[i - 1] BY <3>a, <1>2
    <3>3. i + 1 \in 1..Len(p) => i + 1 \in 1..Len(c) /\ c[i + 1] = p[i + 1] BY <1>2
    <3> QED BY <2>1, <3>1, <3>2, <3>3, <1>4
  <2>2. CASE i - Len(p) \in 1..Len(q) /\ c[i] = q[i - Len(p)]
    <3>0. PICK k \in 1..Len(q) : k = i - Len(p) /\ i = Len(p) + k BY <2>2, <1>2
    <3>1. /\ q[k] = <<"build", s>> => Ahead(q, k, <<"load", s>>)
          /\ q[k] = <<"load", s>> => \A d \in Pods(s) : Ahead(q, k, <<"restart", s, d[2]>>)
          /\ q[k] = <<"save", s>> => runtime = "podman" /\ k + 1 \in 1..Len(q) /\ q[k + 1] = <<"load", s>>
          /\ (q[k] = <<"load", s>> /\ k > 1 /\ runtime = "podman") => q[k - 1] = <<"save", s>>
      BY DEF Rebuilding
    <3>2. q[k] = <<"load", s>> => k > 1
      <4> SUFFICES ASSUME q[k] = <<"load", s>>, k = 1 PROVE FALSE OBVIOUS
      <4>1. PICK t \in Services : q[1] = <<"build", t>> BY <1>2
      <4> QED BY <4>1, StepsDiffer
    <3>a. k > 1 => i - 1 = Len(p) + (k - 1) /\ k - 1 \in 1..Len(q) BY <3>0, <1>2
    <3>3. k > 1 => i - 1 = Len(p) + (k - 1) /\ k - 1 \in 1..Len(q) /\ c[i - 1] = q[k - 1] BY <3>a, <1>2
    <3>4. k + 1 \in 1..Len(q) => i + 1 = Len(p) + (k + 1) /\ i + 1 \in 1..Len(c) /\ c[i + 1] = q[k + 1] BY <3>0, <1>2
    <3>5. c[i] = q[k] BY <2>2, <3>0
    <3> QED BY <3>0, <3>1, <3>2, <3>3, <3>4, <3>5, <1>5
  <2> QED BY <2>1, <2>2, <1>3
<1>8. Rebuilding(c) BY <1>6, <1>7 DEF Rebuilding
<1> QED BY <1>1, <1>2, <1>8

LEMMA RebuildAllIsPlan ==
    ASSUME runtime \in {"podman", "docker"}
    PROVE  /\ RebuildAllSteps \in Seq(PlanStep) /\ Rebuilding(RebuildAllSteps)
           /\ Len(RebuildAllSteps) > 0 => \E s \in Services : RebuildAllSteps[1] = <<"build", s>>
<1> DEFINE Nth(i) == IF ServiceOrder[i] \in Services THEN RebuildSteps(ServiceOrder[i]) ELSE <<>>
           First(pl) == Len(pl) > 0 => \E s \in Services : pl[1] = <<"build", s>>
<1>1. ASSUME NEW i PROVE Nth(i) \in Seq(PlanStep) /\ Rebuilding(Nth(i)) /\ First(Nth(i))
  <2>1. CASE ServiceOrder[i] \in Services
    <3>1. Nth(i) = RebuildSteps(ServiceOrder[i]) BY <2>1
    <3>2. PICK s \in Services : s = ServiceOrder[i] BY <2>1
    <3>3. RebuildSteps(s) \in Seq(PlanStep) /\ Rebuilding(RebuildSteps(s)) /\ RebuildSteps(s)[1] = <<"build", s>>
      BY RebuildIsPlan
    <3> HIDE DEF Nth
    <3> QED BY <3>1, <3>2, <3>3
  <2>2. CASE ServiceOrder[i] \notin Services
    <3>1. Nth(i) = <<>> BY <2>2
    <3> HIDE DEF Nth
    <3> QED BY <3>1, NilIsPlan
  <2> QED BY <2>1, <2>2
<1> HIDE DEF Nth
<1>2. ASSUME NEW p \in Seq(PlanStep), NEW q \in Seq(PlanStep), Rebuilding(p), Rebuilding(q), First(p), First(q)
      PROVE  p \o q \in Seq(PlanStep) /\ Rebuilding(p \o q) /\ First(p \o q)
  <2>1. p \o q \in Seq(PlanStep) /\ Rebuilding(p \o q) BY <1>2, ConcatIsPlan
  <2>2. PICK c : c = p \o q OBVIOUS
  <2>3. /\ Len(c) = Len(p) + Len(q) /\ Len(p) \in Nat /\ Len(q) \in Nat
        /\ \A i \in 1..Len(p) : c[i] = p[i]
        /\ \A i \in 1..Len(q) : c[Len(p) + i] = q[i]
    BY <2>2, ConcatFacts
  <2>4. CASE Len(p) > 0
    <3>1. 1 \in 1..Len(p) BY <2>4, <2>3
    <3>2. c[1] = p[1] BY <3>1, <2>3
    <3> QED BY <3>2, <2>4, <1>2, <2>1, <2>2
  <2>5. CASE Len(p) = 0
    <3>1. Len(c) = Len(q) /\ (Len(q) > 0 => 1 \in 1..Len(q) /\ Len(p) + 1 = 1) BY <2>5, <2>3
    <3>2. Len(c) > 0 => c[1] = q[1] BY <3>1, <2>3
    <3> QED BY <3>1, <3>2, <1>2, <2>1, <2>2
  <2> QED BY <2>3, <2>4, <2>5
<1>3. PICK q2 : q2 = Nth(1) \o Nth(2) OBVIOUS
<1>4. q2 \in Seq(PlanStep) /\ Rebuilding(q2) /\ First(q2) BY <1>1, <1>2, <1>3
<1>5. PICK q3 : q3 = q2 \o Nth(3) OBVIOUS
<1>6. q3 \in Seq(PlanStep) /\ Rebuilding(q3) /\ First(q3) BY <1>1, <1>2, <1>4, <1>5
<1>7. PICK q4 : q4 = q3 \o Nth(4) OBVIOUS
<1>8. q4 \in Seq(PlanStep) /\ Rebuilding(q4) /\ First(q4) BY <1>1, <1>2, <1>6, <1>7
<1>9. RebuildAllSteps = q4 BY <1>3, <1>5, <1>7 DEF RebuildAllSteps, Nth
<1> QED BY <1>8, <1>9

\* A plan and what is left of it after a step.
LEMMA TailFacts ==
    ASSUME NEW S, NEW pl \in Seq(S), pl # <<>>
    PROVE  /\ Tail(pl) \in Seq(S) /\ Len(Tail(pl)) = Len(pl) - 1 /\ Len(pl) \in Nat /\ Len(pl) > 0
           /\ \A i \in 1..Len(Tail(pl)) : i + 1 \in 1..Len(pl) /\ Tail(pl)[i] = pl[i + 1]
  OBVIOUS

LEMMA TailAhead ==
    ASSUME NEW S, NEW pl \in Seq(S), pl # <<>>
    PROVE  /\ \A x : Ahead(pl, 0, x) <=> (pl[1] = x \/ Ahead(Tail(pl), 0, x))
           /\ \A x : Ahead(pl, 1, x) <=> Ahead(Tail(pl), 0, x)
           /\ \A x : \A i \in Nat : Ahead(pl, i + 1, x) <=> Ahead(Tail(pl), i, x)
<1>1. PICK tl : tl = Tail(pl) OBVIOUS
<1>2. /\ Len(tl) = Len(pl) - 1 /\ Len(pl) \in Nat /\ Len(pl) > 0
      /\ \A i \in 1..Len(tl) : i + 1 \in 1..Len(pl) /\ tl[i] = pl[i + 1]
  BY <1>1, TailFacts
<1>3. ASSUME NEW x, NEW i \in Nat PROVE Ahead(pl, i + 1, x) <=> Ahead(tl, i, x)
  <2>1. ASSUME Ahead(pl, i + 1, x) PROVE Ahead(tl, i, x)
    <3>1. PICK j \in 1..Len(pl) : j > i + 1 /\ pl[j] = x BY <2>1 DEF Ahead
    <3>2. j - 1 \in 1..Len(tl) /\ j - 1 > i /\ (j - 1) + 1 = j BY <3>1, <1>2
    <3>3. tl[j - 1] = x BY <3>1, <3>2, <1>2
    <3> QED BY <3>2, <3>3 DEF Ahead
  <2>2. ASSUME Ahead(tl, i, x) PROVE Ahead(pl, i + 1, x)
    <3>1. PICK j \in 1..Len(tl) : j > i /\ tl[j] = x BY <2>2 DEF Ahead
    <3>2. j + 1 \in 1..Len(pl) /\ j + 1 > i + 1 /\ pl[j + 1] = x BY <3>1, <1>2
    <3> QED BY <3>2 DEF Ahead
  <2> QED BY <2>1, <2>2
<1>4. ASSUME NEW x PROVE Ahead(pl, 0, x) <=> (pl[1] = x \/ Ahead(pl, 1, x))
  <2>1. \A j \in 1..Len(pl) : j > 0 <=> (j = 1 \/ j > 1) OBVIOUS
  <2>2. 1 \in 1..Len(pl) BY <1>2
  <2> QED BY <2>1, <2>2 DEF Ahead
<1>5. \A x : Ahead(pl, 1, x) <=> Ahead(tl, 0, x)
  <2> TAKE x
  <2>1. 0 \in Nat /\ 0 + 1 = 1 OBVIOUS
  <2> QED BY <2>1, <1>3
<1> QED BY <1>1, <1>3, <1>4, <1>5

LEMMA TailRebuilds ==
    ASSUME NEW pl \in Seq(PlanStep), pl # <<>>, Rebuilding(pl)
    PROVE  /\ Rebuilding(Tail(pl)) /\ BuildStep(pl[1])
           /\ \A s \in Services :
                /\ pl[1] = <<"build", s>> => Ahead(Tail(pl), 0, <<"load", s>>)
                /\ pl[1] = <<"load", s>> => \A p \in Pods(s) : Ahead(Tail(pl), 0, <<"restart", s, p[2]>>)
                /\ pl[1] = <<"save", s>> => runtime = "podman" /\ Tail(pl) # <<>> /\ Tail(pl)[1] = <<"load", s>>
                /\ (Tail(pl) # <<>> /\ Tail(pl)[1] = <<"load", s>> /\ runtime = "podman") => pl[1] = <<"save", s>>
<1>1. PICK tl : tl = Tail(pl) OBVIOUS
<1>2. /\ Len(tl) = Len(pl) - 1 /\ Len(pl) \in Nat /\ Len(pl) > 0 /\ tl \in Seq(PlanStep)
      /\ \A i \in 1..Len(tl) : i + 1 \in 1..Len(pl) /\ tl[i] = pl[i + 1]
  BY <1>1, TailFacts
<1>3. \A x : \A i \in Nat : Ahead(pl, i + 1, x) <=> Ahead(tl, i, x) BY <1>1, TailAhead
<1>4. \A x : Ahead(pl, 1, x) <=> Ahead(tl, 0, x) BY <1>1, TailAhead
<1>5. \A i \in 1..Len(tl) : BuildStep(tl[i]) BY <1>2 DEF Rebuilding
<1>6. ASSUME NEW i \in 1..Len(tl), NEW s \in Services PROVE
        /\ tl[i] = <<"build", s>> => Ahead(tl, i, <<"load", s>>)
        /\ tl[i] = <<"load", s>> => \A p \in Pods(s) : Ahead(tl, i, <<"restart", s, p[2]>>)
        /\ tl[i] = <<"save", s>> => runtime = "podman" /\ i + 1 \in 1..Len(tl) /\ tl[i + 1] = <<"load", s>>
        /\ (tl[i] = <<"load", s>> /\ i > 1 /\ runtime = "podman") => tl[i - 1] = <<"save", s>>
  <2>1. PICK k \in 1..Len(pl) : k = i + 1 /\ tl[i] = pl[k] /\ k > 1 /\ i \in Nat BY <1>2
  <2>2. /\ pl[k] = <<"build", s>> => Ahead(pl, k, <<"load", s>>)
        /\ pl[k] = <<"load", s>> => \A p \in Pods(s) : Ahead(pl, k, <<"restart", s, p[2]>>)
        /\ pl[k] = <<"save", s>> => runtime = "podman" /\ k + 1 \in 1..Len(pl) /\ pl[k + 1] = <<"load", s>>
        /\ (pl[k] = <<"load", s>> /\ k > 1 /\ runtime = "podman") => pl[k - 1] = <<"save", s>>
    BY DEF Rebuilding
  <2>3. \A x : Ahead(pl, k, x) <=> Ahead(tl, i, x) BY <1>3, <2>1
  <2>4. k + 1 \in 1..Len(pl) => i + 1 \in 1..Len(tl) /\ (i + 1) + 1 = k + 1 BY <1>2, <2>1
  <2>5. k + 1 \in 1..Len(pl) => tl[i + 1] = pl[k + 1] BY <1>2, <2>4
  <2>6. i > 1 => i - 1 \in 1..Len(tl) /\ (i - 1) + 1 = k - 1 BY <1>2, <2>1
  <2>7. i > 1 => tl[i - 1] = pl[k - 1] BY <1>2, <2>6
  <2> QED BY <2>1, <2>2, <2>3, <2>4, <2>5, <2>7
<1>7. Rebuilding(tl) BY <1>5, <1>6 DEF Rebuilding
<1>8. ASSUME NEW s \in Services PROVE
        /\ pl[1] = <<"build", s>> => Ahead(tl, 0, <<"load", s>>)
        /\ pl[1] = <<"load", s>> => \A p \in Pods(s) : Ahead(tl, 0, <<"restart", s, p[2]>>)
        /\ pl[1] = <<"save", s>> => runtime = "podman" /\ tl # <<>> /\ tl[1] = <<"load", s>>
        /\ (tl # <<>> /\ tl[1] = <<"load", s>> /\ runtime = "podman") => pl[1] = <<"save", s>>
  <2>1. 1 \in 1..Len(pl) BY <1>2
  <2>2. /\ pl[1] = <<"build", s>> => Ahead(pl, 1, <<"load", s>>)
        /\ pl[1] = <<"load", s>> => \A p \in Pods(s) : Ahead(pl, 1, <<"restart", s, p[2]>>)
        /\ pl[1] = <<"save", s>> => runtime = "podman" /\ 1 + 1 \in 1..Len(pl) /\ pl[1 + 1] = <<"load", s>>
    BY <2>1 DEF Rebuilding
  <2>3. 1 + 1 \in 1..Len(pl) => 1 \in 1..Len(tl) /\ tl # <<>> BY <1>2
  <2>4. 1 + 1 \in 1..Len(pl) => tl[1] = pl[1 + 1] BY <1>2, <2>3
  <2>5. ASSUME tl # <<>>, tl[1] = <<"load", s>>, runtime = "podman" PROVE pl[1] = <<"save", s>>
    <3>1. Len(tl) > 0 BY <2>5, <1>2
    <3>2. 1 \in 1..Len(tl) /\ 1 + 1 = 2 /\ 2 > 1 /\ 2 - 1 = 1 BY <3>1, <1>2
    <3>3. 2 \in 1..Len(pl) /\ pl[2] = <<"load", s>> BY <3>2, <1>2, <2>5
    <3>4. pl[2 - 1] = <<"save", s>> BY <3>2, <3>3, <2>5 DEF Rebuilding
    <3> QED BY <3>2, <3>4
  <2> QED BY <2>2, <2>3, <2>4, <2>5, <1>4
<1>9. BuildStep(pl[1])
  <2>1. 1 \in 1..Len(pl) BY <1>2
  <2> QED BY <2>1 DEF Rebuilding
<1> QED BY <1>1, <1>7, <1>8, <1>9

LEMMA StillRebuilding == ASSUME NEW pl, runtime' = runtime, Rebuilding(pl) PROVE Rebuilding(pl)'
  BY DEF Rebuilding

\* What the step of a helper leaves of another's.
LEMMA Beside ==
    ASSUME NEW e \in Devloops, ClusterTyped, Underway(e), Tagged(e), Archive(e), Loaded(e), EndedOk(e), Probed(e), Strays(e),
           op'[e].kept = op[e].kept, op'[e].spoiled = op[e].spoiled, orphans'[e] = orphans[e],
           runtime' = runtime, node'[e] = node[e], files'[e] = files[e], tar'[e] = tar[e], result'[e] = result[e],
           probe'[e] = probe[e], op'[e].cmd = op[e].cmd, op'[e].plan = op[e].plan, op'[e].built = op[e].built,
           op[e].foreign \subseteq op'[e].foreign, op'[e] = NoWrite <=> op[e] = NoWrite,
           \A s \in Services : op[e].built[s] # NoImage /\ s \notin op'[e].foreign => store'[s] = store[s]
    PROVE  Underway(e)' /\ Tagged(e)' /\ Archive(e)' /\ Loaded(e)' /\ EndedOk(e)' /\ Probed(e)' /\ Strays(e)'
<1>1. Underway(e)'
  <2>1. PICK b : b = op[e].plan OBVIOUS
  <2>2. op[e].cmd \in {"rebuild", "rebuild-all"} => Rebuilding(b)' BY <2>1, StillRebuilding DEF Underway
  <2>3. op'[e].plan = b BY <2>1
  <2>4. op'[e].cmd \in {"rebuild", "rebuild-all"} => Rebuilding(op[e].plan)' BY <2>2, <2>3
  <2>5. NoWrite' = NoWrite /\ NoneBuilt' = NoneBuilt BY DEF NoWrite, NoneBuilt
  <2> QED BY <2>4, <2>5 DEF Underway
<1>2. \A s \in Services : OwnBuild(e, s)' => OwnBuild(e, s) /\ op'[e].built[s] = op[e].built[s] /\ store'[s] = store[s] BY DEF OwnBuild
<1>3. Tagged(e)' BY <1>2 DEF Tagged
<1>4. Archive(e)'
  <2>1. \A x : Ahead(op[e].plan, 0, x)' <=> Ahead(op[e].plan, 0, x) BY DEF Ahead
  <2>2. ToLoad(e) => ToLoad(e)' BY <2>1 DEF ToLoad
  <2>3. HasBuilt(e)' => HasBuilt(e) BY DEF HasBuilt
  <2> QED BY <1>2, <2>2, <2>3 DEF Archive, Loading
<1>5. Loaded(e)'
  <2>1. \A x : Ahead(op[e].plan, 0, x)' <=> Ahead(op[e].plan, 0, x) BY DEF Ahead
  <2> SUFFICES ASSUME NEW s \in Services, OwnBuild(e, s)', ~Ahead(op[e].plan, 0, <<"load", s>>)'
               PROVE  /\ node'[e].image[s] = op'[e].built[s]
                      /\ \A p \in Pods(s) : \/ Ahead(op[e].plan, 0, <<"restart", s, p[2]>>)'
                                            \/ p \in node'[e].due \/ node'[e].pod[p] = node'[e].image[s] \/ p \in op'[e].kept
    BY DEF Loaded
  <2>2. OwnBuild(e, s) /\ ~Ahead(op[e].plan, 0, <<"load", s>>) BY <1>2, <2>1
  <2>3. /\ node[e].image[s] = op[e].built[s]
        /\ \A p \in Pods(s) : \/ Ahead(op[e].plan, 0, <<"restart", s, p[2]>>)
                              \/ p \in node[e].due \/ node[e].pod[p] = node[e].image[s] \/ p \in op[e].kept
    BY <2>2 DEF Loaded
  <2> QED BY <2>1, <2>3, <1>2
<1>6. EndedOk(e)' BY DEF EndedOk
<1>7. Probed(e)' BY DEF Probed
<1>8. Strays(e)' BY DEF Strays
<1> QED BY <1>1, <1>3, <1>4, <1>5, <1>6, <1>7, <1>8

\* While a write is under way, there is nothing to say about the last one.
LEMMA NotEnded ==
    ASSUME NEW d \in Devloops, op[d] # NoWrite, Probed(d), Strays(d), op'[d] # NoWrite, probe'[d] = probe[d],
           orphans'[d] = orphans[d], result'[d] = result[d], op'[d].spoiled = op[d].spoiled
    PROVE  EndedOk(d)' /\ Probed(d)' /\ Strays(d)'
  BY DEF EndedOk, Probed, Strays

LEMMA NotPartial == Partial \notin Revisions /\ Partial # NoImage
  BY DEF Partial, Revisions, NoImage

LEMMA NoWriteFacts ==
    /\ NoWrite \in WriteState /\ NoWrite.cmd = "none" /\ NoWrite.plan = <<>> /\ NoWrite.built = NoneBuilt
    /\ NoWrite.foreign = {} /\ NoWrite.kept = {} /\ NoWrite.spoiled = FALSE
    /\ \A s \in Services : NoneBuilt[s] = NoImage
    /\ NoneBuilt \in [Services -> Revisions]
  BY DEF NoWrite, WriteState, Command, NoneBuilt, Revisions

\* The write a step belongs to.
LEMMA NextOfPlan ==
    ASSUME ClusterTyped, NEW d \in Devloops, Underway(d), op[d].plan # <<>>
    PROVE  /\ op[d] # NoWrite /\ op[d].cmd # "none" /\ Len(op[d].plan) > 0
           /\ \/ op[d].cmd \in {"rebuild", "rebuild-all"} /\ BuildStep(op[d].plan[1])
              \/ op[d].cmd = "setup" /\ \E k \in 1..6 : Len(op[d].plan) = 7 - k /\ op[d].plan[1] = SetupSteps[k]
              \/ op[d].cmd = "deploy" /\ \E s \in Services : op[d].plan[1] = <<"apply", s>>
              \/ op[d].cmd = "teardown" /\ Len(op[d].plan) = 2 /\ op[d].plan[1] = <<"delete">>
              \/ op[d].cmd = "teardown" /\ Len(op[d].plan) = 1 /\ op[d].plan[1] = <<"deallocate">>
<1>1. op[d] # NoWrite /\ op[d].cmd # "none" BY NoWriteFacts DEF Underway
<1>2. op[d] \in WriteState BY DEF ClusterTyped
<1>3. PICK pl \in Seq(PlanStep), n \in Nat : pl = op[d].plan /\ n = Len(pl) BY <1>2 DEF WriteState
<1>4. n > 0 /\ 1 \in 1..n BY <1>3
<1>5. op[d].cmd \in {"rebuild", "rebuild-all"} => BuildStep(pl[1]) BY <1>3, TailRebuilds DEF Underway
<1>6. ASSUME op[d].cmd = "setup" PROVE \E k \in 1..6 : n = 7 - k /\ pl[1] = SetupSteps[k]
  <2>1. n <= 6 /\ \A i \in 1..n : pl[i] = SetupSteps[6 - n + i] BY <1>3, <1>6 DEF Underway
  <2>2. pl[1] = SetupSteps[6 - n + 1] /\ 6 - n + 1 = 7 - n /\ 7 - n \in 1..6 /\ n = 7 - (7 - n) BY <2>1, <1>4
  <2> QED BY <2>2
<1>7. op[d].cmd = "deploy" => \E s \in Services : pl[1] = <<"apply", s>>
  <2> SUFFICES ASSUME op[d].cmd = "deploy" PROVE \E s \in Services : pl[1] = <<"apply", s>> OBVIOUS
  <2>1. n <= 1 /\ (n = 1 => \E s \in Services : pl[1] = <<"apply", s>>) BY <1>3 DEF Underway
  <2>2. n = 1 BY <2>1, <1>4
  <2> QED BY <2>1, <2>2
<1>8. op[d].cmd = "teardown" => (n = 2 /\ pl[1] = <<"delete">>) \/ (n = 1 /\ pl[1] = <<"deallocate">>)
  <2> SUFFICES ASSUME op[d].cmd = "teardown" PROVE (n = 2 /\ pl[1] = <<"delete">>) \/ (n = 1 /\ pl[1] = <<"deallocate">>) OBVIOUS
  <2>1. n <= 2 /\ (n = 2 => pl[1] = <<"delete">>) /\ (n = 1 => pl[1] = <<"deallocate">>) BY <1>3 DEF Underway
  <2> QED BY <2>1, <1>4
<1>9. op[d].cmd \in Command BY <1>2 DEF WriteState
<1> QED BY <1>1, <1>3, <1>4, <1>5, <1>6, <1>7, <1>8, <1>9 DEF Command

LEMMA OthersKept ==
    ASSUME ClusterInv, NEW d \in Devloops, runtime' = runtime, store' = store,
           \A e \in Devloops \ {d} : /\ node'[e] = node[e] /\ files'[e] = files[e] /\ tar'[e] = tar[e]
                                     /\ result'[e] = result[e] /\ probe'[e] = probe[e] /\ op'[e] = op[e]
                                     /\ orphans'[e] = orphans[e]
    PROVE  \A e \in Devloops \ {d} : InStep(e)'
<1> SUFFICES ASSUME NEW e \in Devloops, e # d PROVE InStep(e)' OBVIOUS
<1>1. ClusterTyped /\ Underway(e) /\ Tagged(e) /\ Archive(e) /\ Loaded(e) /\ EndedOk(e) /\ Probed(e) /\ Strays(e) BY DEF ClusterInv, InStep
<1>2. Underway(e)' /\ Tagged(e)' /\ Archive(e)' /\ Loaded(e)' /\ EndedOk(e)' /\ Probed(e)' /\ Strays(e)' BY <1>1, Beside
<1> QED BY <1>2 DEF InStep

LEMMA NextStepFacts ==
    ASSUME ClusterTyped, NEW d \in Devloops, op[d].plan # <<>>, NextStep(d)
    PROVE  /\ op' \in [Devloops -> WriteState] /\ \A e \in Devloops \ {d} : op'[e] = op[e]
           /\ op'[d].cmd = op[d].cmd /\ op'[d].built = op[d].built /\ op'[d].foreign = op[d].foreign
           /\ op'[d].plan = Tail(op[d].plan) /\ (op[d].cmd # "none" => op'[d] # NoWrite)
           /\ op'[d].kept = op[d].kept /\ op'[d].spoiled = op[d].spoiled
<1>1. op[d] \in WriteState /\ op \in [Devloops -> WriteState] BY DEF ClusterTyped
<1>2. op[d].plan \in Seq(PlanStep) BY <1>1 DEF WriteState
<1>3. Tail(op[d].plan) \in Seq(PlanStep) BY <1>2, TailFacts
<1>4. [op[d] EXCEPT !.plan = Tail(op[d].plan)] \in WriteState BY <1>1, <1>3 DEF WriteState
<1>5. op' = [op EXCEPT ![d] = [op[d] EXCEPT !.plan = Tail(op[d].plan)]] BY DEF NextStep
<1>6. op'[d] = [op[d] EXCEPT !.plan = Tail(op[d].plan)] BY <1>1, <1>5
<1>7. /\ op'[d].cmd = op[d].cmd /\ op'[d].built = op[d].built /\ op'[d].foreign = op[d].foreign
      /\ op'[d].plan = Tail(op[d].plan) /\ op'[d].kept = op[d].kept /\ op'[d].spoiled = op[d].spoiled
  BY <1>1, <1>6 DEF WriteState
<1>8. op' \in [Devloops -> WriteState] /\ \A e \in Devloops \ {d} : op'[e] = op[e] BY <1>1, <1>4, <1>5
<1> QED BY <1>7, <1>8, NoWriteFacts

\* The rest of a rebuild, after a step that is not a build.
LEMMA RebuildGoesOn ==
    ASSUME ClusterTyped, NEW d \in Devloops, Underway(d), op[d].plan # <<>>, op[d].cmd \in {"rebuild", "rebuild-all"},
           runtime' = runtime, op'[d].cmd = op[d].cmd, op'[d].plan = Tail(op[d].plan)
    PROVE  Underway(d)'
<1>1. op[d].plan \in Seq(PlanStep) BY DEF ClusterTyped, WriteState
<1>2. Rebuilding(Tail(op[d].plan)) BY <1>1, TailRebuilds DEF Underway
<1>3. PICK b : b = Tail(op[d].plan) OBVIOUS
<1>4. Rebuilding(b)' BY <1>2, <1>3, StillRebuilding
<1>5. Rebuilding(op[d].plan)'
  <2>1. op'[d].plan = b BY <1>3
  <2> QED BY <1>4, <2>1
<1> QED BY <1>5 DEF Underway

\* What is ahead before and after a step.
LEMMA AheadAfter ==
    ASSUME ClusterTyped, NEW d \in Devloops, op[d].plan # <<>>, op'[d].plan = Tail(op[d].plan)
    PROVE  \A x : Ahead(op[d].plan, 0, x) <=> (op[d].plan[1] = x \/ Ahead(op[d].plan, 0, x)')
<1>1. op[d].plan \in Seq(PlanStep) BY DEF ClusterTyped, WriteState
<1>2. \A x : Ahead(op[d].plan, 0, x) <=> (op[d].plan[1] = x \/ Ahead(Tail(op[d].plan), 0, x)) BY <1>1, TailAhead
<1>3. \A x : Ahead(op[d].plan, 0, x)' <=> Ahead(Tail(op[d].plan), 0, x) BY DEF Ahead
<1> QED BY <1>2, <1>3

\* Nothing is read from the archive after a step other than a save.
LEMMA NotLoadingNext ==
    ASSUME ClusterTyped, NEW d \in Devloops, Underway(d), op[d].plan # <<>>, op[d].cmd \in {"rebuild", "rebuild-all"},
           \A s \in Services : op[d].plan[1] # <<"save", s>>, op'[d].plan = Tail(op[d].plan), runtime' = runtime
    PROVE  Loading(d)' => runtime # "podman"
<1> SUFFICES ASSUME Loading(d)', runtime = "podman" PROVE FALSE OBVIOUS
<1>0. PICK pl \in Seq(PlanStep) : pl = op[d].plan BY DEF ClusterTyped, WriteState
<1>1. PICK tl : pl = op[d].plan /\ tl = Tail(pl) BY <1>0
<1>2. Rebuilding(pl) /\ Rebuilding(tl) BY <1>1, TailRebuilds DEF Underway
<1>3. tl \in Seq(PlanStep) /\ tl # <<>> /\ tl[1][1] = "load" BY <1>1, TailFacts DEF Loading
<1>4. BuildStep(tl[1]) BY <1>2, <1>3, TailRebuilds
<1>5. PICK s \in Services : tl[1] = <<"load", s>> BY <1>3, <1>4 DEF BuildStep
<1> QED BY <1>1, <1>2, <1>3, <1>5, TailRebuilds

BesideWrites == UNCHANGED <<runtime, sources, orphans, cancelSet, result, writes, probe, focus>>

\* A step on a cluster of one's own; other helpers notice nothing.
LEMMA OwnStep ==
    ASSUME ClusterInv, NEW d \in Devloops, op[d].plan # <<>>, NextStep(d), BesideWrites, store' = store,
           node' \in [Devloops -> NodeState], files' \in [Devloops -> SUBSET RuntimeFile],
           tar' \in [Devloops -> Revisions \cup {Partial}],
           \A e \in Devloops \ {d} : node'[e] = node[e] /\ files'[e] = files[e] /\ tar'[e] = tar[e],
           Underway(d)', Tagged(d)', Archive(d)', Loaded(d)'
    PROVE  ClusterInv'
<1>1. ClusterTyped /\ Underway(d) /\ Probed(d) /\ Strays(d) BY DEF ClusterInv, InStep
<1>2. op[d] # NoWrite /\ op[d].cmd # "none" BY <1>1, NextOfPlan
<1>3. op' \in [Devloops -> WriteState] /\ (\A e \in Devloops \ {d} : op'[e] = op[e]) /\ op'[d] # NoWrite
      /\ op'[d].spoiled = op[d].spoiled
  BY <1>1, <1>2, NextStepFacts
<1>4. ClusterTyped' BY <1>1, <1>3 DEF ClusterTyped, BesideWrites
<1>5. \A e \in Devloops \ {d} : InStep(e)' BY <1>3, OthersKept DEF BesideWrites
<1>6. EndedOk(d)' /\ Probed(d)' /\ Strays(d)' BY <1>1, <1>2, <1>3, NotEnded DEF BesideWrites
<1>7. InStep(d)' BY <1>6 DEF InStep
<1> QED BY <1>4, <1>5, <1>7 DEF ClusterInv

LEMMA TaggedAfter ==
    ASSUME ClusterTyped, NEW d \in Devloops, op[d].plan # <<>>, NextStep(d), store' = store, Tagged(d)
    PROVE  Tagged(d)' /\ \A s \in Services : OwnBuild(d, s)' <=> OwnBuild(d, s)
<1>1. op'[d].built = op[d].built /\ op'[d].foreign = op[d].foreign /\ op'[d].spoiled = op[d].spoiled BY NextStepFacts
<1> QED BY <1>1 DEF Tagged, OwnBuild

\* A step that loads nothing leaves the images as they are, and a restart makes its pod due.
LEMMA LoadedAfter ==
    ASSUME ClusterTyped, NEW d \in Devloops, op[d].plan # <<>>, op'[d].plan = Tail(op[d].plan), op'[d].built = op[d].built,
           op'[d].kept = op[d].kept, Loaded(d), \A t \in Services : OwnBuild(d, t)' => OwnBuild(d, t),
           node'[d].image = node[d].image, node'[d].pod = node[d].pod, node[d].due \subseteq node'[d].due,
           \A t \in Services : op[d].plan[1] # <<"load", t>>,
           \A t \in Services : \A p \in Pods(t) : op[d].plan[1] = <<"restart", t, p[2]>> => p \in node'[d].due
    PROVE  Loaded(d)'
<1>1. \A x : Ahead(op[d].plan, 0, x) <=> (op[d].plan[1] = x \/ Ahead(op[d].plan, 0, x)') BY AheadAfter
<1> SUFFICES ASSUME NEW t \in Services, OwnBuild(d, t)', ~Ahead(op[d].plan, 0, <<"load", t>>)'
             PROVE  /\ node'[d].image[t] = op'[d].built[t]
                    /\ \A p \in Pods(t) : \/ Ahead(op[d].plan, 0, <<"restart", t, p[2]>>)'
                                          \/ p \in node'[d].due \/ node'[d].pod[p] = node'[d].image[t] \/ p \in op'[d].kept
  BY DEF Loaded
<1>2. OwnBuild(d, t) /\ ~Ahead(op[d].plan, 0, <<"load", t>>) BY <1>1
<1>3. /\ node[d].image[t] = op[d].built[t]
      /\ \A p \in Pods(t) : \/ Ahead(op[d].plan, 0, <<"restart", t, p[2]>>)
                            \/ p \in node[d].due \/ node[d].pod[p] = node[d].image[t] \/ p \in op[d].kept
  BY <1>2 DEF Loaded
<1> QED BY <1>1, <1>3

\* A step of a rebuild that is neither a save nor a load leaves the archive as it is.
LEMMA ArchiveAfter ==
    ASSUME ClusterTyped, NEW d \in Devloops, Underway(d), op[d].plan # <<>>, op[d].cmd \in {"rebuild", "rebuild-all"},
           \A t \in Services : op[d].plan[1] # <<"save", t>> /\ op[d].plan[1] # <<"load", t>>,
           op'[d].plan = Tail(op[d].plan), op'[d].cmd = op[d].cmd, op'[d].built = op[d].built, op'[d].spoiled = op[d].spoiled,
           runtime' = runtime, tar'[d] = tar[d], Archive(d)
    PROVE  Archive(d)'
<1>1. Loading(d)' => runtime # "podman" BY NotLoadingNext
<1>2. \A x : Ahead(op[d].plan, 0, x) <=> (op[d].plan[1] = x \/ Ahead(op[d].plan, 0, x)') BY AheadAfter
<1>3. ToLoad(d) => ToLoad(d)' BY <1>2 DEF ToLoad
<1>4. HasBuilt(d)' => HasBuilt(d) BY DEF HasBuilt
<1> QED BY <1>1, <1>3, <1>4 DEF Archive

LEMMA SaveKeeps ==
    ASSUME ClusterInv, NEW d \in Devloops, NEW s \in Services, op[d].plan # <<>>, op[d].plan[1] = <<"save", s>>,
           op[d].cmd \in {"rebuild", "rebuild-all"}, SaveImage(d, s), NextStep(d), BesideWrites
    PROVE  ClusterInv'
<1>1. ClusterTyped /\ Underway(d) /\ Tagged(d) /\ Archive(d) /\ Loaded(d) BY DEF ClusterInv, InStep
<1>2. store' = store /\ node' = node /\ files' = files /\ tar' = [tar EXCEPT ![d] = store[s]] BY DEF SaveImage
<1>3. /\ op'[d].cmd = op[d].cmd /\ op'[d].built = op[d].built /\ op'[d].foreign = op[d].foreign
      /\ op'[d].plan = Tail(op[d].plan) /\ op'[d].kept = op[d].kept /\ op'[d].spoiled = op[d].spoiled
  BY <1>1, <1>2, NextStepFacts
<1>4. Underway(d)' BY <1>1, <1>3, RebuildGoesOn DEF BesideWrites
<1>5. Tagged(d)' /\ \A t \in Services : OwnBuild(d, t)' <=> OwnBuild(d, t) BY <1>1, <1>2, TaggedAfter
<1>6. tar' \in [Devloops -> Revisions \cup {Partial}] /\ tar'[d] = store[s] /\ store[s] \in Revisions
      /\ \A e \in Devloops \ {d} : tar'[e] = tar[e]
  BY <1>1, <1>2 DEF ClusterTyped
<1>7. runtime = "podman" /\ op'[d].plan # <<>> /\ op'[d].plan[1] = <<"load", s>>
  <2>1. op[d].plan \in Seq(PlanStep) /\ Rebuilding(op[d].plan) BY <1>1 DEF ClusterTyped, WriteState, Underway
  <2> QED BY <1>3, <2>1, TailRebuilds
<1>8. Archive(d)'
  <2>1. ToLoad(d)'
    <3>1. op'[d].plan \in Seq(PlanStep)
      <4>1. op[d].plan \in Seq(PlanStep) BY <1>1 DEF ClusterTyped, WriteState
      <4> QED BY <1>3, <4>1, TailFacts
    <3>2. 1 \in 1..Len(op'[d].plan) /\ 1 > 0 BY <1>7, <3>1
    <3> QED BY <1>7, <3>2 DEF ToLoad, Ahead
  <2>2. tar'[d] # Partial BY <1>6, NotPartial
  <2>4. ASSUME NEW t \in Services, op'[d].plan[1] = <<"load", t>>, OwnBuild(d, t)' PROVE tar'[d] = op'[d].built[t]
    <3>1. t = s BY <1>7, <2>4, StepsDiffer
    <3>2. store[t] = op[d].built[t] BY <1>1, <1>5, <2>4 DEF Tagged
    <3> QED BY <3>1, <3>2, <1>3, <1>6
  <2> QED BY <2>1, <2>2, <2>4 DEF Archive
<1>9. Loaded(d)'
  <2>1. /\ \A t \in Services : op[d].plan[1] # <<"load", t>>
        /\ \A t \in Services : \A p \in Pods(t) : op[d].plan[1] # <<"restart", t, p[2]>>
    BY StepsDiffer
  <2> QED BY <1>1, <1>2, <1>3, <1>5, <2>1, LoadedAfter
<1>10. node' \in [Devloops -> NodeState] /\ files' \in [Devloops -> SUBSET RuntimeFile] BY <1>1, <1>2 DEF ClusterTyped
<1> QED BY <1>2, <1>4, <1>5, <1>6, <1>8, <1>9, <1>10, OwnStep

\* The cluster of a helper, and those of the others.
LEMMA NodeUpdate ==
    ASSUME ClusterTyped, NEW d \in Devloops, NEW m \in NodeState, node' = [node EXCEPT ![d] = m]
    PROVE  node' \in [Devloops -> NodeState] /\ node'[d] = m /\ \A e \in Devloops \ {d} : node'[e] = node[e]
  BY DEF ClusterTyped

LEMMA LoadKeeps ==
    ASSUME ClusterInv, NEW d \in Devloops, NEW s \in Services, op[d].plan # <<>>, op[d].plan[1] = <<"load", s>>,
           op[d].cmd \in {"rebuild", "rebuild-all"}, LoadImage(d, s), RemoveArchive(d), NextStep(d), BesideWrites
    PROVE  ClusterInv'
<1>1. ClusterTyped /\ Underway(d) /\ Tagged(d) /\ Archive(d) /\ Loaded(d) BY DEF ClusterInv, InStep
<1>2. store' = store /\ files' = files /\ tar' = [tar EXCEPT ![d] = NoImage] BY DEF LoadImage, RemoveArchive
<1>3. /\ op'[d].cmd = op[d].cmd /\ op'[d].built = op[d].built /\ op'[d].foreign = op[d].foreign
      /\ op'[d].plan = Tail(op[d].plan) /\ op'[d].kept = op[d].kept /\ op'[d].spoiled = op[d].spoiled
  BY <1>1, <1>2, NextStepFacts
<1>4. Underway(d)' BY <1>1, <1>3, RebuildGoesOn DEF BesideWrites
<1>5. Tagged(d)' /\ \A t \in Services : OwnBuild(d, t)' <=> OwnBuild(d, t) BY <1>1, <1>2, TaggedAfter
<1>6. tar' \in [Devloops -> Revisions \cup {Partial}] /\ tar'[d] = NoImage
      /\ \A e \in Devloops \ {d} : tar'[e] = tar[e]
  BY <1>1, <1>2 DEF ClusterTyped, Revisions
<1>7. Loading(d) BY DEF Loading
<1>8. PICK im \in Revisions : /\ im = (IF runtime = "podman" THEN tar[d] ELSE store[s])
                              /\ OwnBuild(d, s) => im = op[d].built[s]
  <2>1. CASE runtime = "podman"
    <3>1. tar[d] \in Revisions BY <2>1, <1>1 DEF ClusterTyped, LoadImage
    <3>2. OwnBuild(d, s) => tar[d] = op[d].built[s] BY <2>1, <1>1, <1>7 DEF Archive, OwnBuild
    <3> QED BY <2>1, <3>1, <3>2
  <2>2. CASE runtime # "podman"
    <3>1. store[s] \in Revisions BY <1>1 DEF ClusterTyped
    <3>2. OwnBuild(d, s) => store[s] = op[d].built[s] BY <1>1 DEF Tagged
    <3> QED BY <2>2, <3>1, <3>2
  <2> QED BY <2>1, <2>2
<1>9. PICK m : m = [node[d] EXCEPT !.image[s] = im] OBVIOUS
<1>10. node[d] \in NodeState BY <1>1 DEF ClusterTyped
<1>11. /\ m \in NodeState /\ m.pod = node[d].pod /\ m.due = node[d].due /\ m.exists = node[d].exists
       /\ m.image[s] = im /\ \A t \in Services \ {s} : m.image[t] = node[d].image[t]
  BY <1>9, <1>10 DEF NodeState
<1>12. node' = [node EXCEPT ![d] = m] BY <1>8, <1>9 DEF LoadImage
<1>13. node' \in [Devloops -> NodeState] /\ node'[d] = m /\ \A e \in Devloops \ {d} : node'[e] = node[e]
  BY <1>1, <1>11, <1>12, NodeUpdate
<1>14. Archive(d)'
  <2>1. \A t \in Services : op[d].plan[1] # <<"save", t>> BY StepsDiffer
  <2>2. Loading(d)' => runtime # "podman" BY <1>1, <1>3, <2>1, NotLoadingNext DEF BesideWrites
  <2> QED BY <2>2, <1>6 DEF Archive, BesideWrites
<1>15. Loaded(d)'
  <2>1. \A x : Ahead(op[d].plan, 0, x) <=> (op[d].plan[1] = x \/ Ahead(op[d].plan, 0, x)') BY <1>1, <1>3, AheadAfter
  <2> SUFFICES ASSUME NEW t \in Services, OwnBuild(d, t)', ~Ahead(op[d].plan, 0, <<"load", t>>)'
               PROVE  /\ node'[d].image[t] = op'[d].built[t]
                      /\ \A p \in Pods(t) : \/ Ahead(op[d].plan, 0, <<"restart", t, p[2]>>)'
                                            \/ p \in node'[d].due \/ node'[d].pod[p] = node'[d].image[t] \/ p \in op'[d].kept
    BY DEF Loaded
  <2>2. CASE t = s
    <3>1. node'[d].image[t] = op'[d].built[t] BY <2>2, <1>3, <1>5, <1>8, <1>11, <1>13
    <3>2. op[d].plan \in Seq(PlanStep) /\ Rebuilding(op[d].plan) BY <1>1 DEF ClusterTyped, WriteState, Underway
    <3>3. \A p \in Pods(s) : Ahead(Tail(op[d].plan), 0, <<"restart", s, p[2]>>) BY <3>2, TailRebuilds
    <3>4. \A x : Ahead(Tail(op[d].plan), 0, x) => Ahead(op[d].plan, 0, x)' BY <1>3 DEF Ahead
    <3> QED BY <2>2, <3>1, <3>3, <3>4
  <2>3. CASE t # s
    <3>1. OwnBuild(d, t) /\ ~Ahead(op[d].plan, 0, <<"load", t>>) BY <1>5, <2>1, <2>3, StepsDiffer
    <3>2. /\ node[d].image[t] = op[d].built[t]
          /\ \A p \in Pods(t) : \/ Ahead(op[d].plan, 0, <<"restart", t, p[2]>>)
                                \/ p \in node[d].due \/ node[d].pod[p] = node[d].image[t] \/ p \in op[d].kept
      BY <1>1, <3>1 DEF Loaded
    <3>3. \A p \in Pods(t) : op[d].plan[1] # <<"restart", t, p[2]>> BY StepsDiffer
    <3> QED BY <2>1, <2>3, <3>2, <3>3, <1>3, <1>11, <1>13
  <2> QED BY <2>2, <2>3
<1>16. files' \in [Devloops -> SUBSET RuntimeFile] BY <1>1, <1>2 DEF ClusterTyped
<1> QED BY <1>2, <1>4, <1>5, <1>6, <1>13, <1>14, <1>15, <1>16, OwnStep

LEMMA RestartKeeps ==
    ASSUME ClusterInv, NEW d \in Devloops, NEW s \in Services, NEW q \in Pods(s), op[d].plan # <<>>,
           op[d].plan[1] = <<"restart", s, q[2]>>,
           op[d].cmd \in {"rebuild", "rebuild-all"}, RestartDeployment(d, s, q[2]), NextStep(d), BesideWrites
    PROVE  ClusterInv'
<1>1. ClusterTyped /\ Underway(d) /\ Tagged(d) /\ Archive(d) /\ Loaded(d) BY DEF ClusterInv, InStep
<1>2. store' = store /\ files' = files /\ tar' = tar BY DEF RestartDeployment
<1>3. /\ op'[d].cmd = op[d].cmd /\ op'[d].built = op[d].built /\ op'[d].foreign = op[d].foreign
      /\ op'[d].plan = Tail(op[d].plan) /\ op'[d].kept = op[d].kept /\ op'[d].spoiled = op[d].spoiled
  BY <1>1, <1>2, NextStepFacts
<1>4. Underway(d)' BY <1>1, <1>3, RebuildGoesOn DEF BesideWrites
<1>5. Tagged(d)' /\ \A t \in Services : OwnBuild(d, t)' <=> OwnBuild(d, t) BY <1>1, <1>2, TaggedAfter
<1>6. q = <<s, q[2]>> /\ q \in AllPods BY PodFacts
<1>7. PICK m : m = [node[d] EXCEPT !.due = @ \cup {q}] OBVIOUS
<1>8. node[d] \in NodeState BY <1>1 DEF ClusterTyped
<1>9. m \in NodeState /\ m.pod = node[d].pod /\ m.due = node[d].due \cup {q} /\ m.image = node[d].image
  BY <1>6, <1>7, <1>8 DEF NodeState
<1>10. node' = [node EXCEPT ![d] = m] BY <1>6, <1>7 DEF RestartDeployment
<1>11. node' \in [Devloops -> NodeState] /\ node'[d] = m /\ \A e \in Devloops \ {d} : node'[e] = node[e]
  BY <1>1, <1>9, <1>10, NodeUpdate
<1>12. Archive(d)'
  <2>1. \A t \in Services : op[d].plan[1] # <<"save", t>> /\ op[d].plan[1] # <<"load", t>> BY StepsDiffer
  <2> QED BY <1>1, <1>2, <1>3, <2>1, ArchiveAfter DEF BesideWrites
<1>13. Loaded(d)'
  <2>1. \A t \in Services : op[d].plan[1] # <<"load", t>> BY StepsDiffer
  <2>2. ASSUME NEW t \in Services, NEW p \in Pods(t), op[d].plan[1] = <<"restart", t, p[2]>> PROVE p = q
    <3>1. t = s /\ p[2] = q[2] BY <2>2, StepsDiffer
    <3> QED BY <3>1, PodFacts
  <2> QED BY <1>1, <1>3, <1>5, <1>9, <1>11, <2>1, <2>2, LoadedAfter
<1>14. files' \in [Devloops -> SUBSET RuntimeFile] /\ tar' \in [Devloops -> Revisions \cup {Partial}] BY <1>1, <1>2 DEF ClusterTyped
<1> QED BY <1>2, <1>4, <1>5, <1>11, <1>12, <1>13, <1>14, OwnStep

\* A step that builds tags, as the other helpers have it.
LEMMA Overtaken ==
    ASSUME ClusterInv, NEW d \in Devloops, NEW mine \in WriteState, NEW tags \in SUBSET Services, Takes(d, mine, tags)
    PROVE  /\ op' \in [Devloops -> WriteState] /\ op'[d] = mine
           /\ \A e \in Devloops \ {d} :
                /\ op'[e].cmd = op[e].cmd /\ op'[e].plan = op[e].plan /\ op'[e].built = op[e].built
                /\ op'[e].kept = op[e].kept /\ op'[e].spoiled = op[e].spoiled /\ op[e].foreign \subseteq op'[e].foreign
                /\ \A s \in tags : op[e].built[s] # NoImage => s \in op'[e].foreign
                /\ op'[e] = NoWrite <=> op[e] = NoWrite
<1>1. ASSUME NEW e \in Devloops, e # d
      PROVE  /\ op'[e] \in WriteState /\ op'[e].cmd = op[e].cmd /\ op'[e].plan = op[e].plan /\ op'[e].built = op[e].built
             /\ op'[e].kept = op[e].kept /\ op'[e].spoiled = op[e].spoiled /\ op[e].foreign \subseteq op'[e].foreign
             /\ \A s \in tags : op[e].built[s] # NoImage => s \in op'[e].foreign
             /\ op'[e] = NoWrite <=> op[e] = NoWrite
  <2>0. op[e] \in WriteState BY DEF ClusterInv, ClusterTyped
  <2>1. PICK fo : fo = op[e].foreign \cup {s \in tags : op[e].built[s] # NoImage} OBVIOUS
  <2>2. op'[e] = [op[e] EXCEPT !.foreign = fo] BY <1>1, <2>1 DEF Takes
  <2>3. fo \in SUBSET Services BY <2>0, <2>1 DEF WriteState
  <2>4. /\ op'[e] \in WriteState /\ op'[e].cmd = op[e].cmd /\ op'[e].plan = op[e].plan /\ op'[e].built = op[e].built
        /\ op'[e].kept = op[e].kept /\ op'[e].spoiled = op[e].spoiled /\ op'[e].foreign = fo
    BY <2>0, <2>2, <2>3 DEF WriteState
  <2>5. op[e] = NoWrite => op'[e] = NoWrite
    <3> SUFFICES ASSUME op[e] = NoWrite PROVE op'[e] = NoWrite OBVIOUS
    <3>1. fo = {} /\ op[e].foreign = {} BY <2>1, NoWriteFacts
    <3> QED BY <2>0, <2>2, <3>1 DEF WriteState
  <2>6. op'[e] = NoWrite => op[e] = NoWrite
    <3> SUFFICES ASSUME op'[e] = NoWrite PROVE op[e] = NoWrite OBVIOUS
    <3>1. op[e].cmd = "none" BY <2>4, NoWriteFacts
    <3>2. Underway(e) BY DEF ClusterInv, InStep
    <3> QED BY <3>1, <3>2 DEF Underway
  <2> QED BY <2>1, <2>4, <2>5, <2>6
<1>2. op'[d] = mine BY DEF Takes
<1>3. op' \in [Devloops -> WriteState]
  <2>1. \A e \in Devloops : op'[e] \in WriteState BY <1>1, <1>2
  <2>2. op' = [e \in Devloops |-> op'[e]] BY DEF Takes
  <2> QED BY <2>1, <2>2
<1> QED BY <1>1, <1>2, <1>3

LEMMA OthersOvertaken ==
    ASSUME ClusterInv, NEW d \in Devloops, NEW mine \in WriteState, NEW tags \in SUBSET Services, Takes(d, mine, tags),
           runtime' = runtime, \A s \in Services \ tags : store'[s] = store[s],
           \A e \in Devloops \ {d} : /\ node'[e] = node[e] /\ files'[e] = files[e] /\ tar'[e] = tar[e]
                                     /\ result'[e] = result[e] /\ probe'[e] = probe[e] /\ orphans'[e] = orphans[e]
    PROVE  \A e \in Devloops \ {d} : InStep(e)'
<1> SUFFICES ASSUME NEW e \in Devloops, e # d PROVE InStep(e)' OBVIOUS
<1>1. ClusterTyped /\ Underway(e) /\ Tagged(e) /\ Archive(e) /\ Loaded(e) /\ EndedOk(e) /\ Probed(e) /\ Strays(e) BY DEF ClusterInv, InStep
<1>2. /\ op'[e].cmd = op[e].cmd /\ op'[e].plan = op[e].plan /\ op'[e].built = op[e].built
      /\ op'[e].kept = op[e].kept /\ op'[e].spoiled = op[e].spoiled /\ op[e].foreign \subseteq op'[e].foreign
      /\ \A s \in tags : op[e].built[s] # NoImage => s \in op'[e].foreign
      /\ op'[e] = NoWrite <=> op[e] = NoWrite
  BY Overtaken
<1>3. \A s \in Services : op[e].built[s] # NoImage /\ s \notin op'[e].foreign => store'[s] = store[s] BY <1>2
<1>4. Underway(e)' /\ Tagged(e)' /\ Archive(e)' /\ Loaded(e)' /\ EndedOk(e)' /\ Probed(e)' /\ Strays(e)' BY <1>1, <1>2, <1>3, Beside
<1> QED BY <1>4 DEF InStep

\* A step that builds tags, of one's own write.
LEMMA OwnTake ==
    ASSUME ClusterInv, NEW d \in Devloops, op[d].plan # <<>>, NEW mine \in WriteState, NEW tags \in SUBSET Services,
           Takes(d, mine, tags), mine.cmd = op[d].cmd, mine.spoiled = op[d].spoiled, BesideWrites,
           store' \in [Services -> Revisions], \A s \in Services \ tags : store'[s] = store[s],
           node' \in [Devloops -> NodeState], \A e \in Devloops \ {d} : node'[e] = node[e], UNCHANGED <<files, tar>>,
           Underway(d)', Tagged(d)', Archive(d)', Loaded(d)'
    PROVE  ClusterInv'
<1>1. ClusterTyped /\ Underway(d) /\ Probed(d) /\ Strays(d) BY DEF ClusterInv, InStep
<1>2. op[d] # NoWrite /\ op[d].cmd # "none" BY <1>1, NextOfPlan
<1>3. op' \in [Devloops -> WriteState] /\ op'[d] = mine BY Overtaken
<1>4. op'[d] # NoWrite BY <1>2, <1>3, NoWriteFacts
<1>5. ClusterTyped' BY <1>1, <1>3 DEF ClusterTyped, BesideWrites
<1>6. \A e \in Devloops \ {d} : InStep(e)' BY OthersOvertaken DEF BesideWrites
<1>7. EndedOk(d)' /\ Probed(d)' /\ Strays(d)' BY <1>1, <1>2, <1>3, <1>4, NotEnded DEF BesideWrites
<1>8. InStep(d)' BY <1>7 DEF InStep
<1> QED BY <1>5, <1>6, <1>8 DEF ClusterInv

LEMMA RevisionFacts ==
    ASSUME ClusterTyped, NEW d \in Devloops, NEW s \in Services PROVE Revision(d, s) \in Revisions /\ Revision(d, s) # NoImage
  BY DEF Revision, Revisions, NoImage, ClusterTyped

LEMMA BuildKeeps ==
    ASSUME ClusterInv, NEW d \in Devloops, NEW s \in Services, op[d].plan # <<>>, op[d].plan[1] = <<"build", s>>,
           op[d].cmd \in {"rebuild", "rebuild-all"}, BuildImage(d, s), BesideWrites,
           Takes(d, [op[d] EXCEPT !.plan = Tail(@), !.built[s] = Revision(d, s), !.foreign = @ \ {s}], {s})
    PROVE  ClusterInv'
<1>1. ClusterTyped /\ Underway(d) /\ Tagged(d) /\ Archive(d) /\ Loaded(d) /\ Probed(d) BY DEF ClusterInv, InStep
<1>2. PICK v : v = Revision(d, s) OBVIOUS
<1>3. v \in Revisions /\ v # NoImage BY <1>1, <1>2, RevisionFacts
<1>4. store' = [store EXCEPT ![s] = v] /\ node' = node /\ files' = files /\ tar' = tar BY <1>2 DEF BuildImage
<1>5. op[d] \in WriteState BY <1>1 DEF ClusterTyped
<1>6. PICK mine : mine = [op[d] EXCEPT !.plan = Tail(@), !.built[s] = v, !.foreign = @ \ {s}] OBVIOUS
<1>7. Tail(op[d].plan) \in Seq(PlanStep)
  <2>1. op[d].plan \in Seq(PlanStep) BY <1>5 DEF WriteState
  <2> QED BY <2>1, TailFacts
<1>8. /\ mine \in WriteState /\ mine.cmd = op[d].cmd /\ mine.plan = Tail(op[d].plan) /\ mine.kept = op[d].kept
      /\ mine.spoiled = op[d].spoiled /\ mine.built[s] = v /\ (\A t \in Services \ {s} : mine.built[t] = op[d].built[t])
      /\ mine.foreign = op[d].foreign \ {s}
  <2>2. PICK bl : bl = [op[d].built EXCEPT ![s] = v] OBVIOUS
  <2>3. op[d].built \in [Services -> Revisions] /\ op[d].foreign \in SUBSET Services BY <1>5 DEF WriteState
  <2>4. bl \in [Services -> Revisions] /\ bl[s] = v /\ \A t \in Services \ {s} : bl[t] = op[d].built[t] BY <1>3, <2>2, <2>3
  <2>5. PICK fo \in SUBSET Services : fo = op[d].foreign \ {s} BY <2>3
  <2>6. mine = [op[d] EXCEPT !.plan = Tail(op[d].plan), !.built = bl, !.foreign = fo] BY <1>6, <2>2, <2>5
  <2>7. /\ mine \in WriteState /\ mine.cmd = op[d].cmd /\ mine.plan = Tail(op[d].plan) /\ mine.kept = op[d].kept
        /\ mine.spoiled = op[d].spoiled /\ mine.built = bl /\ mine.foreign = fo
    BY <1>5, <1>7, <2>4, <2>6 DEF WriteState
  <2> QED BY <2>4, <2>5, <2>7
<1>9. {s} \in SUBSET Services /\ Takes(d, mine, {s}) BY <1>2, <1>6
<1>10. op'[d] = mine BY <1>8, <1>9, Overtaken
<1>11. store' \in [Services -> Revisions] /\ store'[s] = v /\ \A t \in Services \ {s} : store'[t] = store[t] BY <1>1, <1>3, <1>4 DEF ClusterTyped
<1>12. node' \in [Devloops -> NodeState] /\ \A e \in Devloops \ {d} : node'[e] = node[e] BY <1>1, <1>4 DEF ClusterTyped
<1>14. Underway(d)' BY <1>1, <1>8, <1>10, RebuildGoesOn DEF BesideWrites
<1>15. \A t \in Services \ {s} : (OwnBuild(d, t)' <=> OwnBuild(d, t)) BY <1>8, <1>10 DEF OwnBuild
<1>16. Tagged(d)'
  <2> SUFFICES ASSUME NEW t \in Services, OwnBuild(d, t)' PROVE store'[t] = op'[d].built[t] BY DEF Tagged
  <2>1. CASE t = s BY <2>1, <1>8, <1>10, <1>11
  <2>2. CASE t # s BY <2>2, <1>1, <1>8, <1>10, <1>11, <1>15 DEF Tagged
  <2> QED BY <2>1, <2>2
<1>a. Ahead(op[d].plan, 0, <<"load", s>>)'
  <2>1. op[d].plan \in Seq(PlanStep) /\ Rebuilding(op[d].plan) BY <1>1 DEF ClusterTyped, WriteState, Underway
  <2>2. Ahead(Tail(op[d].plan), 0, <<"load", s>>) BY <2>1, TailRebuilds
  <2> QED BY <2>2, <1>8, <1>10 DEF Ahead
<1>17. Archive(d)'
  <2>1. \A t \in Services : op[d].plan[1] # <<"save", t>> BY StepsDiffer
  <2>2. Loading(d)' => runtime # "podman" BY <1>1, <1>8, <1>10, <2>1, NotLoadingNext DEF BesideWrites
  <2>3. ToLoad(d)' BY <1>a DEF ToLoad
  <2> QED BY <2>2, <2>3 DEF Archive, BesideWrites
<1>18. Loaded(d)'
  <2>1. \A x : Ahead(op[d].plan, 0, x) <=> (op[d].plan[1] = x \/ Ahead(op[d].plan, 0, x)') BY <1>1, <1>8, <1>10, AheadAfter
  <2> SUFFICES ASSUME NEW t \in Services, OwnBuild(d, t)', ~Ahead(op[d].plan, 0, <<"load", t>>)'
               PROVE  /\ node'[d].image[t] = op'[d].built[t]
                      /\ \A p \in Pods(t) : \/ Ahead(op[d].plan, 0, <<"restart", t, p[2]>>)'
                                            \/ p \in node'[d].due \/ node'[d].pod[p] = node'[d].image[t] \/ p \in op'[d].kept
    BY DEF Loaded
  <2>2. t # s BY <1>a
  <2>3. OwnBuild(d, t) /\ ~Ahead(op[d].plan, 0, <<"load", t>>) BY <1>15, <2>1, <2>2, StepsDiffer
  <2>4. /\ node[d].image[t] = op[d].built[t]
        /\ \A p \in Pods(t) : \/ Ahead(op[d].plan, 0, <<"restart", t, p[2]>>)
                              \/ p \in node[d].due \/ node[d].pod[p] = node[d].image[t] \/ p \in op[d].kept
    BY <1>1, <2>3 DEF Loaded
  <2>5. \A p \in Pods(t) : op[d].plan[1] # <<"restart", t, p[2]>> BY StepsDiffer
  <2> QED BY <2>1, <2>2, <2>4, <2>5, <1>4, <1>8, <1>10
<1> QED BY <1>4, <1>8, <1>9, <1>11, <1>12, <1>14, <1>16, <1>17, <1>18, OwnTake

\* The steps of a setup, one by one.
LEMMA SetupTail ==
    ASSUME ClusterTyped, NEW d \in Devloops, Underway(d), op[d].cmd = "setup", op[d].plan # <<>>, op'[d].plan = Tail(op[d].plan)
    PROVE  /\ Len(op'[d].plan) = Len(op[d].plan) - 1 /\ Len(op[d].plan) \in 1..6
           /\ \A i \in 1..Len(op'[d].plan) : op'[d].plan[i] = SetupSteps[6 - Len(op'[d].plan) + i]
           /\ ~Loading(d) /\ ~Loading(d)'
<1>1. PICK pl \in Seq(PlanStep) : pl = op[d].plan BY DEF ClusterTyped, WriteState
<1>2. PICK tl : tl = Tail(pl) OBVIOUS
<1>3. PICK n \in Nat : n = Len(pl) BY <1>1
<1>4. /\ tl \in Seq(PlanStep) /\ Len(tl) = n - 1 /\ n > 0
      /\ \A i \in 1..Len(tl) : i + 1 \in 1..Len(pl) /\ tl[i] = pl[i + 1]
  BY <1>1, <1>2, <1>3, TailFacts
<1>5. n <= 6 /\ \A i \in 1..n : pl[i] = SetupSteps[6 - n + i] BY <1>1, <1>3 DEF Underway
<1>6. ASSUME NEW i \in 1..Len(tl) PROVE tl[i] = SetupSteps[6 - Len(tl) + i]
  <2>1. i + 1 \in 1..n /\ tl[i] = pl[i + 1] BY <1>3, <1>4
  <2>2. pl[i + 1] = SetupSteps[6 - n + (i + 1)] BY <1>5, <2>1
  <2>3. 6 - n + (i + 1) = 6 - Len(tl) + i BY <1>4
  <2> QED BY <2>1, <2>2, <2>3
<1>7. \A k \in 1..6 : SetupSteps[k][1] # "load" BY DEF SetupSteps
<1>8. ~Loading(d)
  <2>1. 1 \in 1..n /\ 6 - n + 1 \in 1..6 BY <1>4, <1>5
  <2>2. pl[1][1] # "load" BY <1>5, <1>7, <2>1
  <2> QED BY <1>1, <2>2 DEF Loading
<1>9. ~Loading(d)'
  <2>1. CASE tl = <<>> BY <2>1, <1>1, <1>2 DEF Loading
  <2>2. CASE tl # <<>>
    <3>1. Len(tl) > 0 /\ Len(tl) \in Nat BY <2>2, <1>4
    <3>2. 1 \in 1..Len(tl) /\ 6 - Len(tl) + 1 \in 1..6 BY <3>1, <1>4, <1>5
    <3>3. tl[1][1] # "load" BY <1>6, <1>7, <3>2
    <3> QED BY <1>1, <1>2, <3>3 DEF Loading
  <2> QED BY <2>1, <2>2
<1>10. op'[d].plan = tl /\ Len(op'[d].plan) = n - 1 BY <1>1, <1>2, <1>4
<1>11. n \in 1..6 BY <1>4, <1>5
<1> QED BY <1>1, <1>3, <1>6, <1>8, <1>9, <1>10, <1>11

LEMMA StepsLeft ==
    ASSUME NEW n \in 1..6
    PROVE  \E m \in Nat :
            /\ m = n - 1 /\ m <= 6
            /\ n = 6 \/ n <= 5
            /\ m <= 4 => n = 5 \/ n <= 4
            /\ m <= 3 => n = 4 \/ n <= 3
            /\ m <= 2 => n = 3 \/ n <= 2
            /\ m <= 1 => n = 2 \/ n <= 1
            /\ m = 0 => n = 1
            /\ m >= 2 => n >= 3 /\ n >= 2
  OBVIOUS

LEMMA SetupGoesOn ==
    ASSUME ClusterTyped, NEW d \in Devloops, Underway(d), op[d].cmd = "setup", op[d].plan # <<>>, op'[d].plan = Tail(op[d].plan),
           op'[d].cmd = op[d].cmd, op'[d].spoiled = op[d].spoiled, NEW n \in Nat, n = Len(op[d].plan), n >= 3 => op'[d].built = op[d].built,
           files[d] \subseteq files'[d], node[d].exists => node'[d].exists,
           \A p \in AllPods : node[d].pod[p] # NoImage \/ p \in node[d].due => node'[d].pod[p] # NoImage \/ p \in node'[d].due,
           n = 6 => "kind-config" \in files'[d], n = 5 => "ports.json" \in files'[d], n = 4 => node'[d].exists,
           n = 3 => "port-map.env" \in files'[d], n = 2 => \A p \in AllPods : node'[d].pod[p] # NoImage \/ p \in node'[d].due, n = 1 => "kubeconfig" \in files'[d]
    PROVE  Underway(d)'
<1>0. n \in 1..6 /\ Len(op'[d].plan) = n - 1 BY SetupTail
<1>1. PICK m \in Nat :
        /\ m = n - 1 /\ m <= 6
        /\ n = 6 \/ n <= 5
        /\ m <= 4 => n = 5 \/ n <= 4
        /\ m <= 3 => n = 4 \/ n <= 3
        /\ m <= 2 => n = 3 \/ n <= 2
        /\ m <= 1 => n = 2 \/ n <= 1
        /\ m = 0 => n = 1
        /\ m >= 2 => n >= 3 /\ n >= 2
  BY <1>0, StepsLeft
<1>a. m = Len(op'[d].plan) BY <1>0, <1>1
<1>2. \A i \in 1..m : op'[d].plan[i] = SetupSteps[6 - m + i] BY <1>a, SetupTail
<1>3. /\ n <= 5 => "kind-config" \in files[d]
      /\ n <= 4 => "ports.json" \in files[d]
      /\ n <= 3 => node[d].exists \/ op[d].spoiled
      /\ n <= 2 => "port-map.env" \in files[d]
      /\ n <= 1 => op[d].spoiled \/ \A p \in AllPods : node[d].pod[p] # NoImage \/ p \in node[d].due
      /\ n >= 2 => op[d].built = NoneBuilt
  BY DEF Underway
<1>4. m <= 6 BY <1>1
<1>5. m <= 5 => "kind-config" \in files'[d] BY <1>1, <1>3
<1>6. m <= 4 => "ports.json" \in files'[d] BY <1>1, <1>3
<1>7. m <= 3 => node'[d].exists \/ op'[d].spoiled BY <1>1, <1>3
<1>8. m <= 2 => "port-map.env" \in files'[d] BY <1>1, <1>3
<1>9. m <= 1 => op'[d].spoiled \/ \A p \in AllPods : node'[d].pod[p] # NoImage \/ p \in node'[d].due BY <1>1, <1>3
<1>10. m = 0 => "kubeconfig" \in files'[d] BY <1>1
<1>11. m >= 2 => op'[d].built = NoneBuilt BY <1>1, <1>3
<1>12. NoneBuilt' = NoneBuilt BY DEF NoneBuilt
<1> QED BY <1>a, <1>2, <1>4, <1>5, <1>6, <1>7, <1>8, <1>9, <1>10, <1>11, <1>12 DEF Underway

\* A step of a setup other than the script.
LEMMA SetupStepKeeps ==
    ASSUME ClusterInv, NEW d \in Devloops, op[d].plan # <<>>, op[d].cmd = "setup", NextStep(d), BesideWrites,
           store' = store, tar' = tar, node' \in [Devloops -> NodeState], files' \in [Devloops -> SUBSET RuntimeFile],
           \A e \in Devloops \ {d} : node'[e] = node[e] /\ files'[e] = files[e],
           node'[d].image = node[d].image, node'[d].pod = node[d].pod, node'[d].due = node[d].due,
           files[d] \subseteq files'[d], node[d].exists => node'[d].exists, NEW k \in 1..6, Len(op[d].plan) = 7 - k, k # 5,
           op[d].plan[1] = SetupSteps[k], k = 1 => "kind-config" \in files'[d], k = 2 => "ports.json" \in files'[d],
           k = 3 => node'[d].exists, k = 4 => "port-map.env" \in files'[d], k = 6 => "kubeconfig" \in files'[d]
    PROVE  ClusterInv'
<1>1. ClusterTyped /\ Underway(d) /\ Tagged(d) /\ Archive(d) /\ Loaded(d) BY DEF ClusterInv, InStep
<1>2. /\ op'[d].cmd = op[d].cmd /\ op'[d].built = op[d].built /\ op'[d].foreign = op[d].foreign
      /\ op'[d].plan = Tail(op[d].plan) /\ op'[d].kept = op[d].kept /\ op'[d].spoiled = op[d].spoiled
  BY <1>1, NextStepFacts
<1>3. Underway(d)'
  <2>1. PICK n \in Nat : n = Len(op[d].plan) /\ n = 7 - k OBVIOUS
  <2>2. /\ n = 6 => k = 1
        /\ n = 5 => k = 2
        /\ n = 4 => k = 3
        /\ n = 3 => k = 4
        /\ n # 2
        /\ n = 1 => k = 6
    BY <2>1
  <2> QED BY <1>1, <1>2, <2>1, <2>2, SetupGoesOn
<1>4. Tagged(d)' /\ \A t \in Services : OwnBuild(d, t)' <=> OwnBuild(d, t) BY <1>1, TaggedAfter
<1>5. ~Loading(d)' /\ ~HasBuilt(d)' BY <1>1, <1>2, SetupTail DEF HasBuilt
<1>6. Archive(d)' BY <1>5 DEF Archive
<1>7. Loaded(d)'
  <2>1. SetupSteps[k][1] \notin {"load", "restart"} BY DEF SetupSteps
  <2>2. /\ \A t \in Services : op[d].plan[1] # <<"load", t>>
        /\ \A t \in Services : \A p \in Pods(t) : op[d].plan[1] # <<"restart", t, p[2]>>
    BY <2>1
  <2> QED BY <1>1, <1>2, <1>4, <2>2, LoadedAfter
<1>8. tar' \in [Devloops -> Revisions \cup {Partial}] BY <1>1 DEF ClusterTyped
<1> QED BY <1>3, <1>4, <1>6, <1>7, <1>8, OwnStep

LEMMA SetupFilesKeep ==
    ASSUME ClusterInv, NEW d \in Devloops, op[d].plan # <<>>, op[d].cmd = "setup", BesideWrites, NEW f \in RuntimeFile,
           files' = [files EXCEPT ![d] = @ \cup {f}], NextStep(d), UNCHANGED <<store, node, tar>>,
           NEW k \in 1..6, Len(op[d].plan) = 7 - k, op[d].plan[1] = SetupSteps[k],
           \/ k = 1 /\ f = "kind-config"
           \/ k = 2 /\ f = "ports.json"
           \/ k = 4 /\ f = "port-map.env"
           \/ k = 6 /\ f = "kubeconfig"
    PROVE  ClusterInv'
<1>1. ClusterTyped BY DEF ClusterInv
<1>2. node' \in [Devloops -> NodeState] /\ files' \in [Devloops -> SUBSET RuntimeFile] BY <1>1 DEF ClusterTyped
<1>3. files'[d] = files[d] \cup {f} /\ \A e \in Devloops \ {d} : files'[e] = files[e] BY <1>1 DEF ClusterTyped
<1>4. k # 3 /\ k # 5 OBVIOUS
<1>5. /\ k = 1 => "kind-config" \in files'[d]
      /\ k = 2 => "ports.json" \in files'[d]
      /\ k = 4 => "port-map.env" \in files'[d]
      /\ k = 6 => "kubeconfig" \in files'[d]
  BY <1>3
<1> QED BY <1>2, <1>3, <1>4, <1>5, SetupStepKeeps

LEMMA CreateKeeps ==
    ASSUME ClusterInv, NEW d \in Devloops, op[d].plan # <<>>, op[d].cmd = "setup", BesideWrites, CreateCluster(d), NextStep(d),
           Len(op[d].plan) = 7 - 3, op[d].plan[1] = SetupSteps[3]
    PROVE  ClusterInv'
<1>1. ClusterTyped BY DEF ClusterInv
<1>2. PICK m : m = [node[d] EXCEPT !.exists = TRUE] OBVIOUS
<1>3. node[d] \in NodeState BY <1>1 DEF ClusterTyped
<1>4. m \in NodeState /\ m.exists = TRUE /\ m.image = node[d].image /\ m.pod = node[d].pod /\ m.due = node[d].due
  BY <1>2, <1>3 DEF NodeState
<1>5. node' = [node EXCEPT ![d] = m] BY <1>2 DEF CreateCluster
<1>6. node' \in [Devloops -> NodeState] /\ node'[d] = m /\ \A e \in Devloops \ {d} : node'[e] = node[e]
  BY <1>1, <1>4, <1>5, NodeUpdate
<1>7. store' = store /\ files' = files /\ tar' = tar BY DEF CreateCluster
<1>8. files' \in [Devloops -> SUBSET RuntimeFile] BY <1>1, <1>7 DEF ClusterTyped
<1>9. PICK k \in 1..6 : k = 3 /\ k \notin {1, 2, 4, 5, 6} OBVIOUS
<1>10. Len(op[d].plan) = 7 - k /\ op[d].plan[1] = SetupSteps[k] BY <1>9
<1>11. node'[d].exists BY <1>4, <1>6
<1> QED BY <1>4, <1>6, <1>7, <1>8, <1>9, <1>10, <1>11, SetupStepKeeps

LEMMA RolledFacts ==
    ASSUME NEW d \in Devloops, NEW s \in Services
    PROVE  Rolled(d, s) \subseteq AllPods /\ \A p \in Pods(s) : node[d].pod[p] # NoImage \/ p \in Rolled(d, s)
  BY PodFacts DEF Rolled

LEMMA UptoFacts == (\A k : Upto(k) \subseteq Services) /\ (ClusterAssumption => Upto(4) = Services)
<1>1. \A k : Upto(k) \subseteq Services BY DEF Upto
<1>2. ASSUME ClusterAssumption, NEW s \in Services PROVE s \in Upto(4)
  <2>1. s \in {"ac", "gc", "mc", "mh"} BY <1>2 DEF ClusterAssumption
  <2>2. ServiceOrder[1] = "ac" /\ ServiceOrder[2] = "gc" /\ ServiceOrder[3] = "mc" /\ ServiceOrder[4] = "mh" BY DEF ServiceOrder
  <2>3. 1 \in 1..4 /\ 2 \in 1..4 /\ 3 \in 1..4 /\ 4 \in 1..4 OBVIOUS
  <2>4. \E i \in 1..4 : s = ServiceOrder[i] BY <2>1, <2>2, <2>3
  <2> QED BY <2>4 DEF Upto
<1> QED BY <1>1, <1>2

\* What setup.sh has changed, as far as it has come.
LEMMA ScriptFacts ==
    ASSUME ClusterTyped, NEW d \in Devloops, NEW b, NEW l, NEW a, NEW taken, SetupScript(d, b, l, a, taken)
    PROVE  /\ store' \in [Services -> Revisions] /\ node' \in [Devloops -> NodeState]
           /\ \A s \in Services : s \notin Upto(b) \ taken => store'[s] = store[s]
           /\ \A s \in Upto(b) \ taken : store'[s] = Revision(d, s)
           /\ \A e \in Devloops \ {d} : node'[e] = node[e]
           /\ \A s \in Upto(l) : node'[d].image[s] = store'[s]
           /\ node'[d].pod = node[d].pod /\ node'[d].exists = node[d].exists
           /\ node'[d].due = node[d].due \cup UNION {Rolled(d, s) : s \in Upto(a)}
           /\ UNCHANGED <<files, tar>>
<1>1. PICK im : im = [s \in Services |-> IF s \in Upto(b) \ taken THEN Revision(d, s) ELSE store[s]] OBVIOUS
<1>2. \A s \in Services : Revision(d, s) \in Revisions BY RevisionFacts
<1>3. store \in [Services -> Revisions] /\ node[d] \in NodeState BY DEF ClusterTyped
<1>4. im \in [Services -> Revisions] BY <1>1, <1>2, <1>3
<1>5. node[d].image \in [Services -> Revisions] /\ node[d].due \in SUBSET AllPods BY <1>3 DEF NodeState
<1>6. PICK g : g = [s \in Services |-> IF s \in Upto(l) THEN im[s] ELSE node[d].image[s]] OBVIOUS
<1>7. g \in [Services -> Revisions] BY <1>4, <1>5, <1>6
<1>8. PICK w : w = node[d].due \cup UNION {Rolled(d, s) : s \in Upto(a)} OBVIOUS
<1>9. w \in SUBSET AllPods
  <2>1. \A s \in Upto(a) : Rolled(d, s) \subseteq AllPods BY RolledFacts, UptoFacts
  <2> QED BY <1>5, <1>8, <2>1
<1>10. PICK m : m = [node[d] EXCEPT !.image = g, !.due = w] OBVIOUS
<1>11. m \in NodeState /\ m.pod = node[d].pod /\ m.exists = node[d].exists /\ m.image = g /\ m.due = w
  BY <1>3, <1>7, <1>9, <1>10 DEF NodeState
<1>12. store' = im /\ files' = files /\ tar' = tar BY <1>1 DEF SetupScript
<1>13. node' = [node EXCEPT ![d] = m]
  <2>1. node' = [node EXCEPT ![d].image = g, ![d].due = @ \cup UNION {Rolled(d, s) : s \in Upto(a)}] BY <1>1, <1>6 DEF SetupScript
  <2> QED BY <1>8, <1>10, <2>1 DEF ClusterTyped
<1>14. node' \in [Devloops -> NodeState] /\ node'[d] = m /\ \A e \in Devloops \ {d} : node'[e] = node[e]
  BY <1>11, <1>13, NodeUpdate
<1>15. \A s \in Upto(l) : node'[d].image[s] = store'[s] BY <1>6, <1>11, <1>12, <1>14, UptoFacts
<1>16. \A s \in Upto(b) \ taken : store'[s] = Revision(d, s) BY <1>1, <1>12, UptoFacts
<1>17. \A s \in Services : s \notin Upto(b) \ taken => store'[s] = store[s] BY <1>1, <1>12
<1> QED BY <1>4, <1>8, <1>11, <1>12, <1>14, <1>15, <1>16, <1>17

LEMMA ScriptKeeps ==
    ASSUME ClusterAssumption, ClusterInv, NEW d \in Devloops, op[d].plan # <<>>, op[d].cmd = "setup", BesideWrites,
           NEW taken \in SUBSET Services, SetupScript(d, 4, 4, 4, taken),
           Takes(d, [op[d] EXCEPT !.plan = Tail(@), !.built = [s \in Services |-> Revision(d, s)], !.foreign = taken,
                                  !.kept = AllPods \ (node[d].due \cup UNION {Rolled(d, s) : s \in Services})],
                 Services \ taken),
           Len(op[d].plan) = 2, op[d].plan[1] = <<"script">>
    PROVE  ClusterInv'
<1>1. ClusterTyped /\ Underway(d) /\ Archive(d) /\ Probed(d) BY DEF ClusterInv, InStep
<1>2. PICK im : im = [s \in Services |-> Revision(d, s)] OBVIOUS
<1>3. im \in [Services -> Revisions] BY <1>1, <1>2, RevisionFacts
<1>4. Upto(4) = Services BY UptoFacts
<1>5. /\ store' \in [Services -> Revisions] /\ node' \in [Devloops -> NodeState]
      /\ \A s \in Services \ (Services \ taken) : store'[s] = store[s]
      /\ \A s \in Services \ taken : store'[s] = im[s]
      /\ \A e \in Devloops \ {d} : node'[e] = node[e]
      /\ \A s \in Services : node'[d].image[s] = store'[s]
      /\ node'[d].pod = node[d].pod /\ node'[d].exists = node[d].exists
      /\ node'[d].due = node[d].due \cup UNION {Rolled(d, s) : s \in Services}
      /\ UNCHANGED <<files, tar>>
  BY <1>1, <1>2, <1>4, ScriptFacts
<1>6. PICK k \in SUBSET AllPods : k = AllPods \ node'[d].due OBVIOUS
<1>7. op[d] \in WriteState BY <1>1 DEF ClusterTyped
<1>8. PICK mine : mine = [op[d] EXCEPT !.plan = Tail(op[d].plan), !.built = im, !.foreign = taken, !.kept = k] OBVIOUS
<1>9. Tail(op[d].plan) \in Seq(PlanStep)
  <2>1. op[d].plan \in Seq(PlanStep) BY <1>7 DEF WriteState
  <2> QED BY <2>1, TailFacts
<1>10. /\ mine \in WriteState /\ mine.cmd = op[d].cmd /\ mine.plan = Tail(op[d].plan) /\ mine.built = im
       /\ mine.foreign = taken /\ mine.kept = k /\ mine.spoiled = op[d].spoiled
  BY <1>3, <1>7, <1>8, <1>9 DEF WriteState
<1>11. Takes(d, mine, Services \ taken)
  <2>1. k = AllPods \ (node[d].due \cup UNION {Rolled(d, s) : s \in Services}) BY <1>5, <1>6
  <2> QED BY <1>2, <1>8, <2>1
<1>12. op'[d] = mine BY <1>10, <1>11, Overtaken
<1>13. \A p \in AllPods : node'[d].pod[p] # NoImage \/ p \in node'[d].due
  <2> SUFFICES ASSUME NEW p \in AllPods PROVE node'[d].pod[p] # NoImage \/ p \in node'[d].due OBVIOUS
  <2>1. p[1] \in Services /\ p \in Pods(p[1]) BY PodFacts
  <2>2. node[d].pod[p] # NoImage \/ p \in Rolled(d, p[1]) BY <2>1, RolledFacts
  <2> QED BY <1>5, <2>1, <2>2
<1>18. Underway(d)'
  <2>1. PICK n \in Nat : n = 2 /\ n = Len(op[d].plan) /\ n \notin {1, 3, 4, 5, 6} /\ ~(n >= 3) OBVIOUS
  <2>2. files[d] = files'[d] /\ node'[d].exists = node[d].exists BY <1>5
  <2> QED BY <1>1, <1>10, <1>12, <1>13, <2>1, <2>2, SetupGoesOn
<1>19. Tagged(d)'
  <2>1. \A s \in Services : OwnBuild(d, s)' => s \notin taken BY <1>10, <1>12 DEF OwnBuild
  <2> QED BY <1>5, <1>10, <1>12, <2>1 DEF Tagged
<1>20. Archive(d)'
  <2>1. ~Loading(d)' BY <1>1, <1>10, <1>12, SetupTail
  <2>2. ~HasBuilt(d)' BY <1>10, <1>12 DEF HasBuilt
  <2> QED BY <2>1, <2>2 DEF Archive
<1>21. Loaded(d)'
  <2>1. \A s \in Services : \A p \in Pods(s) : p \in node'[d].due \/ p \in op'[d].kept BY <1>6, <1>10, <1>12, PodFacts
  <2>2. \A s \in Services : OwnBuild(d, s)' => s \notin taken BY <1>10, <1>12 DEF OwnBuild
  <2>3. \A s \in Services : OwnBuild(d, s)' => node'[d].image[s] = op'[d].built[s] BY <1>5, <1>10, <1>12, <2>2
  <2> QED BY <2>1, <2>3 DEF Loaded
<1>22. Services \ taken \in SUBSET Services OBVIOUS
<1> QED BY <1>5, <1>10, <1>11, <1>18, <1>19, <1>20, <1>21, <1>22, OwnTake

\* A deploy and a teardown build nothing.
LEMMA BareStepKeeps ==
    ASSUME ClusterInv, NEW d \in Devloops, op[d].plan # <<>>, op[d].cmd \in {"deploy", "teardown"}, NextStep(d), BesideWrites,
           UNCHANGED <<store, files, tar>>, node' \in [Devloops -> NodeState],
           \A e \in Devloops \ {d} : node'[e] = node[e]
    PROVE  ClusterInv'
<1>1. ClusterTyped /\ Underway(d) /\ Tagged(d) /\ Archive(d) BY DEF ClusterInv, InStep
<1>2. /\ op'[d].cmd = op[d].cmd /\ op'[d].built = op[d].built /\ op'[d].plan = Tail(op[d].plan)
  BY <1>1, NextStepFacts
<1>3. PICK pl \in Seq(PlanStep) : pl = op[d].plan BY <1>1 DEF ClusterTyped, WriteState
<1>4. PICK tl \in Seq(PlanStep), n \in Nat : tl = Tail(pl) /\ n = Len(pl) BY <1>3, TailFacts
<1>5. Len(tl) = n - 1 /\ n > 0 /\ \A i \in 1..Len(tl) : i + 1 \in 1..Len(pl) /\ tl[i] = pl[i + 1] BY <1>3, <1>4, TailFacts
<1>6. op[d].built = NoneBuilt BY <1>1 DEF Underway
<1>7. op'[d].plan = tl BY <1>2, <1>3, <1>4
<1>8. \/ op[d].cmd = "deploy" /\ tl = <<>>
      \/ op[d].cmd = "teardown" /\ (tl = <<>> \/ (Len(tl) = 1 /\ tl[1] = <<"deallocate">>))
  <2>1. CASE op[d].cmd = "deploy"
    <3>1. n <= 1 BY <2>1, <1>1, <1>3, <1>4 DEF Underway
    <3>2. Len(tl) = 0 BY <3>1, <1>5
    <3> QED BY <2>1, <3>2, <1>4
  <2>2. CASE op[d].cmd = "teardown"
    <3>1. n <= 2 /\ (n = 2 => pl[2] = <<"deallocate">>) BY <2>2, <1>1, <1>3, <1>4 DEF Underway
    <3>2. CASE n = 2
      <4>1. Len(tl) = 1 /\ 1 \in 1..Len(tl) /\ 1 + 1 = 2 BY <3>2, <1>5
      <4>2. tl[1] = pl[2] BY <4>1, <1>5
      <4> QED BY <2>2, <3>1, <3>2, <4>1, <4>2
    <3>3. CASE n = 1
      <4>1. Len(tl) = 0 BY <3>3, <1>5
      <4> QED BY <2>2, <4>1, <1>4
    <3> QED BY <3>1, <3>2, <3>3, <1>5
  <2> QED BY <2>1, <2>2
<1>9. Underway(d)'
  <2>1. NoneBuilt' = NoneBuilt BY DEF NoneBuilt
  <2>2. CASE tl = <<>>
    <3>1. op'[d].plan = <<>> /\ Len(op'[d].plan) = 0 BY <2>2, <1>7
    <3> QED BY <3>1, <2>1, <1>2, <1>6 DEF Underway
  <2>3. CASE op[d].cmd = "teardown" /\ Len(tl) = 1 /\ tl[1] = <<"deallocate">>
    <3>1. Len(op'[d].plan) = 1 /\ op'[d].plan[1] = <<"deallocate">> /\ 1 <= 2 /\ ~(1 = 2) BY <2>3, <1>7
    <3>2. op'[d].cmd = "teardown" /\ op'[d].built = NoneBuilt' BY <2>1, <2>3, <1>2, <1>6
    <3> QED BY <3>1, <3>2 DEF Underway
  <2> QED BY <1>8, <2>2, <2>3
<1>10. \A s \in Services : ~OwnBuild(d, s)' BY <1>2, <1>6, NoWriteFacts DEF OwnBuild
<1>11. ~HasBuilt(d)' BY <1>2 DEF HasBuilt
<1>12. ~Loading(d)' BY <1>7, <1>8 DEF Loading
<1>13. Tagged(d)' /\ Loaded(d)' BY <1>10 DEF Tagged, Loaded
<1>14. Archive(d)' BY <1>11, <1>12 DEF Archive
<1>15. files' \in [Devloops -> SUBSET RuntimeFile] /\ tar' \in [Devloops -> Revisions \cup {Partial}] BY <1>1 DEF ClusterTyped
<1> QED BY <1>9, <1>13, <1>14, <1>15, OwnStep

LEMMA ApplyKeeps ==
    ASSUME ClusterInv, NEW d \in Devloops, NEW s \in Services, op[d].plan # <<>>, op[d].cmd = "deploy", ApplyManifests(d, s), NextStep(d), BesideWrites
    PROVE  ClusterInv'
<1>1. ClusterTyped BY DEF ClusterInv
<1>2. PICK m : m = [node[d] EXCEPT !.due = @ \cup Rolled(d, s)] OBVIOUS
<1>3. node[d] \in NodeState BY <1>1 DEF ClusterTyped
<1>4. Rolled(d, s) \subseteq AllPods BY RolledFacts
<1>5. m \in NodeState BY <1>2, <1>3, <1>4 DEF NodeState
<1>6. node' = [node EXCEPT ![d] = m] BY <1>2 DEF ApplyManifests
<1>7. node' \in [Devloops -> NodeState] /\ \A e \in Devloops \ {d} : node'[e] = node[e] BY <1>1, <1>5, <1>6, NodeUpdate
<1> QED BY <1>7, BareStepKeeps DEF ApplyManifests

LEMMA MissingTyped == Missing \in NodeState
  BY DEF Missing, NodeState, NoneBuilt, Revisions

LEMMA DeleteKeeps ==
    ASSUME ClusterInv, NEW d \in Devloops, op[d].plan # <<>>, op[d].cmd = "teardown", DeleteCluster(d), NextStep(d), BesideWrites
    PROVE  ClusterInv'
<1>1. ClusterTyped BY DEF ClusterInv
<1>2. node' = [node EXCEPT ![d] = Missing] BY DEF DeleteCluster
<1>3. node' \in [Devloops -> NodeState] /\ \A e \in Devloops \ {d} : node'[e] = node[e] BY <1>1, <1>2, MissingTyped, NodeUpdate
<1> QED BY <1>3, BareStepKeeps DEF DeleteCluster

LEMMA DeallocateKeeps ==
    ASSUME ClusterInv, NEW d \in Devloops, op[d].plan # <<>>, op[d].cmd = "teardown", NextStep(d), BesideWrites,
           UNCHANGED <<store, node, files, tar>>
    PROVE  ClusterInv'
<1>1. node' \in [Devloops -> NodeState] BY DEF ClusterInv, ClusterTyped
<1> QED BY <1>1, BareStepKeeps

LEMMA SuccessKeeps ==
    ASSUME ClusterAssumption, ClusterInv, NEW d \in Devloops, WriteStepSucceeds(d) PROVE ClusterInv'
<1>1. ClusterTyped /\ Underway(d) BY DEF ClusterInv, InStep
<1>2. op[d].plan # <<>> /\ BesideWrites BY DEF WriteStepSucceeds, BesideWrites
<1>3. \/ op[d].cmd \in {"rebuild", "rebuild-all"} /\ BuildStep(op[d].plan[1])
      \/ op[d].cmd = "setup" /\ \E k \in 1..6 : Len(op[d].plan) = 7 - k /\ op[d].plan[1] = SetupSteps[k]
      \/ op[d].cmd = "deploy" /\ \E s \in Services : op[d].plan[1] = <<"apply", s>>
      \/ op[d].cmd = "teardown" /\ Len(op[d].plan) = 2 /\ op[d].plan[1] = <<"delete">>
      \/ op[d].cmd = "teardown" /\ Len(op[d].plan) = 1 /\ op[d].plan[1] = <<"deallocate">>
  BY <1>1, <1>2, NextOfPlan
<1>4. PICK x : x = op[d].plan[1] OBVIOUS
<1>a. PICK taken \in SUBSET OthersTags(d) :
        /\ DoStep(d, x, taken) /\ (x[1] = "load" => RemoveArchive(d)) /\ Proceed(d, x, taken)
  BY <1>4 DEF WriteStepSucceeds
<1>5. DoStep(d, x, taken) BY <1>a
<1>b. x[1] \notin {"build", "script"} => NextStep(d) BY <1>a DEF Proceed
<1>c. taken \in SUBSET Services BY DEF OthersTags
<1>6. CASE op[d].cmd \in {"rebuild", "rebuild-all"} /\ BuildStep(op[d].plan[1])
  <2>1. PICK s \in Services : x \in {<<"build", s>>, <<"save", s>>, <<"load", s>>} \/ \E p \in Pods(s) : x = <<"restart", s, p[2]>>
    BY <1>4, <1>6 DEF BuildStep
  <2>2. CASE x = <<"build", s>>
    <3>1. x[1] = "build" /\ x[2] = s BY <2>2
    <3>2. BuildImage(d, s) BY <1>5, <3>1 DEF DoStep
    <3>3. Takes(d, [op[d] EXCEPT !.plan = Tail(@), !.built[s] = Revision(d, s), !.foreign = @ \ {s}], {s}) BY <1>a, <3>1 DEF Proceed
    <3> QED BY <1>2, <1>4, <1>6, <2>2, <3>2, <3>3, BuildKeeps
  <2>3. CASE x = <<"save", s>>
    <3>1. x[1] = "save" /\ x[2] = s BY <2>3
    <3>2. SaveImage(d, s) BY <1>5, <3>1 DEF DoStep
    <3>3. NextStep(d) BY <1>b, <3>1
    <3> QED BY <1>2, <1>4, <1>6, <2>3, <3>2, <3>3, SaveKeeps
  <2>4. CASE x = <<"load", s>>
    <3>1. x[1] = "load" /\ x[2] = s BY <2>4
    <3>2. LoadImage(d, s) BY <1>5, <3>1 DEF DoStep
    <3>3. NextStep(d) /\ RemoveArchive(d) BY <1>a, <1>b, <3>1
    <3> QED BY <1>2, <1>4, <1>6, <2>4, <3>2, <3>3, LoadKeeps
  <2>5. ASSUME NEW p \in Pods(s), x = <<"restart", s, p[2]>> PROVE ClusterInv'
    <3>1. x[1] = "restart" /\ x[2] = s /\ x[3] = p[2] BY <2>5
    <3>2. RestartDeployment(d, s, p[2]) BY <1>5, <3>1 DEF DoStep
    <3>3. NextStep(d) BY <1>b, <3>1
    <3> QED BY <1>2, <1>4, <1>6, <2>5, <3>2, <3>3, RestartKeeps
  <2> QED BY <2>1, <2>2, <2>3, <2>4, <2>5
<1>7. ASSUME op[d].cmd = "setup", NEW k \in 1..6, Len(op[d].plan) = 7 - k, x = SetupSteps[k] PROVE ClusterInv'
  <2>1. \A f \in RuntimeFile : x = <<"write", f>> =>
          files' = [files EXCEPT ![d] = @ \cup {f}] /\ NextStep(d) /\ UNCHANGED <<store, node, tar>>
    <3> SUFFICES ASSUME NEW f \in RuntimeFile, x = <<"write", f>>
                 PROVE  files' = [files EXCEPT ![d] = @ \cup {f}] /\ NextStep(d) /\ UNCHANGED <<store, node, tar>>
      OBVIOUS
    <3>1. x[1] = "write" /\ x[2] = f OBVIOUS
    <3>2. WriteFile(d, f) BY <1>5, <3>1 DEF DoStep
    <3>3. NextStep(d) BY <1>b, <3>1
    <3> QED BY <3>2, <3>3 DEF WriteFile
  <2>2. {"kind-config", "ports.json", "port-map.env", "kubeconfig"} = RuntimeFile BY DEF RuntimeFile
  <2>3. CASE k = 1
    <3>1. x = <<"write", "kind-config">> BY <1>7, <2>3 DEF SetupSteps
    <3> QED BY <1>2, <1>4, <1>7, <2>1, <2>2, <2>3, <3>1, SetupFilesKeep
  <2>4. CASE k = 2
    <3>1. x = <<"write", "ports.json">> BY <1>7, <2>4 DEF SetupSteps
    <3> QED BY <1>2, <1>4, <1>7, <2>1, <2>2, <2>4, <3>1, SetupFilesKeep
  <2>5. CASE k = 3
    <3>1. x = <<"create">> BY <1>7, <2>5 DEF SetupSteps
    <3>2. x[1] = "create" BY <3>1
    <3>3. CreateCluster(d) BY <1>5, <3>2 DEF DoStep
    <3>4. NextStep(d) BY <1>b, <3>2
    <3> QED BY <1>2, <1>4, <1>7, <2>5, <3>3, <3>4, CreateKeeps
  <2>6. CASE k = 4
    <3>1. x = <<"write", "port-map.env">> BY <1>7, <2>6 DEF SetupSteps
    <3> QED BY <1>2, <1>4, <1>7, <2>1, <2>2, <2>6, <3>1, SetupFilesKeep
  <2>7. CASE k = 5
    <3>1. x = <<"script">> BY <1>7, <2>7 DEF SetupSteps
    <3>2. x[1] = "script" BY <3>1
    <3>3. SetupScript(d, 4, 4, 4, taken) BY <1>5, <3>2 DEF DoStep
    <3>5. Takes(d, [op[d] EXCEPT !.plan = Tail(@), !.built = [s \in Services |-> Revision(d, s)], !.foreign = taken,
                                 !.kept = AllPods \ (node[d].due \cup UNION {Rolled(d, s) : s \in Services})], Services \ taken)
      BY <1>a, <3>2 DEF Proceed
    <3>4. Len(op[d].plan) = 2 BY <1>7, <2>7
    <3> QED BY <1>2, <1>4, <1>7, <3>1, <3>3, <3>4, <3>5, <1>c, ScriptKeeps
  <2>8. CASE k = 6
    <3>1. x = <<"kubeconfig">> BY <1>7, <2>8 DEF SetupSteps
    <3>2. x[1] = "kubeconfig" BY <3>1
    <3>3. GenerateContainerKubeconfig(d) BY <1>5, <3>2 DEF DoStep
    <3>4. NextStep(d) BY <1>b, <3>2
    <3> QED BY <1>2, <1>4, <1>7, <2>2, <2>8, <3>3, <3>4, SetupFilesKeep DEF GenerateContainerKubeconfig
  <2> QED BY <2>3, <2>4, <2>5, <2>6, <2>7, <2>8
<1>8. ASSUME op[d].cmd = "deploy", NEW s \in Services, x = <<"apply", s>> PROVE ClusterInv'
  <2>1. x[1] = "apply" /\ x[2] = s BY <1>8
  <2>2. ApplyManifests(d, s) BY <1>5, <2>1 DEF DoStep
  <2>3. NextStep(d) BY <1>b, <2>1
  <2> QED BY <1>2, <1>8, <2>2, <2>3, ApplyKeeps
<1>9. ASSUME op[d].cmd = "teardown", x = <<"delete">> PROVE ClusterInv'
  <2>1. x[1] = "delete" BY <1>9
  <2>2. DeleteCluster(d) BY <1>5, <2>1 DEF DoStep
  <2>3. NextStep(d) BY <1>b, <2>1
  <2> QED BY <1>2, <1>9, <2>2, <2>3, DeleteKeeps
<1>10. ASSUME op[d].cmd = "teardown", x = <<"deallocate">> PROVE ClusterInv'
  <2>1. x[1] = "deallocate" BY <1>10
  <2>2. Deallocate(d) BY <1>5, <2>1 DEF DoStep
  <2>3. NextStep(d) BY <1>b, <2>1
  <2> QED BY <1>2, <1>10, <2>2, <2>3, DeallocateKeeps DEF Deallocate
<1> QED BY <1>3, <1>4, <1>6, <1>7, <1>8, <1>9, <1>10

LEMMA AnswerFacts ==
    ASSUME ClusterInv, NEW d \in Devloops, NEW outcome \in {"ok", "error"}, Answer(d, outcome)
    PROVE  /\ \A e \in Devloops \ {d} : result'[e] = result[e]
           /\ DOMAIN result' = Devloops /\ \A e \in Devloops : result'[e].outcome \in {"none", "ok", "spoiled", "error", "cancelled"}
           /\ result'[d].cmd = op[d].cmd /\ result'[d].built = op[d].built /\ result'[d].foreign = op[d].foreign
           /\ result'[d].kept = op[d].kept
           /\ outcome = "error" => result'[d].outcome # "ok"
           /\ result'[d].outcome = "ok" => ~op[d].spoiled
<1>1. DOMAIN result = Devloops /\ \A e \in Devloops : result[e].outcome \in {"none", "ok", "spoiled", "error", "cancelled"}
  BY DEF ClusterInv, ClusterTyped
<1>3. PICK w : w = (IF outcome = "error" /\ cancelSet[d] THEN "cancelled"
                    ELSE IF outcome = "ok" /\ op[d].spoiled THEN "spoiled" ELSE outcome) OBVIOUS
<1>4. w \in {"none", "ok", "spoiled", "error", "cancelled"} /\ (outcome = "error" => w # "ok") /\ (w = "ok" => ~op[d].spoiled) BY <1>3
<1>5. PICK a : a = [outcome |-> w, cmd |-> op[d].cmd, built |-> op[d].built, foreign |-> op[d].foreign, kept |-> op[d].kept] OBVIOUS
<1>6. result' = [result EXCEPT ![d] = a] BY <1>3, <1>5 DEF Answer
<1>7. DOMAIN result' = Devloops /\ result'[d] = a /\ \A e \in Devloops \ {d} : result'[e] = result[e] BY <1>1, <1>6
<1>8. /\ result'[d].outcome = w /\ result'[d].cmd = op[d].cmd /\ result'[d].built = op[d].built /\ result'[d].foreign = op[d].foreign
      /\ result'[d].kept = op[d].kept
  BY <1>5, <1>7
<1>9. \A e \in Devloops : result'[e].outcome \in {"none", "ok", "spoiled", "error", "cancelled"} BY <1>1, <1>4, <1>7, <1>8
<1> QED BY <1>4, <1>7, <1>8, <1>9

\* A write that ends: nothing is left to do, and only an ok says anything.
LEMMA EndFacts ==
    ASSUME ClusterInv, NEW d \in Devloops, op' = [op EXCEPT ![d] = NoWrite]
    PROVE  op' \in [Devloops -> WriteState] /\ op'[d] = NoWrite /\ \A e \in Devloops \ {d} : op'[e] = op[e]
<1>1. op \in [Devloops -> WriteState] BY DEF ClusterInv, ClusterTyped
<1> QED BY <1>1, NoWriteFacts

LEMMA NothingUnderway ==
    ASSUME NEW d \in Devloops, op'[d] = NoWrite
    PROVE  Underway(d)' /\ Tagged(d)' /\ Loaded(d)' /\ Archive(d)'
<1>0. NoneBuilt' = NoneBuilt /\ NoWrite' = NoWrite BY DEF NoneBuilt, NoWrite
<1>1. op'[d].cmd = "none" /\ op'[d].plan = <<>> /\ \A s \in Services : op'[d].built[s] = NoImage BY NoWriteFacts
<1>2. Underway(d)' BY <1>0, <1>1 DEF Underway
<1>3. \A s \in Services : ~OwnBuild(d, s)' BY <1>1 DEF OwnBuild
<1>4. Tagged(d)' /\ Loaded(d)' BY <1>3 DEF Tagged, Loaded
<1>5. ~Loading(d)' /\ ~HasBuilt(d)' BY <1>1 DEF Loading, HasBuilt
<1> QED BY <1>2, <1>4, <1>5 DEF Archive

LEMMA EndedBadly ==
    ASSUME NEW d \in Devloops, op'[d] = NoWrite, result'[d].outcome # "ok" PROVE InStep(d)'
<1>1. Underway(d)' /\ Tagged(d)' /\ Loaded(d)' /\ Archive(d)' BY NothingUnderway
<1>2. NoWrite' = NoWrite BY DEF NoWrite, NoneBuilt
<1>3. EndedOk(d)' /\ Probed(d)' /\ Strays(d)' BY <1>2 DEF EndedOk, Probed, Strays
<1> QED BY <1>1, <1>3 DEF InStep

LEMMA WriteEndKeeps ==
    ASSUME ClusterInv, NEW d \in Devloops, WriteEnds(d) PROVE ClusterInv'
<1>1. ClusterTyped /\ Underway(d) /\ Archive(d) /\ Loaded(d) /\ Probed(d) /\ Strays(d) BY DEF ClusterInv, InStep
<1>2. op[d] # NoWrite /\ op[d].plan = <<>> /\ Answer(d, "ok") /\ op' = [op EXCEPT ![d] = NoWrite]
      /\ UNCHANGED <<runtime, sources, store, node, files, tar, cancelSet, writes, probe, orphans, focus>>
  BY DEF WriteEnds, EndWrite
<1>3. /\ op' \in [Devloops -> WriteState] /\ op'[d] = NoWrite /\ \A e \in Devloops \ {d} : op'[e] = op[e] /\ result'[e] = result[e]
      /\ DOMAIN result' = Devloops /\ \A e \in Devloops : result'[e].outcome \in {"none", "ok", "spoiled", "error", "cancelled"}
      /\ result'[d].cmd = op[d].cmd /\ result'[d].built = op[d].built /\ result'[d].foreign = op[d].foreign
      /\ result'[d].kept = op[d].kept /\ (result'[d].outcome = "ok" => ~op[d].spoiled)
  BY <1>2, EndFacts, AnswerFacts
<1>4. ClusterTyped' BY <1>1, <1>2, <1>3 DEF ClusterTyped
<1>5. \A e \in Devloops \ {d} : InStep(e)' BY <1>2, <1>3, OthersKept
<1>6. Underway(d)' /\ Tagged(d)' /\ Loaded(d)' /\ Archive(d)' BY <1>3, NothingUnderway
<1>7. CASE result'[d].outcome # "ok"
  <2>1. InStep(d)' BY <1>3, <1>7, EndedBadly
  <2> QED BY <1>4, <1>5, <2>1 DEF ClusterInv
<1>8. CASE result'[d].outcome = "ok"
  <2>0. ~op[d].spoiled /\ orphans[d] = {} BY <1>1, <1>2, <1>3, <1>8 DEF Strays
  <2>1. \A x : ~Ahead(op[d].plan, 0, x)
    <3>1. Len(op[d].plan) = 0 BY <1>2
    <3> QED BY <3>1 DEF Ahead
  <2>2. ASSUME NEW s \in Services, result'[d].built[s] # NoImage, s \notin result'[d].foreign
        PROVE  /\ node'[d].image[s] = result'[d].built[s]
               /\ \A p \in Pods(s) : p \in node'[d].due \/ node'[d].pod[p] = node'[d].image[s] \/ p \in result'[d].kept
    <3>1. OwnBuild(d, s) BY <1>3, <2>0, <2>2 DEF OwnBuild
    <3>2. /\ node[d].image[s] = op[d].built[s]
          /\ \A p \in Pods(s) : p \in node[d].due \/ node[d].pod[p] = node[d].image[s] \/ p \in op[d].kept
      BY <1>1, <2>1, <3>1 DEF Loaded
    <3> QED BY <1>2, <1>3, <3>2
  <2>3. ASSUME result'[d].cmd = "setup"
        PROVE  /\ node'[d].exists /\ files'[d] = RuntimeFile
               /\ \A p \in AllPods : node'[d].pod[p] # NoImage \/ p \in node'[d].due
    <3>1. op[d].cmd = "setup" /\ Len(op[d].plan) = 0 BY <1>2, <1>3, <2>3
    <3>2. PICK n \in Nat : n = 0 /\ n = Len(op[d].plan) /\ n <= 5 /\ n <= 4 /\ n <= 3 /\ n <= 2 /\ n <= 1 BY <3>1
    <3>3. /\ "kind-config" \in files[d] /\ "ports.json" \in files[d] /\ node[d].exists /\ "port-map.env" \in files[d]
          /\ "kubeconfig" \in files[d] /\ \A p \in AllPods : node[d].pod[p] # NoImage \/ p \in node[d].due
      BY <1>1, <2>0, <3>1, <3>2 DEF Underway
    <3>4. files[d] \in SUBSET RuntimeFile BY <1>1 DEF ClusterTyped
    <3>5. files[d] = RuntimeFile BY <3>3, <3>4 DEF RuntimeFile
    <3> QED BY <1>2, <3>3, <3>5
  <2>4. ASSUME result'[d].cmd \in {"rebuild", "rebuild-all"}, \E s \in Services : result'[d].built[s] # NoImage PROVE tar'[d] = NoImage
    <3>1. HasBuilt(d) BY <1>3, <2>0, <2>4 DEF HasBuilt
    <3>2. ~ToLoad(d) BY <2>1 DEF ToLoad
    <3> QED BY <1>1, <1>2, <3>1, <3>2 DEF Archive
  <2>5. EndedOk(d)' BY <2>2, <2>3, <2>4 DEF EndedOk
  <2>6. Probed(d)'
    <3>1. probe'[d] = probe[d] /\ NoWrite' = NoWrite BY <1>2 DEF NoWrite, NoneBuilt
    <3>2. ~(probe[d].calm /\ ~probe[d].busy) BY <1>1, <1>2 DEF Probed
    <3> QED BY <3>1, <3>2 DEF Probed
  <2>7. Strays(d)' BY <1>2, <2>0 DEF Strays
  <2>8. InStep(d)' BY <1>6, <2>5, <2>6, <2>7 DEF InStep
  <2> QED BY <1>4, <1>5, <2>8 DEF ClusterInv
<1> QED BY <1>7, <1>8

\* What is left of a command that was cut off.
LEMMA CutOffTyped ==
    ASSUME ClusterTyped, NEW d \in Devloops, Underway(d), op[d].plan # <<>>
    PROVE  op[d].plan[1] \in LeftOver /\ CutOff(d, op[d].plan[1]) \subseteq Revisions \cup {Partial}
<1>1. PICK pl \in Seq(PlanStep) : pl = op[d].plan BY DEF ClusterTyped, WriteState
<1>2. PICK x : x = pl[1] OBVIOUS
<1>3. x \in PlanStep BY <1>1, <1>2
<1>4. x[1] = "save" => x[2] \in Services BY <1>3 DEF PlanStep
<1>5. x[1] = "save" => store[x[2]] \in Revisions BY <1>4 DEF ClusterTyped
<1>6. tar[d] \in Revisions \cup {Partial} BY DEF ClusterTyped
<1>7. CutOff(d, x) \subseteq Revisions \cup {Partial} BY <1>5, <1>6 DEF CutOff
<1>8. ASSUME x[1] = "restart" PROVE <<x[2], x[3]>> \in AllPods
  <2>1. \A k \in 1..6 : x # SetupSteps[k] BY <1>8 DEF SetupSteps
  <2>2. (\A s \in Services : x # <<"apply", s>>) /\ x # <<"delete">> /\ x # <<"deallocate">> BY <1>8
  <2>3. BuildStep(x) BY <1>1, <1>2, <2>1, <2>2, NextOfPlan
  <2>4. PICK s \in Services : \E p \in Pods(s) : x = <<"restart", s, p[2]>> BY <1>8, <2>3 DEF BuildStep
  <2>a. PICK p \in Pods(s) : x = <<"restart", s, p[2]>> BY <2>4
  <2>5. p = <<s, p[2]>> /\ p \in AllPods BY PodFacts
  <2>6. x[2] = s /\ x[3] = p[2] BY <2>a
  <2> QED BY <2>5, <2>6
<1> QED BY <1>1, <1>2, <1>3, <1>7, <1>8 DEF LeftOver

\* The archive of a helper, and those of the others.
LEMMA TarUpdate ==
    ASSUME ClusterTyped, NEW d \in Devloops, NEW a \in Revisions \cup {Partial}, tar' = [tar EXCEPT ![d] = a]
    PROVE  tar' \in [Devloops -> Revisions \cup {Partial}] /\ \A e \in Devloops \ {d} : tar'[e] = tar[e]
  BY DEF ClusterTyped

LEMMA FailKeeps ==
    ASSUME ClusterInv, NEW d \in Devloops, WriteStepFails(d) PROVE ClusterInv'
<1>1. ClusterTyped /\ Underway(d) BY DEF ClusterInv, InStep
<1>2. PICK x : x = op[d].plan[1] OBVIOUS
<1>3. /\ op[d].plan # <<>>
      /\ IF x[1] = "deallocate" \/ (x[1] = "delete" /\ ~cancelSet[d]) THEN NextStep(d) /\ UNCHANGED result ELSE EndWrite(d, "error")
      /\ IF x[1] = "load" THEN RemoveArchive(d) ELSE \E a \in CutOff(d, x) : tar' = [tar EXCEPT ![d] = a]
      /\ UNCHANGED <<runtime, sources, store, node, files, orphans, cancelSet, writes, probe, focus>>
  BY <1>2 DEF WriteStepFails
<1>5. CASE x[1] = "deallocate" \/ (x[1] = "delete" /\ ~cancelSet[d])
  <2>1. NextStep(d) /\ UNCHANGED <<runtime, sources, store, node, files, orphans, cancelSet, writes, probe, focus, result>> BY <1>3, <1>5
  <2>2. x[1] # "load" /\ x[1] # "save" BY <1>5
  <2>3. UNCHANGED tar
    <3>1. tar' = [tar EXCEPT ![d] = tar[d]] BY <1>3, <2>2 DEF CutOff
    <3> QED BY <1>1, <3>1 DEF ClusterTyped
  <2>4. op[d].cmd = "teardown"
    <3>1. ~BuildStep(x) BY <1>5 DEF BuildStep
    <3>2. \A k \in 1..6 : x # SetupSteps[k] BY <1>5 DEF SetupSteps
    <3>3. \A s \in Services : x # <<"apply", s>> BY <1>5
    <3> QED BY <1>1, <1>2, <1>3, <3>1, <3>2, <3>3, NextOfPlan
  <2> QED BY <1>3, <2>1, <2>3, <2>4, DeallocateKeeps DEF BesideWrites
<1>6. CASE ~(x[1] = "deallocate" \/ (x[1] = "delete" /\ ~cancelSet[d]))
  <2>1. Answer(d, "error") /\ op' = [op EXCEPT ![d] = NoWrite] BY <1>3, <1>6 DEF EndWrite
  <2>2. /\ op' \in [Devloops -> WriteState] /\ op'[d] = NoWrite /\ \A e \in Devloops \ {d} : op'[e] = op[e] /\ result'[e] = result[e]
        /\ DOMAIN result' = Devloops /\ \A e \in Devloops : result'[e].outcome \in {"none", "ok", "spoiled", "error", "cancelled"}
        /\ result'[d].outcome # "ok"
    BY <2>1, EndFacts, AnswerFacts
  <2>3. PICK a \in Revisions \cup {Partial} : tar' = [tar EXCEPT ![d] = a]
    <3>1. CASE x[1] = "load" BY <1>3, <3>1 DEF RemoveArchive, Revisions
    <3>2. CASE x[1] # "load" BY <1>1, <1>2, <1>3, <3>2, CutOffTyped
    <3> QED BY <3>1, <3>2
  <2>4. tar' \in [Devloops -> Revisions \cup {Partial}] /\ \A e \in Devloops \ {d} : tar'[e] = tar[e] BY <1>1, <2>3, TarUpdate
  <2>5. ClusterTyped' BY <1>1, <1>3, <2>2, <2>4 DEF ClusterTyped
  <2>6. \A e \in Devloops \ {d} : InStep(e)' BY <1>3, <2>2, <2>4, OthersKept
  <2>7. InStep(d)' BY <2>2, EndedBadly
  <2> QED BY <2>5, <2>6, <2>7 DEF ClusterInv
<1> QED BY <1>5, <1>6

\* setup.sh stops on its way: what it has built is built, and the write has failed.
LEMMA ScriptFailKeeps ==
    ASSUME ClusterInv, NEW d \in Devloops, NEW b, NEW l, NEW taken, ScriptFails(d, b, l, taken) PROVE ClusterInv'
<1>1. ClusterTyped BY DEF ClusterInv
<1>2. /\ SetupScript(d, b, l, b - 1, taken) /\ Answer(d, "error") /\ Takes(d, NoWrite, Upto(b) \ taken)
      /\ UNCHANGED <<runtime, sources, orphans, cancelSet, writes, probe, focus>>
  BY DEF ScriptFails, ScriptStops
<1>3. /\ store' \in [Services -> Revisions] /\ node' \in [Devloops -> NodeState]
      /\ \A s \in Services : s \notin Upto(b) \ taken => store'[s] = store[s]
      /\ \A e \in Devloops \ {d} : node'[e] = node[e]
      /\ UNCHANGED <<files, tar>>
  BY <1>1, <1>2, ScriptFacts
<1>4. NoWrite \in WriteState /\ Upto(b) \ taken \in SUBSET Services BY NoWriteFacts, UptoFacts
<1>5. op' \in [Devloops -> WriteState] /\ op'[d] = NoWrite BY <1>2, <1>4, Overtaken
<1>6. /\ \A e \in Devloops \ {d} : result'[e] = result[e]
      /\ DOMAIN result' = Devloops /\ \A e \in Devloops : result'[e].outcome \in {"none", "ok", "spoiled", "error", "cancelled"}
      /\ result'[d].outcome # "ok"
  BY <1>2, AnswerFacts
<1>7. ClusterTyped' BY <1>1, <1>2, <1>3, <1>5, <1>6 DEF ClusterTyped
<1>8. \A e \in Devloops \ {d} : InStep(e)' BY <1>2, <1>3, <1>4, <1>6, OthersOvertaken
<1>9. InStep(d)' BY <1>5, <1>6, EndedBadly
<1> QED BY <1>7, <1>8, <1>9 DEF ClusterInv

\* A helper exits: its write is over, and its command may be left.
LEMMA ExitKeeps ==
    ASSUME ClusterInv, NEW d \in Devloops, HelperExits(d) PROVE ClusterInv'
<1>1. ClusterTyped /\ Underway(d) BY DEF ClusterInv, InStep
<1>2. /\ Answer(d, "error") /\ op' = [op EXCEPT ![d] = NoWrite]
      /\ probe' = [probe EXCEPT ![d].at = "idle", ![d].calm = FALSE]
      /\ UNCHANGED <<runtime, sources, store, node, files, cancelSet, writes, focus>>
  BY DEF HelperExits, EndWrite
<1>3. /\ op' \in [Devloops -> WriteState] /\ op'[d] = NoWrite /\ \A e \in Devloops \ {d} : op'[e] = op[e] /\ result'[e] = result[e]
      /\ DOMAIN result' = Devloops /\ \A e \in Devloops : result'[e].outcome \in {"none", "ok", "spoiled", "error", "cancelled"}
      /\ result'[d].outcome # "ok"
  BY <1>2, EndFacts, AnswerFacts
<1>4. probe' \in [Devloops -> StatusState] /\ \A e \in Devloops \ {d} : probe'[e] = probe[e]
  <2>1. probe \in [Devloops -> StatusState] /\ probe[d] \in StatusState BY <1>1 DEF ClusterTyped
  <2>2. PICK b : b = [probe[d] EXCEPT !.at = "idle", !.calm = FALSE] OBVIOUS
  <2>3. b \in StatusState BY <2>1, <2>2 DEF StatusState
  <2>4. probe' = [probe EXCEPT ![d] = b] BY <1>2, <2>1, <2>2
  <2> QED BY <2>1, <2>3, <2>4
<1>5. /\ orphans' \in [Devloops -> SUBSET LeftOver] /\ \A e \in Devloops \ {d} : orphans'[e] = orphans[e]
      /\ tar' \in [Devloops -> Revisions \cup {Partial}] /\ \A e \in Devloops \ {d} : tar'[e] = tar[e]
  <2>0. orphans \in [Devloops -> SUBSET LeftOver] /\ tar \in [Devloops -> Revisions \cup {Partial}] BY <1>1 DEF ClusterTyped
  <2>1. PICK x : x = op[d].plan[1] OBVIOUS
  <2>2. \/ UNCHANGED <<orphans, tar>>
        \/ op[d].plan # <<>> /\ orphans' = [orphans EXCEPT ![d] = @ \cup {x}] /\ UNCHANGED tar
        \/ op[d].plan # <<>> /\ UNCHANGED orphans /\ \E a \in CutOff(d, x) : tar' = [tar EXCEPT ![d] = a]
    BY <2>1 DEF HelperExits
  <2>3. CASE UNCHANGED <<orphans, tar>> BY <2>0, <2>3
  <2>4. CASE op[d].plan # <<>> /\ orphans' = [orphans EXCEPT ![d] = @ \cup {x}] /\ UNCHANGED tar
    <3>1. x \in LeftOver BY <1>1, <2>1, <2>4, CutOffTyped
    <3>2. PICK o \in SUBSET LeftOver : o = orphans[d] \cup {x} BY <2>0, <3>1
    <3>3. orphans' = [orphans EXCEPT ![d] = o] BY <2>4, <3>2
    <3> QED BY <2>0, <2>4, <3>3
  <2>5. CASE op[d].plan # <<>> /\ UNCHANGED orphans /\ \E a \in CutOff(d, x) : tar' = [tar EXCEPT ![d] = a]
    <3>1. PICK a \in Revisions \cup {Partial} : tar' = [tar EXCEPT ![d] = a] BY <1>1, <2>1, <2>5, CutOffTyped
    <3>2. tar' \in [Devloops -> Revisions \cup {Partial}] /\ \A e \in Devloops \ {d} : tar'[e] = tar[e] BY <1>1, <3>1, TarUpdate
    <3> QED BY <2>0, <2>5, <3>2
  <2> QED BY <2>2, <2>3, <2>4, <2>5
<1>6. ClusterTyped' BY <1>1, <1>2, <1>3, <1>4, <1>5 DEF ClusterTyped
<1>7. \A e \in Devloops \ {d} : InStep(e)' BY <1>2, <1>3, <1>4, <1>5, OthersKept
<1>8. InStep(d)' BY <1>3, EndedBadly
<1> QED BY <1>6, <1>7, <1>8 DEF ClusterInv

\* What a command changes, whoever still waits for it.
StepTags(x) == CASE x[1] = "build" -> {x[2]} [] x[1] = "script" -> Services [] OTHER -> {}
LEMMA StepEffect ==
    ASSUME ClusterTyped, NEW d \in Devloops, NEW x \in LeftOver, DoStep(d, x, {}), x[1] = "load" => UNCHANGED tar
    PROVE  /\ StepTags(x) \in SUBSET Services
           /\ store' \in [Services -> Revisions] /\ \A s \in Services \ StepTags(x) : store'[s] = store[s]
           /\ node' \in [Devloops -> NodeState] /\ \A e \in Devloops \ {d} : node'[e] = node[e]
           /\ files' \in [Devloops -> SUBSET RuntimeFile] /\ files[d] \subseteq files'[d] /\ \A e \in Devloops \ {d} : files'[e] = files[e]
           /\ tar' \in [Devloops -> Revisions \cup {Partial}] /\ \A e \in Devloops \ {d} : tar'[e] = tar[e]
<1>1. /\ store \in [Services -> Revisions] /\ node \in [Devloops -> NodeState] /\ files \in [Devloops -> SUBSET RuntimeFile]
      /\ tar \in [Devloops -> Revisions \cup {Partial}] /\ node[d] \in NodeState
  BY DEF ClusterTyped
<1>2. ASSUME x[1] = "build", x[2] \in Services
      PROVE  /\ StepTags(x) = {x[2]} /\ store' \in [Services -> Revisions] /\ (\A s \in Services \ {x[2]} : store'[s] = store[s])
             /\ UNCHANGED <<node, files, tar>>
  <2>1. BuildImage(d, x[2]) BY <1>2 DEF DoStep
  <2>2. Revision(d, x[2]) \in Revisions BY <1>2, RevisionFacts
  <2> QED BY <1>1, <1>2, <2>1, <2>2 DEF BuildImage, StepTags
<1>3. ASSUME x[1] = "save", x[2] \in Services
      PROVE  /\ StepTags(x) = {} /\ UNCHANGED <<store, node, files>>
             /\ tar' \in [Devloops -> Revisions \cup {Partial}] /\ \A e \in Devloops \ {d} : tar'[e] = tar[e]
  <2>1. SaveImage(d, x[2]) BY <1>3 DEF DoStep
  <2>2. store[x[2]] \in Revisions \cup {Partial} BY <1>1, <1>3
  <2>3. tar' = [tar EXCEPT ![d] = store[x[2]]] /\ UNCHANGED <<store, node, files>> BY <2>1 DEF SaveImage
  <2>4. StepTags(x) = {} BY <1>3 DEF StepTags
  <2> QED BY <2>2, <2>3, <2>4, TarUpdate
<1>4. ASSUME x[1] = "load", x[2] \in Services
      PROVE  /\ StepTags(x) = {} /\ UNCHANGED <<store, files, tar>>
             /\ node' \in [Devloops -> NodeState] /\ \A e \in Devloops \ {d} : node'[e] = node[e]
  <2>1. LoadImage(d, x[2]) BY <1>4 DEF DoStep
  <2>2. PICK im : im = (IF runtime = "podman" THEN tar[d] ELSE store[x[2]]) OBVIOUS
  <2>3. im \in Revisions BY <1>1, <1>4, <2>1, <2>2 DEF LoadImage
  <2>4. PICK m : m = [node[d] EXCEPT !.image[x[2]] = im] OBVIOUS
  <2>5. m \in NodeState BY <1>1, <1>4, <2>3, <2>4 DEF NodeState
  <2>6. node' = [node EXCEPT ![d] = m] /\ UNCHANGED <<store, files, tar>> BY <1>4, <2>1, <2>2, <2>4 DEF LoadImage
  <2>7. StepTags(x) = {} BY <1>4 DEF StepTags
  <2> QED BY <2>5, <2>6, <2>7, NodeUpdate
<1>5. ASSUME x[1] \in {"restart", "apply"}, x[2] \in Services, x[1] = "restart" => x[3] \in {0, 1} /\ <<x[2], x[3]>> \in AllPods
      PROVE  /\ StepTags(x) = {} /\ UNCHANGED <<store, files, tar>>
             /\ node' \in [Devloops -> NodeState] /\ \A e \in Devloops \ {d} : node'[e] = node[e]
  <2>1. PICK w \in SUBSET AllPods : node' = [node EXCEPT ![d].due = @ \cup w] /\ UNCHANGED <<store, files, tar>>
    <3>1. CASE x[1] = "restart"
      <4>1. RestartDeployment(d, x[2], x[3]) BY <3>1 DEF DoStep
      <4>2. {<<x[2], x[3]>>} \in SUBSET AllPods BY <1>5, <3>1
      <4> QED BY <4>1, <4>2 DEF RestartDeployment
    <3>2. CASE x[1] = "apply"
      <4>1. ApplyManifests(d, x[2]) BY <3>2 DEF DoStep
      <4>2. Rolled(d, x[2]) \in SUBSET AllPods BY <1>5, RolledFacts
      <4> QED BY <4>1, <4>2 DEF ApplyManifests
    <3> QED BY <1>5, <3>1, <3>2
  <2>2. PICK m : m = [node[d] EXCEPT !.due = @ \cup w] OBVIOUS
  <2>3. m \in NodeState BY <1>1, <2>2 DEF NodeState
  <2>4. node' = [node EXCEPT ![d] = m] BY <2>1, <2>2
  <2>5. StepTags(x) = {} BY <1>5 DEF StepTags
  <2> QED BY <2>1, <2>3, <2>4, <2>5, NodeUpdate
<1>6. ASSUME x[1] = "write", x[2] \in RuntimeFile
      PROVE  /\ StepTags(x) = {} /\ UNCHANGED <<store, node, tar>> /\ files' \in [Devloops -> SUBSET RuntimeFile]
             /\ files[d] \subseteq files'[d] /\ \A e \in Devloops \ {d} : files'[e] = files[e]
  <2>1. WriteFile(d, x[2]) BY <1>6 DEF DoStep
  <2> QED BY <1>1, <1>6, <2>1 DEF WriteFile, StepTags
<1>7. ASSUME x = <<"kubeconfig">>
      PROVE  /\ StepTags(x) = {} /\ UNCHANGED <<store, node, tar>> /\ files' \in [Devloops -> SUBSET RuntimeFile]
             /\ files[d] \subseteq files'[d] /\ \A e \in Devloops \ {d} : files'[e] = files[e]
  <2>0. x[1] = "kubeconfig" BY <1>7
  <2>1. GenerateContainerKubeconfig(d) BY <2>0 DEF DoStep
  <2>2. "kubeconfig" \in RuntimeFile BY DEF RuntimeFile
  <2> QED BY <1>1, <2>0, <2>1, <2>2 DEF GenerateContainerKubeconfig, StepTags
<1>8. ASSUME x = <<"create">> \/ x = <<"delete">>
      PROVE  /\ StepTags(x) = {} /\ UNCHANGED <<store, files, tar>>
             /\ node' \in [Devloops -> NodeState] /\ \A e \in Devloops \ {d} : node'[e] = node[e]
  <2>0. x[1] = "create" \/ x[1] = "delete" BY <1>8
  <2>1. PICK m \in NodeState : node' = [node EXCEPT ![d] = m] /\ UNCHANGED <<store, files, tar>>
    <3>1. CASE x[1] = "create"
      <4>1. CreateCluster(d) BY <3>1 DEF DoStep
      <4>2. PICK m : m = [node[d] EXCEPT !.exists = TRUE] OBVIOUS
      <4>3. m \in NodeState BY <1>1, <4>2 DEF NodeState
      <4>4. node' = [node EXCEPT ![d] = m] /\ UNCHANGED <<store, files, tar>> BY <4>1, <4>2 DEF CreateCluster
      <4> QED BY <4>3, <4>4
    <3>2. CASE x[1] = "delete"
      <4>1. DeleteCluster(d) BY <3>2 DEF DoStep
      <4> QED BY <4>1, MissingTyped DEF DeleteCluster
    <3> QED BY <2>0, <3>1, <3>2
  <2>2. StepTags(x) = {} BY <2>0 DEF StepTags
  <2> QED BY <2>1, <2>2, NodeUpdate
<1>9. ASSUME x = <<"deallocate">> PROVE StepTags(x) = {} /\ UNCHANGED <<store, node, files, tar>>
  <2>0. x[1] = "deallocate" BY <1>9
  <2>1. Deallocate(d) BY <2>0 DEF DoStep
  <2> QED BY <2>0, <2>1 DEF Deallocate, StepTags
<1>10. ASSUME x = <<"script">>
       PROVE  /\ StepTags(x) = Services /\ store' \in [Services -> Revisions] /\ UNCHANGED <<files, tar>>
              /\ node' \in [Devloops -> NodeState] /\ \A e \in Devloops \ {d} : node'[e] = node[e]
  <2>0. x[1] = "script" BY <1>10
  <2>1. SetupScript(d, 4, 4, 4, {}) BY <2>0 DEF DoStep
  <2>2. StepTags(x) = Services BY <2>0 DEF StepTags
  <2> QED BY <2>1, <2>2, ScriptFacts
<1>11. \/ x[1] \in {"build", "save", "load", "apply"} /\ x[2] \in Services
       \/ x[1] = "restart" /\ x[2] \in Services /\ x[3] \in {0, 1}
       \/ x[1] = "write" /\ x[2] \in RuntimeFile
       \/ x \in {<<"create">>, <<"script">>, <<"kubeconfig">>, <<"delete">>, <<"deallocate">>}
  BY DEF PlanStep, LeftOver
<1>12. CASE x[1] = "build" /\ x[2] \in Services BY <1>1, <1>2, <1>12
<1>13. CASE x[1] = "save" /\ x[2] \in Services BY <1>1, <1>3, <1>13
<1>14. CASE x[1] = "load" /\ x[2] \in Services BY <1>1, <1>4, <1>14
<1>15. CASE x[1] = "apply" /\ x[2] \in Services BY <1>1, <1>5, <1>15
<1>16. CASE x[1] = "restart" /\ x[2] \in Services /\ x[3] \in {0, 1}
  <2>1. <<x[2], x[3]>> \in AllPods BY <1>16 DEF LeftOver
  <2> QED BY <1>1, <1>5, <1>16, <2>1
<1>17. CASE x[1] = "write" /\ x[2] \in RuntimeFile BY <1>1, <1>6, <1>17
<1>18. CASE x \in {<<"create">>, <<"delete">>} BY <1>1, <1>8, <1>18
<1>19. CASE x = <<"script">> BY <1>1, <1>10, <1>19
<1>20. CASE x = <<"kubeconfig">> BY <1>1, <1>7, <1>20
<1>21. CASE x = <<"deallocate">> BY <1>1, <1>9, <1>21
<1> QED BY <1>11, <1>12, <1>13, <1>14, <1>15, <1>16, <1>17, <1>18, <1>19, <1>20, <1>21

\* Beside a stray command, nothing is claimed of a helper's write.
LEMMA SpoiledStays ==
    ASSUME NEW d \in Devloops, InStep(d), orphans[d] # {}, orphans'[d] \subseteq orphans[d], op'[d] = op[d], result'[d] = result[d],
           probe'[d] = probe[d], runtime' = runtime, files[d] \subseteq files'[d]
    PROVE  InStep(d)'
<1>1. Underway(d) /\ Probed(d) /\ result[d].outcome # "ok" /\ (op[d] # NoWrite => op[d].spoiled) BY DEF InStep, Strays
<1>2. CASE op[d] = NoWrite BY <1>1, <1>2, EndedBadly
<1>3. CASE op[d] # NoWrite
  <2>1. op[d].spoiled /\ op'[d].spoiled /\ op[d].cmd # "none" BY <1>1, <1>3 DEF Underway
  <2>2. Underway(d)'
    <3>1. PICK b : b = op[d].plan OBVIOUS
    <3>2. op[d].cmd \in {"rebuild", "rebuild-all"} => Rebuilding(b)' BY <1>1, <3>1, StillRebuilding DEF Underway
    <3>3. op'[d].plan = b BY <3>1
    <3>4. op'[d].cmd \in {"rebuild", "rebuild-all"} => Rebuilding(op[d].plan)' BY <3>2, <3>3
    <3>5. NoneBuilt' = NoneBuilt BY DEF NoneBuilt
    <3> QED BY <1>1, <2>1, <3>4, <3>5 DEF Underway
  <2>3. \A s \in Services : ~OwnBuild(d, s)' BY <2>1 DEF OwnBuild
  <2>4. Tagged(d)' /\ Loaded(d)' BY <2>3 DEF Tagged, Loaded
  <2>5. Archive(d)' BY <2>1 DEF Archive, HasBuilt
  <2>6. EndedOk(d)' /\ Probed(d)' /\ Strays(d)'
    <3>1. NoWrite' = NoWrite BY DEF NoWrite, NoneBuilt
    <3> QED BY <1>1, <2>1, <3>1 DEF EndedOk, Probed, Strays
  <2> QED BY <2>2, <2>4, <2>5, <2>6 DEF InStep
<1> QED BY <1>2, <1>3

LEMMA OrphanKeeps ==
    ASSUME ClusterInv, NEW d \in Devloops, NEW x \in orphans[d], OrphanEnds(d, x) PROVE ClusterInv'
<1>1. ClusterTyped /\ InStep(d) BY DEF ClusterInv
<1>2. orphans \in [Devloops -> SUBSET LeftOver] /\ op[d] \in WriteState /\ op \in [Devloops -> WriteState] BY <1>1 DEF ClusterTyped
<1>3. /\ orphans' = [orphans EXCEPT ![d] = @ \ {x}]
      /\ UNCHANGED <<runtime, sources, cancelSet, result, writes, probe, focus>>
  BY DEF OrphanEnds
<1>4. /\ orphans' \in [Devloops -> SUBSET LeftOver] /\ orphans'[d] \subseteq orphans[d]
      /\ \A e \in Devloops \ {d} : orphans'[e] = orphans[e]
  BY <1>2, <1>3
<1>5. PICK tags \in SUBSET Services :
        /\ Takes(d, op[d], tags)
        /\ store' \in [Services -> Revisions] /\ \A s \in Services \ tags : store'[s] = store[s]
        /\ node' \in [Devloops -> NodeState] /\ \A e \in Devloops \ {d} : node'[e] = node[e]
        /\ files' \in [Devloops -> SUBSET RuntimeFile] /\ files[d] \subseteq files'[d] /\ \A e \in Devloops \ {d} : files'[e] = files[e]
        /\ tar' \in [Devloops -> Revisions \cup {Partial}] /\ \A e \in Devloops \ {d} : tar'[e] = tar[e]
  <2>0. /\ store \in [Services -> Revisions] /\ node \in [Devloops -> NodeState] /\ files \in [Devloops -> SUBSET RuntimeFile]
        /\ tar \in [Devloops -> Revisions \cup {Partial}]
    BY <1>1 DEF ClusterTyped
  <2>1. CASE UNCHANGED <<store, node, files, tar, op>>
    <3>1. Takes(d, op[d], {})
      <4>1. ASSUME NEW e \in Devloops PROVE [op[e] EXCEPT !.foreign = @ \cup {s \in {} : op[e].built[s] # NoImage}] = op[e]
        <5>1. op[e] \in WriteState BY <1>2
        <5>2. op[e].foreign \cup {s \in {} : op[e].built[s] # NoImage} = op[e].foreign OBVIOUS
        <5> QED BY <5>1, <5>2 DEF WriteState
      <4>2. op = [e \in Devloops |-> IF e = d THEN op[d]
                                     ELSE [op[e] EXCEPT !.foreign = @ \cup {s \in {} : op[e].built[s] # NoImage}]]
        BY <1>2, <4>1
      <4> QED BY <2>1, <4>2 DEF Takes
    <3> QED BY <2>0, <2>1, <3>1
  <2>2. CASE DoStep(d, x, {}) /\ (x[1] = "load" => UNCHANGED tar) /\ Takes(d, op[d], StepTags(x))
    <3>1. x \in LeftOver BY <1>2
    <3> QED BY <1>1, <2>2, <3>1, StepEffect
  <2>3. ASSUME NEW b \in 1..4, NEW l \in 0..4, ScriptStops(d, b, l, {}), Takes(d, op[d], Upto(b))
        PROVE  \E tags \in SUBSET Services :
                 /\ Takes(d, op[d], tags)
                 /\ store' \in [Services -> Revisions] /\ \A s \in Services \ tags : store'[s] = store[s]
                 /\ node' \in [Devloops -> NodeState] /\ \A e \in Devloops \ {d} : node'[e] = node[e]
                 /\ files' \in [Devloops -> SUBSET RuntimeFile] /\ files[d] \subseteq files'[d] /\ \A e \in Devloops \ {d} : files'[e] = files[e]
                 /\ tar' \in [Devloops -> Revisions \cup {Partial}] /\ \A e \in Devloops \ {d} : tar'[e] = tar[e]
    <3>1. SetupScript(d, b, l, b - 1, {}) BY <2>3 DEF ScriptStops
    <3>2. /\ store' \in [Services -> Revisions] /\ node' \in [Devloops -> NodeState]
          /\ \A s \in Services : s \notin Upto(b) \ {} => store'[s] = store[s]
          /\ \A e \in Devloops \ {d} : node'[e] = node[e] /\ UNCHANGED <<files, tar>>
      BY <1>1, <3>1, ScriptFacts
    <3>3. files' = files /\ tar' = tar BY <3>1 DEF SetupScript
    <3>4. PICK u \in SUBSET Services : u = Upto(b) BY UptoFacts
    <3>5. Takes(d, op[d], u) /\ \A s \in Services \ u : store'[s] = store[s] BY <2>3, <3>2, <3>4
    <3> QED BY <2>0, <3>2, <3>3, <3>5
  <2> QED BY <2>1, <2>2, <2>3 DEF OrphanEnds, StepTags
<1>6. op' \in [Devloops -> WriteState] /\ op'[d] = op[d] BY <1>2, <1>5, Overtaken
<1>7. ClusterTyped' BY <1>1, <1>3, <1>4, <1>5, <1>6 DEF ClusterTyped
<1>8. \A e \in Devloops \ {d} : InStep(e)' BY <1>2, <1>3, <1>4, <1>5, OthersOvertaken
<1>9. InStep(d)' BY <1>1, <1>3, <1>4, <1>5, <1>6, SpoiledStays
<1> QED BY <1>7, <1>8, <1>9 DEF ClusterInv

LEMMA StartKeeps ==
    ASSUME ClusterAssumption, ClusterInv, NEW d \in Devloops, NEW r \in HelperRequest, CanWrite(d), StartWrite(d, r) PROVE ClusterInv'
<1>1. ClusterTyped /\ Strays(d) BY DEF ClusterInv, InStep
<1>2. op[d] = NoWrite BY DEF CanWrite
<1>3. /\ ParseCommand(r) = "ok" /\ r.command \notin {"status", "cancel"}
      /\ UNCHANGED <<runtime, sources, store, node, files, tar, result, orphans, focus>>
      /\ cancelSet' = [cancelSet EXCEPT ![d] = FALSE] /\ probe' = [probe EXCEPT ![d].calm = FALSE]
  BY DEF StartWrite
<1>4. /\ r.command \in {"setup", "rebuild", "rebuild-all", "deploy", "teardown"}
      /\ r.command \in {"rebuild", "deploy"} => r.service \in Services
  <2>1. /\ r.command \in {"setup", "rebuild", "rebuild-all", "deploy", "teardown", "status", "cancel", "other"}
        /\ r.service \in Services \cup {"none", "unknown"} /\ r.control \in BOOLEAN
    BY DEF HelperRequest
  <2>2. r.command # "other"
    <3> SUFFICES ASSUME r.command = "other" PROVE FALSE OBVIOUS
    <3>1. r.control => ParseCommand(r) = "invalid_request" BY DEF ParseCommand
    <3>2. r.command \notin TakesService BY DEF TakesService
    <3>3. ~r.control => ParseCommand(r) = "invalid_command" BY <3>2 DEF ParseCommand
    <3> QED BY <3>1, <3>3, <1>3
  <2>3. ASSUME r.command \in {"rebuild", "deploy"}, r.service \in {"none", "unknown"} PROVE FALSE
    <3>1. CASE r.control
      <4>1. ParseCommand(r) = "invalid_request" BY <3>1, <2>3 DEF ParseCommand
      <4> QED BY <4>1, <1>3
    <3>2. CASE ~r.control
      <4>1. r.command # "other" /\ r.command \in TakesService BY <2>3 DEF TakesService
      <4>2. ParseCommand(r) = (IF r.service = "none" THEN "invalid_request" ELSE IF r.service = "unknown" THEN "invalid_service" ELSE "ok")
        BY <3>2, <4>1 DEF ParseCommand
      <4> QED BY <4>2, <2>3, <1>3
    <3> QED BY <3>1, <3>2
  <2> QED BY <2>1, <2>2, <2>3, <1>3
<1>5. PICK c : c = r.command OBVIOUS
<1>6. PICK pl : pl = StepsOf(r) OBVIOUS
<1>7. /\ pl \in Seq(PlanStep) /\ (pl # <<>> => pl[1][1] # "load")
      /\ c \in {"rebuild", "rebuild-all"} => Rebuilding(pl)
      /\ c = "setup" => pl = SetupSteps
      /\ c = "deploy" => Len(pl) = 1 /\ \E s \in Services : pl[1] = <<"apply", s>>
      /\ c = "teardown" => Len(pl) = 2 /\ pl[1] = <<"delete">> /\ pl[2] = <<"deallocate">>
  <2>0. runtime \in {"podman", "docker"} BY <1>1 DEF ClusterTyped
  <2>1. CASE c = "setup"
    <3>1. pl = SetupSteps BY <2>1, <1>5, <1>6 DEF StepsOf, SetupSteps
    <3>2. {"kind-config", "ports.json", "port-map.env"} \subseteq RuntimeFile BY DEF RuntimeFile
    <3>3. SetupSteps \in Seq(PlanStep)
      <4>1. PICK a1 \in PlanStep, a2 \in PlanStep, a3 \in PlanStep, a4 \in PlanStep, a5 \in PlanStep, a6 \in PlanStep :
              /\ a1 = <<"write", "kind-config">> /\ a2 = <<"write", "ports.json">> /\ a3 = <<"create">>
              /\ a4 = <<"write", "port-map.env">> /\ a5 = <<"script">> /\ a6 = <<"kubeconfig">>
        BY <3>2, StepFacts
      <4>2. SetupSteps = <<a1, a2, a3, a4, a5, a6>> BY <4>1 DEF SetupSteps
      <4> QED BY <4>2
    <3>4. SetupSteps[1][1] # "load" BY DEF SetupSteps
    <3> QED BY <2>1, <3>1, <3>3, <3>4
  <2>2. CASE c = "rebuild"
    <3>1. PICK s \in Services : s = r.service BY <2>2, <1>4, <1>5
    <3>2. pl = RebuildSteps(s) BY <2>2, <1>5, <1>6, <3>1 DEF StepsOf
    <3>3. RebuildSteps(s) \in Seq(PlanStep) /\ Rebuilding(RebuildSteps(s)) /\ RebuildSteps(s)[1] = <<"build", s>> BY <2>0, RebuildIsPlan
    <3> QED BY <2>2, <3>2, <3>3
  <2>3. CASE c = "rebuild-all"
    <3>1. pl = RebuildAllSteps BY <2>3, <1>5, <1>6 DEF StepsOf
    <3>2. /\ pl \in Seq(PlanStep) /\ Rebuilding(pl)
          /\ Len(pl) > 0 => \E s \in Services : pl[1] = <<"build", s>>
      BY <2>0, <3>1, RebuildAllIsPlan
    <3>3. pl # <<>> => Len(pl) > 0 BY <3>2
    <3> QED BY <2>3, <3>2, <3>3
  <2>4. CASE c = "deploy"
    <3>1. PICK s \in Services : s = r.service BY <2>4, <1>4, <1>5
    <3>2. PICK a \in PlanStep : a = <<"apply", s>> BY StepFacts
    <3>3. pl = <<a>> BY <2>4, <1>5, <1>6, <3>1, <3>2 DEF StepsOf
    <3> QED BY <2>4, <3>2, <3>3
  <2>5. CASE c = "teardown"
    <3>1. PICK a \in PlanStep, b \in PlanStep : a = <<"delete">> /\ b = <<"deallocate">> BY StepFacts
    <3>2. pl = <<a, b>> BY <2>5, <1>5, <1>6, <3>1 DEF StepsOf
    <3> QED BY <2>5, <3>1, <3>2
  <2> QED BY <1>4, <1>5, <2>1, <2>2, <2>3, <2>4, <2>5
<1>8. op \in [Devloops -> WriteState] /\ probe \in [Devloops -> StatusState] /\ cancelSet \in [Devloops -> BOOLEAN] BY <1>1 DEF ClusterTyped
<1>b. PICK sp \in BOOLEAN : sp = (orphans[d] # {}) OBVIOUS
<1>9. PICK w : w = [NoWrite EXCEPT !.cmd = c, !.plan = pl, !.spoiled = sp] OBVIOUS
<1>10. w \in WriteState /\ w.cmd = c /\ w.plan = pl /\ w.built = NoneBuilt /\ w.spoiled = sp
  <2>1. c \in Command BY <1>4, <1>5 DEF Command
  <2> QED BY <2>1, <1>7, <1>9, NoWriteFacts DEF WriteState
<1>11. op' = [op EXCEPT ![d] = w] BY <1>5, <1>6, <1>9, <1>b DEF StartWrite
<1>12. op' \in [Devloops -> WriteState] /\ op'[d] = w /\ \A e \in Devloops \ {d} : op'[e] = op[e] BY <1>8, <1>10, <1>11
<1>13. probe' \in [Devloops -> StatusState] /\ probe'[d].calm = FALSE /\ \A e \in Devloops \ {d} : probe'[e] = probe[e]
  <2>1. probe[d] \in StatusState BY <1>8
  <2>2. PICK b : b = [probe[d] EXCEPT !.calm = FALSE] OBVIOUS
  <2>3. b \in StatusState /\ b.calm = FALSE BY <2>1, <2>2 DEF StatusState
  <2>4. probe' = [probe EXCEPT ![d] = b] BY <1>3, <2>2
  <2> QED BY <1>8, <2>3, <2>4
<1>14. ClusterTyped' BY <1>1, <1>3, <1>8, <1>12, <1>13 DEF ClusterTyped
<1>15. \A e \in Devloops \ {d} : InStep(e)' BY <1>3, <1>12, <1>13, OthersKept
<1>16. c # "none" BY <1>4, <1>5
<1>17. Underway(d)'
  <2>1. c \in {"rebuild", "rebuild-all"} => Rebuilding(pl)' BY <1>3, <1>7, StillRebuilding
  <2>2. op'[d].plan = pl /\ op'[d].cmd = c /\ op'[d].built = NoneBuilt /\ NoneBuilt' = NoneBuilt BY <1>10, <1>12 DEF NoneBuilt
  <2>3. op'[d].cmd \in {"rebuild", "rebuild-all"} => Rebuilding(op[d].plan)' BY <2>1, <2>2
  <2>4. CASE c \in {"rebuild", "rebuild-all"} BY <2>2, <2>3, <2>4 DEF Underway
  <2>5. CASE c = "setup"
    <3>1. pl = SetupSteps /\ Len(pl) = 6 BY <2>5, <1>7 DEF SetupSteps
    <3>2. \A i \in 1..6 : 6 - 6 + i = i OBVIOUS
    <3>3. 6 <= 6 /\ ~(6 <= 5) /\ ~(6 <= 4) /\ ~(6 <= 3) /\ ~(6 <= 2) /\ ~(6 <= 1) OBVIOUS
    <3>4. \A i \in 1..6 : pl[i] = SetupSteps[6 - 6 + i] BY <3>1, <3>2
    <3> QED BY <2>2, <2>5, <3>1, <3>3, <3>4 DEF Underway
  <2>6. CASE c = "deploy"
    <3>0. Len(pl) = 1 /\ \E s \in Services : pl[1] = <<"apply", s>> BY <2>6, <1>7, Zenon
    <3>1. Len(op'[d].plan) = 1 /\ (\E s \in Services : op'[d].plan[1] = <<"apply", s>>) /\ 1 <= 1 BY <2>2, <3>0
    <3>2. op'[d].cmd = "deploy" /\ op'[d].built = NoneBuilt' BY <2>2, <2>6
    <3> QED BY <3>1, <3>2 DEF Underway
  <2>7. CASE c = "teardown"
    <3>1. Len(op'[d].plan) = 2 /\ op'[d].plan[1] = <<"delete">> /\ op'[d].plan[2] = <<"deallocate">> /\ 2 <= 2 /\ ~(2 = 1)
      BY <2>2, <2>7, <1>7
    <3>2. op'[d].cmd = "teardown" /\ op'[d].built = NoneBuilt' BY <2>2, <2>7
    <3> QED BY <3>1, <3>2 DEF Underway
  <2> QED BY <2>4, <2>5, <2>6, <2>7, <1>4, <1>5
<1>18. \A s \in Services : ~OwnBuild(d, s)' BY <1>10, <1>12, NoWriteFacts DEF OwnBuild
<1>19. Tagged(d)' /\ Loaded(d)' BY <1>18 DEF Tagged, Loaded
<1>20. Archive(d)'
  <2>2. ~Loading(d)' BY <1>7, <1>10, <1>12 DEF Loading
  <2>3. ~HasBuilt(d)' BY <1>10, <1>12, NoWriteFacts DEF HasBuilt
  <2> QED BY <2>2, <2>3 DEF Archive
<1>21. EndedOk(d)' /\ Probed(d)' /\ Strays(d)'
  <2>1. op'[d] # NoWrite /\ NoWrite' = NoWrite BY <1>10, <1>12, <1>16, NoWriteFacts DEF NoWrite, NoneBuilt
  <2>2. Strays(d)' BY <1>1, <1>3, <1>10, <1>12, <1>b DEF Strays
  <2> QED BY <2>1, <2>2, <1>13 DEF EndedOk, Probed
<1>22. InStep(d)' BY <1>17, <1>19, <1>20, <1>21 DEF InStep
<1> QED BY <1>14, <1>15, <1>22 DEF ClusterInv

LEMMA RollKeeps ==
    ASSUME ClusterInv, NEW d \in Devloops, NEW q \in AllPods, RollPod(d, q) PROVE ClusterInv'
<1>1. ClusterTyped /\ Underway(d) /\ Tagged(d) /\ Archive(d) /\ Loaded(d) /\ EndedOk(d) /\ Probed(d) /\ Strays(d) BY DEF ClusterInv, InStep
<1>2. PICK im : im = node[d].image[q[1]] OBVIOUS
<1>3. /\ im # NoImage /\ node' = [node EXCEPT ![d].pod[q] = im, ![d].due = @ \ {q}]
      /\ UNCHANGED <<runtime, sources, store, files, tar, op, cancelSet, result, writes, probe, orphans, focus>>
  BY <1>2 DEF RollPod
<1>4. node[d] \in NodeState BY <1>1 DEF ClusterTyped
<1>5. q[1] \in Services /\ im \in Revisions
  <2>1. q[1] \in Services BY PodFacts
  <2>2. node[d].image \in [Services -> Revisions] BY <1>4 DEF NodeState
  <2> QED BY <1>2, <2>1, <2>2
<1>6. PICK po : po = [node[d].pod EXCEPT ![q] = im] OBVIOUS
<1>7. PICK m : m = [node[d] EXCEPT !.pod = po, !.due = node[d].due \ {q}] OBVIOUS
<1>8. node[d].pod \in [AllPods -> Revisions] BY <1>4 DEF NodeState
<1>9. po \in [AllPods -> Revisions] /\ po[q] = im /\ \A p \in AllPods \ {q} : po[p] = node[d].pod[p] BY <1>5, <1>6, <1>8
<1>10. m \in NodeState /\ m.image = node[d].image /\ m.exists = node[d].exists /\ m.pod = po /\ m.due = node[d].due \ {q}
  BY <1>4, <1>7, <1>9 DEF NodeState
<1>11. node' = [node EXCEPT ![d] = m] BY <1>1, <1>3, <1>6, <1>7 DEF ClusterTyped
<1>12. node' \in [Devloops -> NodeState] /\ node'[d] = m /\ \A e \in Devloops \ {d} : node'[e] = node[e]
  BY <1>1, <1>10, <1>11, NodeUpdate
<1>13. ClusterTyped' BY <1>1, <1>3, <1>12 DEF ClusterTyped
<1>14. \A e \in Devloops \ {d} : InStep(e)' BY <1>3, <1>12, OthersKept
<1>15. \A p \in AllPods : /\ node[d].pod[p] # NoImage \/ p \in node[d].due => node'[d].pod[p] # NoImage \/ p \in node'[d].due
                          /\ node[d].pod[p] # NoImage => node'[d].pod[p] # NoImage
  BY <1>3, <1>9, <1>10, <1>12
<1>16. ASSUME NEW s \in Services, NEW p \in Pods(s), p \in node[d].due \/ node[d].pod[p] = node[d].image[s]
       PROVE  p \in node'[d].due \/ node'[d].pod[p] = node'[d].image[s]
  <2>1. p \in AllPods /\ p[1] = s BY PodFacts
  <2>2. CASE p = q BY <2>1, <2>2, <1>2, <1>9, <1>10, <1>12
  <2>3. CASE p # q BY <2>1, <2>3, <1>9, <1>10, <1>12, <1>16
  <2> QED BY <2>2, <2>3
<1>17. node'[d].image = node[d].image /\ node'[d].exists = node[d].exists BY <1>10, <1>12
<1>18. Underway(d)'
  <2>1. PICK b : b = op[d].plan OBVIOUS
  <2>2. op[d].cmd \in {"rebuild", "rebuild-all"} => Rebuilding(b)' BY <1>1, <1>3, <2>1, StillRebuilding DEF Underway
  <2>3. op'[d].plan = b BY <1>3, <2>1
  <2>4. op'[d].cmd \in {"rebuild", "rebuild-all"} => Rebuilding(op[d].plan)' BY <1>3, <2>2, <2>3
  <2>5. op' = op /\ files' = files BY <1>3
  <2> QED BY <1>1, <1>15, <1>17, <2>4, <2>5 DEF Underway
<1>19. Tagged(d)' /\ Archive(d)' BY <1>1, <1>3 DEF Tagged, Archive, OwnBuild, Loading, HasBuilt, ToLoad, Ahead
<1>20. Loaded(d)'
  <2>1. \A x : Ahead(op[d].plan, 0, x)' <=> Ahead(op[d].plan, 0, x) BY <1>3 DEF Ahead
  <2>2. op' = op BY <1>3
  <2> SUFFICES ASSUME NEW s \in Services, OwnBuild(d, s)', ~Ahead(op[d].plan, 0, <<"load", s>>)'
               PROVE  /\ node'[d].image[s] = op'[d].built[s]
                      /\ \A p \in Pods(s) : \/ Ahead(op[d].plan, 0, <<"restart", s, p[2]>>)'
                                            \/ p \in node'[d].due \/ node'[d].pod[p] = node'[d].image[s] \/ p \in op'[d].kept
    BY DEF Loaded
  <2>3. OwnBuild(d, s) BY <2>2 DEF OwnBuild
  <2>4. /\ node[d].image[s] = op[d].built[s]
        /\ \A p \in Pods(s) : \/ Ahead(op[d].plan, 0, <<"restart", s, p[2]>>)
                              \/ p \in node[d].due \/ node[d].pod[p] = node[d].image[s] \/ p \in op[d].kept
    BY <1>1, <2>1, <2>3 DEF Loaded
  <2> QED BY <1>16, <1>17, <2>1, <2>2, <2>4
<1>21. EndedOk(d)'
  <2>1. op' = op /\ result' = result /\ files' = files /\ tar' = tar BY <1>3
  <2> QED BY <1>1, <1>15, <1>16, <1>17, <2>1 DEF EndedOk
<1>22. Probed(d)'
  <2>1. op' = op /\ result' = result /\ probe' = probe BY <1>3
  <2> QED BY <1>1, <1>15, <2>1 DEF Probed
<1>a. Strays(d)' BY <1>1, <1>3 DEF Strays
<1>23. InStep(d)' BY <1>18, <1>19, <1>20, <1>21, <1>22, <1>a DEF InStep
<1> QED BY <1>13, <1>14, <1>23 DEF ClusterInv

\* Steps that change nothing a write or its cluster has.
LEMMA AsideKeeps ==
    ASSUME ClusterInv, UNCHANGED <<runtime, store, node, files, tar, op, result, probe, orphans>>,
           sources' \in [Devloops -> [Services -> 0..MaxTreeEdits]], cancelSet' \in [Devloops -> BOOLEAN]
    PROVE  ClusterInv'
<1>1. ClusterTyped' BY DEF ClusterInv, ClusterTyped
<1>2. ASSUME NEW e \in Devloops PROVE InStep(e)'
  <2>1. ClusterTyped /\ Underway(e) /\ Tagged(e) /\ Archive(e) /\ Loaded(e) /\ EndedOk(e) /\ Probed(e) /\ Strays(e) BY DEF ClusterInv, InStep
  <2>2. Underway(e)' /\ Tagged(e)' /\ Archive(e)' /\ Loaded(e)' /\ EndedOk(e)' /\ Probed(e)' /\ Strays(e)' BY <2>1, Beside
  <2> QED BY <2>2 DEF InStep
<1> QED BY <1>1, <1>2 DEF ClusterInv

\* A status only notes what it has seen.
LEMMA StatusKeeps ==
    ASSUME ClusterInv, NEW d \in Devloops, UNCHANGED <<runtime, sources, store, node, files, tar, op, cancelSet, result, writes, orphans, focus>>,
           NEW b \in StatusState, probe' = [probe EXCEPT ![d] = b],
           b.calm /\ ~b.busy => op[d] = NoWrite,
           (b.at = "ports" /\ b.calm /\ ~b.busy /\ b.healthy /\ result[d].cmd = "setup" /\ result[d].outcome = "ok") =>
                \A p \in AllPods : node[d].pod[p] # NoImage
    PROVE  ClusterInv'
<1>1. ClusterTyped /\ Underway(d) /\ Tagged(d) /\ Archive(d) /\ Loaded(d) /\ EndedOk(d) /\ Strays(d) BY DEF ClusterInv, InStep
<1>2. probe' \in [Devloops -> StatusState] /\ probe'[d] = b /\ \A e \in Devloops \ {d} : probe'[e] = probe[e] BY <1>1 DEF ClusterTyped
<1>3. ClusterTyped' BY <1>1, <1>2 DEF ClusterTyped
<1>4. \A e \in Devloops \ {d} : InStep(e)' BY <1>2, OthersKept
<1>5. Underway(d)'
  <2>1. PICK a : a = op[d].plan OBVIOUS
  <2>2. op[d].cmd \in {"rebuild", "rebuild-all"} => Rebuilding(a)' BY <1>1, <2>1, StillRebuilding DEF Underway
  <2>3. op'[d].plan = a BY <2>1
  <2>4. op'[d].cmd \in {"rebuild", "rebuild-all"} => Rebuilding(op[d].plan)' BY <2>2, <2>3
  <2> QED BY <1>1, <2>4 DEF Underway
<1>6. Tagged(d)' /\ Archive(d)' /\ EndedOk(d)' /\ Strays(d)'
  BY <1>1 DEF Tagged, Archive, EndedOk, OwnBuild, Loading, HasBuilt, ToLoad, Ahead, Strays
<1>a. Loaded(d)'
  <2>1. \A x : Ahead(op[d].plan, 0, x)' <=> Ahead(op[d].plan, 0, x) BY DEF Ahead
  <2>2. \A s \in Services : OwnBuild(d, s)' <=> OwnBuild(d, s) BY DEF OwnBuild
  <2> QED BY <1>1, <2>1, <2>2 DEF Loaded
<1>7. Probed(d)' BY <1>2 DEF Probed
<1>8. InStep(d)' BY <1>5, <1>6, <1>a, <1>7 DEF InStep
<1> QED BY <1>3, <1>4, <1>8 DEF ClusterInv

LEMMA SnapshotKeeps ==
    ASSUME ClusterInv, NEW d \in Devloops, SnapshotBusy(d) PROVE ClusterInv'
<1>1. PICK b : b = [at |-> "cluster", busy |-> op[d] # NoWrite, exists |-> FALSE, healthy |-> FALSE, ports |-> FALSE, calm |-> TRUE] OBVIOUS
<1>2. b \in StatusState /\ b.at = "cluster" /\ (b.busy <=> op[d] # NoWrite)
  <2>1. (op[d] # NoWrite) \in BOOLEAN OBVIOUS
  <2>2. PICK u \in BOOLEAN : u = (op[d] # NoWrite) BY <2>1
  <2>3. b = [at |-> "cluster", busy |-> u, exists |-> FALSE, healthy |-> FALSE, ports |-> FALSE, calm |-> TRUE] BY <1>1, <2>2
  <2> QED BY <2>2, <2>3 DEF StatusState
<1>3. probe' = [probe EXCEPT ![d] = b] BY <1>1 DEF SnapshotBusy
<1> QED BY <1>2, <1>3, StatusKeeps DEF SnapshotBusy

LEMMA LookKeeps ==
    ASSUME ClusterInv, NEW d \in Devloops, NEW fails \in BOOLEAN, CheckCluster(d, fails) PROVE ClusterInv'
<1>1. ClusterTyped /\ Probed(d) BY DEF ClusterInv, InStep
<1>2. probe[d] \in StatusState /\ node[d].exists \in BOOLEAN BY <1>1 DEF ClusterTyped, NodeState
<1>3. PICK u \in BOOLEAN : u = (node[d].exists /\ ~fails) OBVIOUS
<1>4. PICK b : b = [probe[d] EXCEPT !.at = "pods", !.exists = u] OBVIOUS
<1>5. b \in StatusState /\ b.at = "pods" /\ b.calm = probe[d].calm /\ b.busy = probe[d].busy BY <1>2, <1>4 DEF StatusState
<1>6. probe' = [probe EXCEPT ![d] = b]
  <2>1. probe' = [probe EXCEPT ![d].at = "pods", ![d].exists = u] BY <1>3 DEF CheckCluster
  <2> QED BY <1>1, <1>4, <2>1 DEF ClusterTyped
<1>7. b.calm /\ ~b.busy => op[d] = NoWrite BY <1>1, <1>5 DEF Probed
<1> QED BY <1>5, <1>6, <1>7, StatusKeeps DEF CheckCluster

LEMMA LookAtPodsKeeps ==
    ASSUME ClusterInv, NEW d \in Devloops, NEW fails \in BOOLEAN, NEW lag \in SUBSET node[d].due, CheckPods(d, fails, lag)
    PROVE  ClusterInv'
<1>1. ClusterTyped /\ Probed(d) /\ EndedOk(d) BY DEF ClusterInv, InStep
<1>2. probe[d] \in StatusState BY <1>1 DEF ClusterTyped
<1>3. PICK u \in BOOLEAN : u = (probe[d].exists /\ node[d].exists /\ ~fails /\ ParsePodHealth(d, lag)) OBVIOUS
<1>4. PICK b : b = [probe[d] EXCEPT !.at = "ports", !.healthy = u] OBVIOUS
<1>5. b \in StatusState /\ b.calm = probe[d].calm /\ b.busy = probe[d].busy /\ b.healthy = u BY <1>2, <1>4 DEF StatusState
<1>6. probe' = [probe EXCEPT ![d] = b]
  <2>1. probe' = [probe EXCEPT ![d].at = "ports", ![d].healthy = u] BY <1>3 DEF CheckPods
  <2> QED BY <1>1, <1>4, <2>1 DEF ClusterTyped
<1>7. b.calm /\ ~b.busy => op[d] = NoWrite BY <1>1, <1>5 DEF Probed
<1>8. ASSUME b.calm, ~b.busy, b.healthy, result[d].cmd = "setup", result[d].outcome = "ok", NEW p \in AllPods
      PROVE  node[d].pod[p] # NoImage
  <2>1. ParsePodHealth(d, lag) BY <1>3, <1>5, <1>8
  <2>2. node[d].pod[p] # NoImage \/ p \in node[d].due BY <1>1, <1>7, <1>8 DEF EndedOk
  <2> QED BY <2>1, <2>2 DEF ParsePodHealth, KnownPods
<1> QED BY <1>5, <1>6, <1>7, <1>8, StatusKeeps DEF CheckPods

LEMMA AnswerKeeps ==
    ASSUME ClusterInv, NEW d \in Devloops, AnswerStatus(d) PROVE ClusterInv'
<1>1. ClusterTyped /\ Probed(d) BY DEF ClusterInv, InStep
<1>2. probe[d] \in StatusState BY <1>1 DEF ClusterTyped
<1>3. PICK u \in BOOLEAN : u = ("ports.json" \in files[d])
  <2>1. ("ports.json" \in files[d]) \in BOOLEAN BY SMT
  <2> QED BY <2>1, Zenon
<1>4. PICK b : b = [probe[d] EXCEPT !.at = "idle", !.ports = u] OBVIOUS
<1>5. b \in StatusState /\ b.at = "idle" /\ b.calm = probe[d].calm /\ b.busy = probe[d].busy BY <1>2, <1>4 DEF StatusState
<1>6. probe' = [probe EXCEPT ![d] = b]
  <2>1. probe' = [probe EXCEPT ![d].at = "idle", ![d].ports = u] BY <1>3 DEF AnswerStatus
  <2> QED BY <1>1, <1>4, <2>1 DEF ClusterTyped
<1>7. b.calm /\ ~b.busy => op[d] = NoWrite BY <1>1, <1>5 DEF Probed
<1> QED BY <1>5, <1>6, <1>7, StatusKeeps DEF AnswerStatus

LEMMA ClusterSteps ==
    ASSUME ClusterAssumption, ClusterInv, [ClusterNext]_clusterVars PROVE ClusterInv'
<1>0. ClusterTyped BY DEF ClusterInv
<1>1. CASE UNCHANGED clusterVars
  <2>1. sources' \in [Devloops -> [Services -> 0..MaxTreeEdits]] /\ cancelSet' \in [Devloops -> BOOLEAN]
    BY <1>0, <1>1 DEF clusterVars, ClusterTyped
  <2> QED BY <1>1, <2>1, AsideKeeps DEF clusterVars
<1>2. ASSUME NEW d \in Devloops, NEW s \in Services, EditSource(d, s) PROVE ClusterInv'
  <2>1. sources \in [Devloops -> [Services -> 0..MaxTreeEdits]] /\ cancelSet \in [Devloops -> BOOLEAN] BY <1>0 DEF ClusterTyped
  <2>2. sources[d] \in [Services -> 0..MaxTreeEdits] /\ sources[d][s] \in 0..MaxTreeEdits BY <2>1
  <2>3. PICK v : v = sources[d][s] + 1 OBVIOUS
  <2>4. v \in 0..MaxTreeEdits BY <1>2, <2>2, <2>3 DEF EditSource, ClusterAssumption
  <2>5. [sources[d] EXCEPT ![s] = v] \in [Services -> 0..MaxTreeEdits] BY <2>2, <2>4
  <2>6. sources' = [sources EXCEPT ![d] = [sources[d] EXCEPT ![s] = v]] BY <1>2, <2>3 DEF EditSource
  <2>7. sources' \in [Devloops -> [Services -> 0..MaxTreeEdits]] BY <2>1, <2>5, <2>6
  <2> QED BY <1>2, <2>1, <2>7, AsideKeeps DEF EditSource
<1>3. ASSUME NEW d \in Devloops, CancelWrite(d) PROVE ClusterInv'
  <2>1. sources' \in [Devloops -> [Services -> 0..MaxTreeEdits]] /\ cancelSet' \in [Devloops -> BOOLEAN]
    BY <1>0, <1>3 DEF ClusterTyped, CancelWrite
  <2> QED BY <1>3, <2>1, AsideKeeps DEF CancelWrite
<1>4. ASSUME NEW d \in Devloops, CanWrite(d) /\ \E r \in HelperRequest : StartWrite(d, r) PROVE ClusterInv' BY <1>4, StartKeeps
<1>5. ASSUME NEW d \in Devloops, \/ WriteStepSucceeds(d) \/ WriteStepFails(d) \/ WriteEnds(d) \/ HelperExits(d)
                               \/ SnapshotBusy(d) \/ AnswerStatus(d)
      PROVE ClusterInv'
  BY <1>5, SuccessKeeps, FailKeeps, WriteEndKeeps, ExitKeeps, SnapshotKeeps, AnswerKeeps
<1>a. ASSUME NEW d \in Devloops, \E b \in 1..4, l \in 0..4, taken \in SUBSET OthersTags(d) : ScriptFails(d, b, l, taken)
      PROVE ClusterInv'
  BY <1>a, ScriptFailKeeps
<1>b. ASSUME NEW d \in Devloops, \E x \in orphans[d] : OrphanEnds(d, x) PROVE ClusterInv' BY <1>b, OrphanKeeps
<1>6. ASSUME NEW d \in Devloops, \E p \in AllPods : RollPod(d, p) PROVE ClusterInv' BY <1>6, RollKeeps
<1>7. ASSUME NEW d \in Devloops, \E fails \in BOOLEAN : CheckCluster(d, fails) PROVE ClusterInv' BY <1>7, LookKeeps
<1>8. ASSUME NEW d \in Devloops, \E fails \in BOOLEAN, lag \in SUBSET node[d].due : CheckPods(d, fails, lag) PROVE ClusterInv'
  BY <1>8, LookAtPodsKeeps
<1> QED BY <1>1, <1>2, <1>3, <1>4, <1>5, <1>a, <1>b, <1>6, <1>7, <1>8 DEF ClusterNext

LEMMA ClusterStarts == ASSUME ClusterAssumption, ClusterInit PROVE ClusterInv
<1>1. \A d \in Devloops : AfterSetup(d) \in NodeState
  <2>1. \A d \in Devloops : \A s \in Services : Revision(d, s) \in Revisions BY DEF ClusterInit, Revision, Revisions, ClusterAssumption
  <2>2. \A p \in AllPods : p[1] \in Services BY PodFacts
  <2> SUFFICES ASSUME NEW d \in Devloops PROVE AfterSetup(d) \in NodeState OBVIOUS
  <2>3. [s \in Services |-> Revision(d, s)] \in [Services -> Revisions] BY <2>1
  <2>4. [p \in AllPods |-> Revision(d, p[1])] \in [AllPods -> Revisions] BY <2>1, <2>2
  <2> QED BY <2>3, <2>4 DEF AfterSetup, NodeState
<1>2. /\ runtime \in {"podman", "docker"} /\ cancelSet = [d \in Devloops |-> FALSE] /\ op = [d \in Devloops |-> NoWrite]
      /\ store = NoneBuilt /\ tar = [d \in Devloops |-> NoImage] /\ orphans = [d \in Devloops |-> {}]
  BY DEF ClusterInit
<1>3. sources \in [Devloops -> [Services -> 0..MaxTreeEdits]] BY DEF ClusterInit, ClusterAssumption
<1>4. store \in [Services -> Revisions] /\ tar \in [Devloops -> Revisions \cup {Partial}] BY <1>2, NoWriteFacts DEF Revisions
<1>5. node \in [Devloops -> NodeState] BY <1>1, MissingTyped DEF ClusterInit
<1>6. files \in [Devloops -> SUBSET RuntimeFile] BY DEF ClusterInit
<1>7. op \in [Devloops -> WriteState] BY <1>2, NoWriteFacts
<1>8. probe \in [Devloops -> StatusState] /\ \A d \in Devloops : ~probe[d].calm BY DEF ClusterInit, StatusState
<1>9. DOMAIN result = Devloops /\ \A d \in Devloops : result[d].outcome = "none" BY DEF ClusterInit
<1>10. ClusterTyped BY <1>2, <1>3, <1>4, <1>5, <1>6, <1>7, <1>8, <1>9 DEF ClusterTyped
<1>11. ASSUME NEW d \in Devloops PROVE InStep(d)
  <2>1. op[d] = NoWrite /\ tar[d] = NoImage BY <1>2
  <2>2. op[d].cmd = "none" /\ op[d].plan = <<>> /\ \A s \in Services : ~OwnBuild(d, s) BY <2>1, NoWriteFacts DEF OwnBuild
  <2>3. Underway(d) BY <2>1, <2>2 DEF Underway
  <2>4. Tagged(d) /\ Loaded(d) BY <2>2 DEF Tagged, Loaded
  <2>5. Archive(d) BY <2>1, <2>2 DEF Archive, Loading
  <2>6. EndedOk(d) /\ Probed(d) /\ Strays(d) BY <1>2, <1>8, <1>9 DEF EndedOk, Probed, Strays
  <2> QED BY <2>3, <2>4, <2>5, <2>6 DEF InStep
<1> QED BY <1>10, <1>11 DEF ClusterInv

LEMMA ClusterHolds == ASSUME ClusterInv PROVE ClusterCorrect
<1>1. ClusterTyped /\ \A d \in Devloops : Underway(d) /\ Archive(d) /\ EndedOk(d) /\ Probed(d) BY DEF ClusterInv, InStep
<1>2. ClusterTypeOK
  <2>1. ASSUME NEW d \in Devloops PROVE node[d] \in NodeState /\ op[d] \in WriteState /\ files[d] \in SUBSET RuntimeFile
    BY <1>1 DEF ClusterTyped
  <2> QED BY <1>1, <2>1 DEF ClusterTypeOK, ClusterTyped, NodeState, WriteState
<1>3. OkRuns
  <2> SUFFICES ASSUME NEW d \in Devloops, op[d] = NoWrite, result[d].outcome = "ok", node[d].due = {},
                      NEW s \in Services, NEW p \in Pods(s), result[d].built[s] # NoImage, s \notin result[d].foreign,
                      p \notin result[d].kept
               PROVE  node[d].pod[p] = result[d].built[s]
    BY DEF OkRuns
  <2> QED BY <1>1 DEF EndedOk
<1>4. NoStaleArchive
  <2> SUFFICES ASSUME NEW d \in Devloops
               PROVE  /\ (op[d].plan # <<>> /\ op[d].plan[1][1] = "load" /\ runtime = "podman" /\ ~op[d].spoiled) =>
                            /\ tar[d] # Partial
                            /\ \A s \in Services : op[d].plan[1] = <<"load", s>> =>
                                op[d].built[s] = NoImage \/ s \in op[d].foreign \/ tar[d] = op[d].built[s]
                      /\ (op[d] = NoWrite /\ result[d].outcome = "ok" /\ result[d].cmd \in {"rebuild", "rebuild-all"}
                            /\ \E s \in Services : result[d].built[s] # NoImage) => tar[d] = NoImage
    BY DEF NoStaleArchive
  <2>1. Archive(d) /\ EndedOk(d) BY <1>1
  <2> QED BY <2>1 DEF Archive, Loading, OwnBuild, EndedOk
<1>5. SetupComplete BY <1>1 DEF SetupComplete, EndedOk
<1>6. HealthyIsUp BY <1>1 DEF HealthyIsUp, Probed
<1> QED BY <1>2, <1>3, <1>4, <1>5, <1>6 DEF ClusterCorrect

\* Whatever fails, is cancelled or is built beside it, an ok means what the developer takes
\* it for: after a rebuild the pods run what was built, unless another helper has built the
\* same tag since; after a setup there is a cluster with its files; a healthy status after
\* a setup has seen every pod; what is loaded is what the write has saved, whatever archive a
\* write that was cut off or a helper that exited has left.  The pods of ac and gc that a setup
\* has found are excepted, and so is a write that was begun beside the command of a helper
\* that had exited.  For any helpers, services, edits and writes, with either runtime.
THEOREM ClusterSoundProved == Spec => []ClusterSound
<1> DEFINE Inv == part = "cluster" => ClusterInv
<1>1. Init => Inv BY ClusterStarts, ClusterAssumption DEF Init
<1>2. Inv /\ [Next]_partVars => Inv'
  <2> SUFFICES ASSUME Inv, [Next]_partVars, part' = "cluster" PROVE ClusterInv' OBVIOUS
  <2>1. part = "cluster" /\ ClusterInv BY DEF Next, partVars
  <2>2. [ClusterNext]_clusterVars BY <2>1 DEF Next, partVars
  <2> QED BY <2>1, <2>2, ClusterSteps, ClusterAssumption
<1>3. Inv => ClusterSound BY ClusterHolds DEF ClusterSound
<1> QED BY <1>1, <1>2, <1>3, PTL DEF Spec
=============================================================================
