---------------------------- MODULE Credentials ----------------------------
(***************************************************************************)
(* A service's credentials from end to end: the auth controller's key ring *)
(* (KeyRing), the token manager task of a service, which keeps a token     *)
(* fresh, and a validator in another service, which checks that token      *)
(* against its cached copy of the JWKS.  Validations of one process share  *)
(* the cache and may refresh it side by side.                              *)
(*                                                                         *)
(* Abstractions: one service and one validating process; a token is its    *)
(* key and its expiry, and always well formed and correctly signed; clocks *)
(* agree; the controller answers unless it is down, and it is down for at  *)
(* most MaxOutage and then up for at least MinUp.  A task that can run     *)
(* runs before the clock moves.                                            *)
(***************************************************************************)
EXTENDS KeyRing, FiniteSets

CONSTANTS
    Validation,  \* bound: the concurrent validations of the process
    Ttl,         \* DEFAULT_CACHE_TTL_SECONDS
    FetchMax,    \* the HTTP timeout of the JWKS client
    Lifetime,    \* TOKEN_EXPIRY_SECONDS
    Threshold,   \* refresh_threshold + CLOCK_DRIFT_MARGIN_SECS
    AskMax,      \* http_timeout of the token manager
    MinBackoff,  \* INITIAL_BACKOFF_MS
    MaxBackoff,  \* MAX_BACKOFF_MS
    Leeway,      \* jsonwebtoken's leeway on exp
    MaxOutage,   \* assumption: the longest time the controller is down
    MinUp        \* assumption: the shortest time it is up in between

\* A retry falls into every time the controller is up, and the threshold leaves
\* room for an outage and the retries around it.
ASSUME CredentialsAssumption ==
    /\ IsFiniteSet(Validation)
    /\ {Ttl, FetchMax, Lifetime, Threshold, AskMax, MinBackoff, MaxBackoff, Leeway,
        MaxOutage, MinUp} \subseteq Nat
    /\ 0 < MinBackoff /\ MinBackoff <= MaxBackoff
    /\ MinUp > MaxBackoff + AskMax
    /\ Threshold > MaxOutage + MaxBackoff + 3 * AskMax
    /\ Lifetime > Threshold

VARIABLES
    up,     \* the controller answers
    since,  \* when up last changed
    token,  \* the token in the watch channel: [key, exp], or None before the first
    tm,     \* the token manager's task: [st, due, exp, backoff, got]
    cache,  \* JwksClient.cache: [keys, expires], or None
    val     \* [Validation -> [st, token, due, keys]]

tmVars  == <<token, tm>>
valVars == <<cache, val>>
credVars == <<now, ring, up, since, token, tm, cache, val>>

Token == [key: Nat, exp: Nat]
Verdict == {"ok", "key_not_found", "expired", "unavailable"}

NoVal == [st |-> "idle", token |-> None, due |-> 0, keys |-> {}]

CredTypeOK ==
    /\ now \in Nat /\ ring \in Seq(Key)
    /\ up \in BOOLEAN /\ since \in Nat
    /\ token \in Token \cup {None}
    /\ tm \in [st: {"top", "asking", "answered", "sleeping", "backoff"}, due: Nat,
               exp: Nat \cup {None}, backoff: MinBackoff..MaxBackoff,
               got: Token \cup {None}]
    /\ cache \in [keys: SUBSET Nat, expires: Nat] \cup {None}
    /\ val \in [Validation -> [st: {"idle", "fetching", "answered", "refreshed"} \cup Verdict,
                               token: Token \cup {None}, due: Nat, keys: SUBSET Nat]]

\* The controller has started with its first key, and nothing else has yet.
CredInit ==
    /\ now = 0
    /\ ring = <<[from |-> 0, retired |-> None, rotated |-> FALSE]>>
    /\ up = TRUE /\ since = 0
    /\ token = None
    /\ tm = [st |-> "top", due |-> 0, exp |-> None, backoff |-> MinBackoff, got |-> None]
    /\ cache = None
    /\ val = [v \in Validation |-> NoVal]

-----------------------------------------------------------------------------
(* The auth controller. *)

\* A replica that starts adds a key, a rotation adds one and retires those it found.
ChangeKeys ==
    /\ up
    /\ \E from \in Stamp :
           Add(from) \/ \E kept \in SUBSET DOMAIN ring : Rotate(from, kept)
    /\ UNCHANGED <<up, since, tmVars, valVars>>

GoDown ==
    /\ up /\ now >= since + MinUp
    /\ up' = FALSE /\ since' = now
    /\ UNCHANGED <<now, ring, tmVars, valVars>>

ComeUp ==
    /\ ~up
    /\ up' = TRUE /\ since' = now
    /\ UNCHANGED <<now, ring, tmVars, valVars>>

-----------------------------------------------------------------------------
(* token_refresh_loop. *)

\* Mutant: the refresh waits for the expiry.
NeedsRefreshLate == tm.exp # None => tm.exp - now <= 0
\* No token yet, or one that is within the threshold of its expiry.
NeedsRefresh == tm.exp # None => tm.exp - now <= Threshold

\* The top of the loop when a refresh is due: acquire_token sends its request.
Ask ==
    /\ tm.st = "top" /\ NeedsRefresh
    /\ tm' = [tm EXCEPT !.st = "asking", !.due = now + AskMax]
    /\ UNCHANGED <<now, ring, up, since, token, valVars>>

\* issue_service_token: a token signed with the current key.
Issue ==
    /\ tm.st = "asking" /\ up
    /\ \E k \in Signing :
           tm' = [tm EXCEPT !.st = "answered", !.got = [key |-> k, exp |-> now + Lifetime]]
    /\ UNCHANGED <<now, ring, up, since, token, valVars>>

\* The answer arrives: expires_at is counted from now, the token is sent on the
\* watch channel and the backoff reset.
Acquire ==
    /\ tm.st = "answered"
    /\ token' = tm.got
    /\ tm' = [tm EXCEPT !.st = "top", !.exp = now + Lifetime,
                        !.backoff = MinBackoff, !.got = None]
    /\ UNCHANGED <<now, ring, up, since, valVars>>

\* Mutant: the backoff has no cap.
AskFailsUncapped ==
    /\ tm.st \in {"asking", "answered"}
    /\ ~up \/ (tm.st = "asking" /\ Signing = {})
    /\ tm' = [tm EXCEPT !.st = "backoff", !.due = now + tm.backoff,
                        !.backoff = 2 * tm.backoff, !.got = None]
    /\ UNCHANGED <<now, ring, up, since, token, valVars>>
\* The request fails: the controller is down, has no key, or its answer is lost
\* with it.  Sleep for the backoff, then double it.
AskFails ==
    /\ tm.st \in {"asking", "answered"}
    /\ ~up \/ (tm.st = "asking" /\ Signing = {})
    /\ tm' = [tm EXCEPT !.st = "backoff", !.due = now + tm.backoff,
                        !.backoff = IF 2 * tm.backoff < MaxBackoff THEN 2 * tm.backoff
                                                                   ELSE MaxBackoff,
                        !.got = None]
    /\ UNCHANGED <<now, ring, up, since, token, valVars>>

\* Nothing to refresh: sleep until the threshold, for a second at least.
SleepUntil == IF tm.exp - Threshold > now THEN tm.exp - Threshold ELSE now + 1

Sleep ==
    /\ tm.st = "top" /\ ~NeedsRefresh
    /\ tm' = [tm EXCEPT !.st = "sleeping", !.due = SleepUntil]
    /\ UNCHANGED <<now, ring, up, since, token, valVars>>

Wake ==
    /\ tm.st \in {"sleeping", "backoff"} /\ now >= tm.due
    /\ tm' = [tm EXCEPT !.st = "top"]
    /\ UNCHANGED <<now, ring, up, since, token, valVars>>

-----------------------------------------------------------------------------
(* JwtValidator::validate and JwksClient. *)

\* Mutant: the cache never expires.
FreshForever == cache # None
\* The cached copy may be used.
Fresh == cache # None /\ cache.expires > now

\* verify_token and validate_iat on the key found, or KeyNotFound.
Decide(t, keys) ==
    IF t.key \notin keys THEN "key_not_found"
    ELSE IF t.exp + Leeway < now THEN "expired" ELSE "ok"

End(v, verdict) ==
    val' = [val EXCEPT ![v] = [NoVal EXCEPT !.st = verdict]]

\* The service presents its token.
Present(v) ==
    /\ val[v].st = "idle" /\ token # None
    /\ IF Fresh
       THEN End(v, Decide(token, cache.keys))
       ELSE val' = [val EXCEPT ![v] = [NoVal EXCEPT !.st = "fetching", !.token = token,
                                                    !.due = now + FetchMax]]
    /\ UNCHANGED <<now, ring, up, since, tmVars, cache>>

\* get_jwks on the controller.
ServeJwks(v) ==
    /\ val[v].st = "fetching" /\ up
    /\ val' = [val EXCEPT ![v].st = "answered", ![v].keys = Jwks]
    /\ UNCHANGED <<now, ring, up, since, tmVars, cache>>

\* Mutant: keys that left the answer are dropped from the cache, new ones not added.
InstallRetain(v) ==
    /\ val[v].st = "answered"
    /\ cache' = [keys |-> IF cache = None THEN val[v].keys ELSE val[v].keys \cap cache.keys,
                 expires |-> now + Ttl]
    /\ val' = [val EXCEPT ![v].st = "refreshed"]
    /\ UNCHANGED <<now, ring, up, since, tmVars>>
\* The answer arrives and replaces the cache, whatever is in it by now.
Install(v) ==
    /\ val[v].st = "answered"
    /\ cache' = [keys |-> val[v].keys, expires |-> now + Ttl]
    /\ val' = [val EXCEPT ![v].st = "refreshed"]
    /\ UNCHANGED <<now, ring, up, since, tmVars>>

FetchFails(v) ==
    /\ val[v].st \in {"fetching", "answered"} /\ ~up
    /\ End(v, "unavailable")
    /\ UNCHANGED <<now, ring, up, since, tmVars, cache>>

\* The lookup after the refresh reads the cache again.
Lookup(v) ==
    /\ val[v].st = "refreshed"
    /\ End(v, Decide(val[v].token, cache.keys))
    /\ UNCHANGED <<now, ring, up, since, tmVars, cache>>

\* The verdict goes to the caller.
Return(v) ==
    /\ val[v].st \in Verdict
    /\ val' = [val EXCEPT ![v] = NoVal]
    /\ UNCHANGED <<now, ring, up, since, tmVars, cache>>

-----------------------------------------------------------------------------
\* Time passes once every task that can run has run and no deadline is missed.
AllWait ==
    /\ tm.st # "top" /\ now < tm.due
    /\ \A v \in Validation :
           /\ val[v].st \notin {"refreshed"} \cup Verdict
           /\ val[v].st \in {"fetching", "answered"} => now < val[v].due
    /\ ~up => now < since + MaxOutage

CredTick ==
    /\ AllWait
    /\ Pass
    /\ UNCHANGED <<up, since, tmVars, valVars>>

CredNext ==
    \/ ChangeKeys \/ GoDown \/ ComeUp
    \/ Ask \/ Issue \/ Acquire \/ AskFails \/ Sleep \/ Wake
    \/ \E v \in Validation :
          Present(v) \/ ServeJwks(v) \/ Install(v) \/ FetchFails(v) \/ Lookup(v) \/ Return(v)
    \/ CredTick

CredSpec == CredInit /\ [][CredNext]_credVars

-----------------------------------------------------------------------------
(* Properties. *)

\* The token a service holds has not expired, through outages and whatever the
\* backoff had grown to when the controller came back.
TokenUnexpired == token # None => token.exp > now

\* A token whose key was retired is replaced before the rest of its lifetime
\* and an outage are over: until then validators may refuse it.
RetiredTokenReplaced ==
    token # None /\ ring[token.key].retired # None
        => now <= ring[token.key].retired + Lifetime - Threshold
                    + MaxOutage + MaxBackoff + 3 * AskMax

\* The token that a service presents is unexpired, and one whose key is retired is held
\* only for a bounded time, in which validators may refuse it (token_refresh_loop).
TokenUsable == CredTypeOK /\ TokenUnexpired /\ RetiredTokenReplaced

Decided(v, verdict) == val[v].st # verdict /\ val'[v].st = verdict

\* The key of the token that the step decides about.
KeyUsed(v) == ring[IF val[v].st = "refreshed" THEN val[v].token.key ELSE token.key]

\* At time t the JWKS may have listed key k, and may have left it out: from is stamped up
\* to TxMax before the key is committed, and at the moment a key is retired both hold.
Listed(k, t) ==
    k.from <= t /\ t < k.from + Validity /\ (k.retired # None => t <= k.retired)
Unlisted(k, t) ==
    t <= k.from + TxMax \/ t >= k.from + Validity \/ (k.retired # None /\ t >= k.retired)

\* The times that a copy of the JWKS in use now can be from.
Recent == {t \in 0..now : now <= t + Ttl + FetchMax}

\* A verdict is the one that the JWKS gave at most the life of a cached copy and one
\* fetch ago, although slow fetches put older copies back over newer ones (get_key,
\* refresh_cache): a key that has been listed for that long is found, and one that has
\* been off the list for that long is not.
VerdictsFollowJwks ==
    [][\A v \in Validation :
           /\ Decided(v, "ok") => \E t \in Recent : Listed(KeyUsed(v), t)
           /\ Decided(v, "key_not_found") => \E t \in Recent : Unlisted(KeyUsed(v), t)]_credVars

\* What ADR-0008 and the rotation tests say of the overlap of the keys: a token of the
\* previous key is accepted, until it expires, by a validator that has the latest JWKS.
\* The code takes a key off the list when it is rotated (get_all_active_keys).
OldTokensWork ==
    \A v \in Validation :
        val[v].st = "refreshed" /\ ring[val[v].token.key].retired # None /\ val[v].token.exp > now
            => Decide(val[v].token, cache.keys) = "ok"
=============================================================================
