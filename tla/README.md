# Dark Tower: specifications, model checks and proofs

Dark Tower is a video-conferencing backend in Rust. This directory keeps TLA+ models of
the parts of it in which several tasks, processes or machines have to agree, and of the
tools that gate its changes; the TLC configurations that check the models on small
instances; and TLAPS proofs for all instances. `PROJECT.json` lists the components, the
runs and what each checks, the lines of `src/` each definition stands for, the hazards the
properties are for, the mutants that show each property can fail, and the theorems.

    tlc -workers 2 -config Meeting.cfg MCMeeting           # a run
    tlapm MeetingProofs.tla                                # a proof

## The system

Four services, a library and two developer tools (all under `src/crates/`):

| part | what it does | state it keeps |
|---|---|---|
| `ac-service` (AC) | authentication: service, user and meeting tokens, signing keys, clients | PostgreSQL; several replicas |
| `gc-service` (GC) | global controller: meetings, their placement on controllers, the tables of controllers and handlers | PostgreSQL; several instances at once |
| `mc-service` (MC) | meeting controller: runs meetings as actors, talks to clients over WebTransport | actors in memory; Redis for meeting state |
| `mh-service` (MH) | media handler: holds clients' media connections | a session manager actor in memory |
| `common` | JWT checks, JWKS cache, refresh of the services' own tokens | caches in memory |
| `devloop-helper` | builds and runs a developer's Kind cluster on request | a port registry shared by the helpers of a host, files, clusters |
| `dt-guard` | judges every change before it lands | none: git and the tree |

A user logs in at the AC and asks a GC to join a meeting; the GC finds or makes an
assignment of the meeting to an MC (asking the MC, which writes the chosen MHs to Redis and
starts a meeting actor) and has the AC sign a meeting token. The client connects to the MC,
which joins it to the meeting and, for the first participant, registers the meeting with its
MHs; the client then connects to an MH, which tells the MC. MCs and MHs register with the GC
and send heartbeats. Services call each other with tokens of their own, which they refresh,
and check tokens against a cached copy of the AC's public keys, which rotate.

### Inventory

| component | operations | how it interacts | what is hard | what makes it correct | module |
|---|---|---|---|---|---|
| MC meeting actor (`actors/meeting.rs`, `session.rs`, `metrics.rs`) | join, reconnect, leave, connection ended, mutes, grace tick, health check, end, cancel | mailbox from connections and participant actors, which it supervises | late notices, panics, reconnection against time-outs, unsigned gauges | ids lead to the right participant, no ghosts, gauges match, rosters are right, a host's mute binds | `Meeting` |
| MC participant actor (`actors/participant.rs`) | receive update, close, notify | bounded mailboxes both ways | full mailboxes, circular waits | notices are never lost, ends are noticed | `Meeting`, `Mailboxes` |
| Actor handles (`actors/*.rs`, MH `session/mod.rs`) | every call and its answer | request and reply channels | actors that stop, panic or are full meanwhile | an answer is true, an error means not done, nobody waits for ever | `Calls` |
| MC process (`actors/controller.rs`, `grpc/mc_service.rs`, `webtransport/`) | assign, create, join, look up, health check, accept, shut down | RPCs, connections, Redis | undo after a failure, counters beside maps, dropped calls, panics | counters cover what runs, a live meeting keeps its MH assignment, slots come back | `Controller` |
| MC Redis client (`redis/`) | fenced write and delete, generations, clean-up | Lua scripts of any number of MCs | two round trips per call, crashes between them | no stale overwrite, the higher generation wins | `FencedRedis` |
| GC assignment (`services/mc_assignment.rs`, `repositories/meeting_assignments.rs`, `tasks/`) | find, choose, ask, insert, end, purge | SQL; calls to MCs; several GCs | races between GCs, stale rows, lost replies | one controller per region while it lives; requests end | `Assignment` |
| GC tables and the servers' GC clients (`repositories/`, `grpc/gc_client.rs`) | register, heartbeat, mark stale, register again | calls of MCs and MHs | late calls, the boundary of staleness, lost rows | a live server stays a candidate, a lost one learns of it | `Registration`, `Assignment` |
| MH sessions (`session/mod.rs`, `webtransport/connection.rs`, `grpc/`), MC registry (`mh_connection_registry.rs`) | register meeting, pending and active connections, notices | messages to one actor; calls to and from MCs | checks and waits in separate messages, lost and repeated notices | served connections are active, nothing pending is left, the MC knows who is connected | `MediaSession` |
| AC signing keys (`key_management_service.rs`, `signing_keys.rs`, `admin_handler.rs`) | first key at start-up, rotation | transactions, an advisory lock | replicas that start or crash at once, times read in transactions | ids unique, rotations apart, never without a key | `SigningKeys`, `KeyRing` |
| Token manager, JWKS cache (`token_manager.rs`, `jwt.rs`) | refresh, back off; fetch, cache, look up | HTTP to the AC | rotation against caching, outages against expiry | the held token is valid, verdicts follow the keys | `Credentials` |
| AC clients and users (`token_service.rs`, `user_service.rs`, `registration_service.rs`) | log in, register, rotate a secret, create and delete clients | SQL, the audit log as a counter | check and insert apart, dropped handlers | lockouts and limits are passed by a known amount at most, a secret is known to somebody | `Clients`, `Users` |
| GC meetings (`handlers/meetings.rs`) | create, join, guest token, settings | SQL, the AC | count and insert under READ COMMITTED | limit passed by at most the inserts at once, no setting lost, codes apart | `Lobby` |
| Admission (`auth_layer.rs`, middleware, `jwt.rs`, connection handlers) | issue and check tokens | claims | clocks that differ, token types that look alike | a token opens what it was issued for, services' calls are served | `Gate` |
| The errors of a join (`errors.rs` of all services) | log in, join, connect | every hop turns an error into another | chains of failures | whom an answer blames, what it shows, what is counted | `Journey` |
| Start-up and shutdown (`main.rs`, `health.rs`) | start, bind, register, become ready, drain, stop | probes, SIGTERM | orders of start, outages, the grace period | early requests are answered, all come up | `Lifecycle` |
| Configuration (`config.rs`) | parse, clamp, refuse, register | environment, GC tables | edges of widths, casts | limits hold, rows are honest | `Settings` |
| devloop helper (`main.rs`, `commands.rs`, `ports.rs`) | serve connections, write, cancel, allocate ports, build, load, roll out | threads, process groups, files, a shared image store | cancel at any moment, helpers that die, process ids used again | one write at a time, ports of one's own, an ok is so | `Helper`, `Ports`, `Cluster` |
| dt-guard | scan files, judge branches, metrics, boards, settings | git | renames, dirty trees, a trunk that moves, several guards together | a change that every guard accepts keeps what they are for | `Scanners`, `Guards`, `Catalog` |

### What is not modelled

* Cryptography (signatures, HMAC of binding tokens, password hashing): a token names the
  key that signed it, a hash is the secret it verifies.
* Wire formats, framing, TLS, error texts, logging, and metrics that decide nothing (the
  counters of a join are in `Journey`, the gauges of an MC in `Meeting` and `Controller`).
* Which of the equally good media handlers or controllers a weighted draw takes.
* dt-guard's kustomize guards, which call kubectl, and cite-extract; regular expressions
  are taken as classes of lines.
* The helper's audit log; test crates, generated code, the TypeScript packages, and
  deployment files except for the table keys and defaults that the models use.

Some operations have no caller in production code yet: reconnection, leaving, ending a
meeting, both mutes, `store_meeting_state`, `delete_meeting` and `remove_meeting` are
called by tests only, and no MC sends `notify_meeting_ended`. They are modelled, because
the code and its tests promise them, as operations that may be called at any time.

## The modules

Every component module declares its parameters as CONSTANTS with a named ASSUME, its
state, one action per handler or step, a specification, where needed its fairness, and its
properties. Definitions whose comment starts with "Mutant" are plausible bugs that show
that a property can fail; nothing uses them otherwise. An `MC...` module gives the constants
values for TLC, a `...Proofs` module holds the theorems.

**Meeting.** One `MeetingActor`, the participant actors it supervises and the gauges. Each
handler of `handle_message` is an action (`Join`, `Reconnect`, `ReconnectExpired`, `Leave`,
`ConnectionDisconnected`, `SelfMute`, `HostMute`, `EndMeeting`), and so are the periodic
parts of `run` (`GraceTick` for `check_disconnect_timeouts`, `CheckConnectionHealth`) and
`GracefulShutdown`. Participant actors drop, notify, finish or panic on their own; time is
a tick. `participants`, `connections`, `corrToPid`, `bindings` are the actor's maps;
`actors` is the state of every spawned task; `roster` is what each actor was told.

**Mailboxes.** The bounded channels between a meeting actor and its participants, in which
a send waits for a slot. Handlers that `Meeting` treats as one step are cut here at their
awaits: a broadcast delivers one update at a time.

**Calls.** How a call through an actor handle ends: mailboxes with a bound, loops that stop
or panic and drop what they have not handled, reply channels, the controller that is itself
a caller of the meeting, the updates that a meeting's handler owes to its participant and
the notice that a closing one owes to the meeting, and the mailbox monitor. What a message
does is in the modules of the actors; here it has been done once or not.

**Controller.** One MC process from start to exit: the assignment RPC cut at its awaits,
the controller actor's map with its health check, the accept loop with its counter, the task
of each connection with the registration at the MHs that the first participant sets off,
and shutdown. Tasks panic and callers drop their calls, wherever these are, also in the
middle of the clean-up: a command to Redis whose answer is not waited for or is lost was
carried out or was not (`MayWrite`).

**FencedRedis.** The keys `meeting:{id}:generation`, `:mh` and `:state` and the calls of
`FencedRedisClient`. A Lua script is one step, a call with two round trips is two, and
`Abandon` is a crash or a lost connection between them. `DeleteMeeting` removes the keys
unfenced, as the code does.

**Assignment.** The GC's two tables for one meeting and the requests that GC instances run
at once. Every SQL statement is a step (`FindExisting`, `ChooseMc`, `AtomicAssign`,
`GetCurrentAssignment`, ...), and the call of the MC is another, which accepts, refuses or
loses its reply. Two history variables say what an answer may not count on: `void` has the
requests whose MC was not live all the time since they chose it, `purged` those whose
assignment the clean-up task deleted, of a live MC or not.

**Registration.** A server (MC or MH: their tasks and tables have the same shape) that
registers, sends heartbeats, is marked stale, loses its row and registers again. A call that
timed out may still be handled at any later time (`HandleLate`). Time never moves past a due
timer. `missed` counts the heartbeats in a row that failed.

**MediaSession.** One meeting on one MH: the messages of the session manager, the task of
each client connection cut at its awaits, the registration calls of MCs with their retries,
and the notices back to the MCs' registries with theirs. `known` is a history variable.

**KeyTimes, KeyRing, SigningKeys, Credentials.** `SigningKeys` is the AC's table of keys:
replicas that see to a first key at start-up and rotation requests, statement by statement,
under the advisory lock, with rollbacks and crashes. `KeyRing` is what it promises: keys are
added, replaced and expire in one step each, and rotations are at least
`MinForced - TxMax` apart. `SigningKeys` implements `KeyRing` (`ImplementsKeyRing`), and
`Credentials` is built on `KeyRing`: the token manager of one service and the validations
of another, which share one JWKS cache. `KeyTimes` has the clock and limits in common.

**Clients, Users, Lobby.** The request handlers of the AC for service clients and for users,
and of the GC for meetings, cut at their database calls, any of which may fail with or
without effect, or be the last thing a dropped handler did. Rows of the audit log are what
the limits count.

**Gate.** The claims that the AC signs and every check that admits a caller, in the four
services, under clocks that differ by at most the skew. A token is the record of its claims.

**Journey.** A user's way through the services while some of them are broken: which error of
a hop becomes which answer of the next, whose text is shown, what is counted, and the
connection counter of the MH. A rotation of the keys is one of the things that may happen:
whoever has a fresh cache then refuses a sound token (`get_key`), others fetch.

**Lifecycle.** The four `main`s from start to exit, with readiness, an outage, a crash, a
failed bind, SIGTERM, the drain and the grace period. The MC's wait for its actors has no
limit, as in the code: `initiate_shutdown` does not look at its deadline.

**Settings.** What each service takes from its environment, refuses, clamps or casts, and
what the GC writes of an MC or MH that registers. Integers have their width, scaled, and so
has the cast of the staleness threshold (`Threshold`).

**Helper, Ports, Cluster.** The devloop helper: threads of connections, the one write at a
time with its process group and its cancel (`Helper`); the port registry of a host with
helpers that die and process ids that are used again (`Ports`); and the commands of setup,
rebuild, deploy, teardown and status with the images and pods they act on (`Cluster`). A
process group is a leader, a descendant that holds the pipes, and a port-forward as setup.sh
leaves it, which does not; a reader may end before its pipe. The registry's file is truncated
in one step and filled in another, and a failure or a death in between loses it. In `Cluster`
`setup.sh` is modelled service by service (it restarts mc and mh, and neither ac nor gc),
it may stop at any of them, and a helper that exits leaves its archive as it is and its
command running (`orphans`).

**Scanners, Guards, Catalog.** dt-guard: the line scanners as loops, each compared with a
definition of its result without a loop (`Scanners`); the guards that judge a branch, from
the first edit to the merge, where git may take any two contents that are `Alike` for a
rename (`Guards`); and those that keep metrics, dashboards, alerts,
labels and settings in step (`Catalog`).

### How they fit together

`Assignment!McAccepts` is what starts a `Meeting`, and `Controller` is the path in between;
its joins are those of `Meeting`, its Redis calls those of `FencedRedis`. The first `Join`
starts `MediaSession!StartRegistration`. `Registration` details what `Assignment` leaves
open: `Assignment` allows every order of registrations, heartbeats and health checks, so its
results do not depend on timing. `Mailboxes` details the channel that `Meeting` takes to be
unbounded: the liveness of `Meeting` holds as long as no circular wait occurs. `Credentials`
is composed with `KeyRing`, which `SigningKeys` implements. `Lobby` takes an assignment to
succeed or fail, `Gate` takes a token to be signed by a key that is known.

Parts that share no state and need no run of their own share one: a variable `part` says
which of them a behaviour runs, and the others rest (`MCMeetingLiveness`, `MCController`,
`MCKeysAndMedia`, `MCLifecycle`, `MCAccess`, `MCBoundaries`). This asks the same of each
part as a run of its own would.

## The runs

| run | instance | shows |
|---|---|---|
| `meeting` | two participants (one a host), three connections, grace and token life of one tick; 1.9 M states | ids (`CorrelationExact`), supervision (`Supervised`), gauges (`Counted`) and rosters (`RosterConsistent`) stay consistent; a host's mute is lifted only with a host present (`HostMuteBinds`) |
| `meeting_liveness` | one participant over three connections; mailboxes of one slot and three participants; 0.16 M | ghosts are removed (`NoGhosts`), a cancelled meeting stops (`CancelledStops`); no slot or notice is lost (`NothingLost`), ends are noticed (`ClosedIsNoticed`) unless there is a circular wait, which never ends (`StuckForever`) |
| `mailboxes_deadlock` | the same mailboxes | expected violation of `NoDeadlock`: a circular wait is reachable |
| `controller` | two assignment calls, two meetings, two clients; three Redis calls at once, generations up to 3; 2.3 M | `MeetingsCounted`, `AssignmentKept`, `ConnectionsEnd`; fencing (`Fenced`) and the higher generation wins (`NewerWins`) |
| `assignment` | two MCs, two requests; 2.7 M | answers name one controller that accepted and stand while it lives and the meeting is not purged (`AnswersHold`); requests end (`RequestsEnd`) |
| `assignment_purge` | the same | expected violation of `PurgesEnded`: the clean-up task deletes the assignment of a live MC |
| `lifecycle` | four processes and one trouble; one server with the code's timing in ticks of five seconds; 64 k | `LifeCorrect` (requests before SIGTERM are answered, an MH takes clients when the GC may send them and stops in time, an MC is killed only while it waits for its actors), `ComesUp`; one lost heartbeat is tolerated (`KeptAlive`), servers register, notice a lost row and come back (`Recovers`) |
| `keys_and_media` | two replicas, two rotations; two connections of two participants, two MCs, two attempts, room for one; 0.34 M | `KeysInOrder`, `NeverKeyless`, and `KeyRing` is implemented; the session tables and registries (`Tracked`), and the end of waiting (`ConnectionsSettle`) |
| `credentials` | one token manager, two validations, one rotation, outages of one tick; 5.4 M | `TokenUsable`: the held token is not expired, and replaced in bounded time when its key is retired; `VerdictsFollowJwks`: a verdict is behind the published keys by the life of a copy and one fetch at most |
| `credentials_overlap` | the same | expected violation of `OldTokensWork`: a validator with the latest keys refuses a token of the key before |
| `access` | two handlers at once per service with one fault; three tokens; three connections of a helper; three helpers of two slugs; ACCN | `ClientsCorrect`, `UsersCorrect`, `LobbyCorrect`, `GateCorrect`, `ToolsCorrect`, `TokenAsSettings` |
| `boundaries` | see the cfg; BNDN | `JourneySound`, `CallsSound`, `SettingsSound`, `ClusterSound`, `GuardsSound`, `CatalogSound` |

The invariants of the last two have one conjunction per part, because the promises of a
part are about the same few variables and rest on one another in its proof. Each conjunct is
a definition of its own, with its comment and, where it has exceptions, what they are; the
last state of a counterexample shows which of them fails:

* Clients: `LockoutBound`, `SecretKnown`, `TrailKept`. Users: `UserLockoutBound`,
  `RegistrationBound`, `OwnerKept`, `RolelessExplained`. Lobby: `OrgLimitBound`,
  `CodesApart`, `NoLostSetting`. Gate: `PurposeKept`, `EntryGranted`, `CallsServed`. Tools:
  `WritesApart`, `CancelNamed`, `SlotHasWriter`, `StoppedIsCancelled`; `OneSlotEach`,
  `SlotHeld`, `MapIsCluster`.
* Journey: nobody is blamed for what is broken elsewhere (`FairBlame`), outages and labels
  are true (`TrueOutage`, `TrueLabel`; the validators' own counters are not, see below), no
  inner text is shown (`Opaque`), nobody flawed gets in (`NoneFlawedIn`), and every join is
  counted once (`Metered`, `SlotsCounted`).
* Calls: a reply means done once, an error not done (`AnswersTrue`), made-up answers are
  given for actors that are gone only (`MadeUpOnlyWhenGone`), the monitor (`DepthInHand`),
  and while a call waits some task can go on, or the meeting and a participant are in the
  circular wait of `mailboxes_deadlock` (`NobodyStuck`).
* Settings: `WithinLimits`, `RowsHonest`. Cluster: `OkRuns`, `NoStaleArchive`,
  `SetupComplete`, `HealthyIsUp`.
* Guards: `LandedClean`, `TrunkConsistent`, `PlanKept`, `TestsKept`, `PassCarries`;
  scanners: `PlanIsTable`, `DebtFound`, `MirrorIsList`, `OnlyTestsSkipped`, `GlobIsMeaning`.
* Catalog, of a tree that every guard accepts: `PanelsShow`, `AlertsFire`, `EmittedIsKnown`,
  `PodStarts`, `LabelsSet`, `LabelsSafe`, `SuffixNamesRefused`.

Several of these properties state the exceptions that the code has; what is behind them is
listed under the disagreements below.

### Why the bounds are enough

Three connections for two participants let one participant reconnect while its old
connection is still ending and the other one is present; the history that matters (a late
notice after a reconnection, then a second notice) needs no more. Grace and token life need
only "not yet" and "over". `EndsUnmuted` leaves out meetings that end while somebody is
muted; the proofs do not. Redis calls interact in pairs, the third lets a pair race after a
first store. Two requests race in every statement, and a third would only repeat the
second's part; the proofs cover any number. Mailboxes of one slot fill soonest, and three
participants are needed for a joiner, a closer and one who is told. `Retries` has the code's
value 3. A registry with one slot reaches its limit with two connections. Servers do not
interact in `Registration`, so one is enough, and the ticks keep the ratios of the code's 10
s, 10 s and 30 s. `Lifecycle` keeps the order of the code's limits (drain 30 s, MC and MH 2
s, grace 35 s). `Credentials` keeps their order too; its time ends within the first token's
life of 8, which leaves room for a rotation, a refresh before and one after it, and a copy
of the keys that has gone stale. Handlers of one service race in pairs, and one fault hits
each of their steps. Each behaviour of `Cluster` has one `focus`: two helpers that take each
other's tags, a helper that exits, or setups and status from nothing. All at once would be
too large for TLC; the proofs hold for any of them together (`Foci`). The repository of
`Guards` has contents that git takes for the same file though they differ, and a plan with a
row for a whole directory. Settings are tried at and beside each limit, one at a time: a
service reads each variable by itself. The trees of `Catalog` differ in up to three parts
from an accepted one, so that a fault in one part may be hidden by changes of two others.
Files of six lines hold an attribute, an item and its end with something before, between and
behind.

Symmetry is used in runs without liveness only, over things that no definition tells
apart; `InOrder` is the same idea for numbered ones, which are first used in order.
Deadlock checking is off where a system may stop: a meeting that ended, a mailbox instance in
which everyone has come and gone, a part at its bounds.

### Fairness

The runtime polls every task that is ready, so the tasks' own steps are weakly fair:
handlers of queued notices, timers, participant actors that finish, connection tasks,
deliveries, the steps of a `main`. Nothing is assumed of clients, of crashes or of signals.
Two things are assumed of what is outside. In `Registration` a call that is made again and
again is some time answered (strong fairness of `HandleRegister`, `HandleHeartbeat` and
`HeartbeatNotFound`): that is what it means for the GC to be reachable again, and without it
no server could ever register. In `Lifecycle` an outage of PostgreSQL or Redis ends, and of the
attempts to get a first token one succeeds if again and again one could. `RequestsEnd` and
`NobodyStuck` assume no fairness: they are a rank that each step lowers, and a step that is
possible.

## The proofs

Each `...Proofs` module proves, for every value of the constants its ASSUMEs admit, that
an inductive invariant holds, and from it the invariants and action properties that the
runs check. The invariant is the conjunction of the checked invariants with what they need:

* `MeetingProofs`, of `Meeting`: the checked invariants, and in `Structure` that every
  managed connection and every correlation id in use belongs to a connection that was made,
  and that notices come from actors that have ended. Without it a join could reuse an id, or
  a removal take away something that is not there. Participants and connections are any
  finite sets.
* `MeetingProofs`, of `Mailboxes`: no message is under way twice (`SentOnce`), what is under
  way fits the state of its sender (`SendersKnown`), and the notice of every closed
  participant that the meeting has a handle of is under way (`HandlesKnown`).
* `ControllerProofs`: the counters as sizes of sets of tasks: the meeting count against the
  calls that have created and not yet counted or were dropped, the connection counter
  against the tasks in their phases; `Halting` ties shutdown to what has ended, and
  `StoreKept` follows, per meeting, which call wrote the MH assignment and which may still
  take it away or has done so. For Redis, `Claimed` adds that the token of a store under way
  is not above the generation and differs from that of the stored value and of every other
  store.
* `AssignmentProofs`: `RowsSound`, `TasksSound`, `CountsOnLive`: rows and answers name MCs
  of their region that accepted, and a request that counts on an MC counts on a live one
  whose row was not purged. A live MC is never replaceable, from which `OneController`
  follows. `RequestsEnd` is proved from `TriesBounded`: an MC is called only while an
  attempt is left and was not tried before, so four times the attempts left plus the stage
  of the present one goes down.
* `LifecycleProofs`, of `MediaSession`: who is in which table in which phase (`Unlisted`,
  `WaitersListed`, `WokenPromoted`), and notices tell the truth about their connection
  (`NoticesTrue`).
* `LifecycleProofs`, of `Registration`: the age of a running server's row is bounded by the
  intervals that failed heartbeats have cost plus the time since the last call (`RowKept`),
  and no call outlasts its timeout. With `(Tolerated + 1) * Interval + RpcTimeout <=
  Staleness`, which is `TimingAssumption`, the bound stays within the threshold. For the
  code's values it gives `Tolerated = 1`: a second lost heartbeat in a row may cost a server
  its place. Of `Lifecycle`: `LifeShapes` (which steps of a main go with which open ports
  and tasks), `ClientsFirst` (an MH opens its endpoint before it registers) and `AgesGood`
  (how old a request and a shutdown can be in each phase; in the MC's last one, any age up
  to the grace period).
* `KeysProofs`, of `SigningKeys`: one transaction holds the lock (`OneHolder`), what it read
  under the lock is still so (`StillApart`, `InTime`), ids of a prefix have no gap (`NoGap`,
  `IdsCounted`), and what a transaction under way will store is known (`Pending`). From it
  follow the distance and order of keys, that only time takes the last key, and step by step
  that `KeyRing` is implemented. Of `Credentials`: when each timer is set and what the token
  then outlasts (`TimersSet`, `TokenKept`), that a cached or fetched answer is the published
  set of some moment (`CacheSound`, `FetchSound`) and how far that moment is back (`Lags`),
  and the bounds of an outage (`Outages`, `InPace`). The limits must fit together
  (`CredentialsAssumption`: the threshold covers an outage, a back-off and a request).
  `TokenUsable` has one hypothesis, `[]KeyAtHand`: the AC has a current key. Nothing in the
  code rotates keys by itself, so without a rotation within the validity of the last key the
  AC can sign nothing, and no token manager can help that.
* `AccessProofs`, one invariant per part: failures plus the handlers past the check are at
  most the limit plus the handlers less one, and a secret is made once (Clients); the same
  for the two limits and the roles (Users); what an insert under way has counted (Lobby);
  the four shapes of tokens and who can hold one (Gate); which threads are in the slot, that
  the count is the number of open threads, and that a writer goes on only without its leader
  (Helper); process ids of running helpers apart, each slug with its slot, the chosen slot
  free, by the least free one, and one writer of the registry at a time (Ports).
* `BoundariesProofs`, of `Settings`: one lemma per service on what a start that was not
  refused has checked, and the casts and clamps (`ClampFacts`) over the widths of
  `WidthAssumption`; of the environment only its type is known (`SettingsTyped`,
  `SettingsAssumption`). Of `Journey`: what the hops behind a visit have ruled out
  (`Cleared`), that whatever is broken was seen to break, what the GC has counted at each
  place (`Counted`), and that every answer fits (`Fits`): an answer is judged once, when it
  ends the visit, because nothing it is judged by changes afterwards. The number of failures
  and of connections is not bounded. Of `Calls`: the message of each request is in exactly
  one place, which is the one its fate names, so nothing else can answer it. `NobodyStuck`
  is stated with the guards of the actions (`CanStep`) instead of ENABLED, and follows by
  cases on where the message is and what the actor there waits for; the one case in which
  nobody can go on is `CircularWait`. Of `Cluster`: what a write has still to do says how
  far its cluster is: the store behind the tag is built unless another write has taken it,
  an image is saved directly before it is loaded, after the load it is in the cluster and
  its pods are due, restarting or running it, and the facts of a setup by the steps it has
  left. A cluster that is calm and not busy has no write. What an exited helper has left in
  the archive is replaced by the save before every load, and a write begun beside one of its
  commands is marked (`spoiled`).
* `GuardsProofs`, of `Catalog`: a verdict is for the tree as it is and its parts are typed
  (`CatalogAssumption`); each promise then follows from several guards together. Of
  `Guards`: a green verdict stands for facts about tip and base that only a change of the
  branch ends; what others land is no plan and removes no test. Git's pairing of renames
  exists because the repository is finite (`GuardsAssumption`), and nothing is assumed of
  `Alike` but that a file is like itself. Of `Scanners`: the flags of each loop say what the
  lines read so far say (the first heading, section or anchor; the parity of fences; the
  comment directly above; the depth as braces counted). A test block ends where the count of
  braces comes back, and a block inside it ends within it, by the values the count must pass
  on its way. For the globs, one asterisk to go back to suffices: every cut of the path that
  could still match begins where the present attempt did, or has no slash before where it
  is; `Means`, the reference, is defined by cuts and not by recursion. The induction over
  the lines is carried by the state invariant and by least elements, so files, paths and
  globs may have any length.

Every invariant and every action property that a passing run checks is stated by a theorem.
Only model-checked, because it is out of the prover's reach, is liveness under fairness:
`NoGhosts`, `CancelledStops`, `ClosedIsNoticed`, `ConnectionsSettle`, `ComesUp` and
`Recovers`. That `CanStep` of `Calls` is the enabledness of an action is a matter of reading
the guards; ENABLED itself is not used in a proof.

## Where the code and its words disagree

Three disagreements have a run that shows them:

* `mailboxes_deadlock`: the meeting awaits a participant's mailbox while that participant,
  closing, awaits the meeting's (`meeting.rs:1183`, `participant.rs:303`). ADR-0001 says "No
  deadlocks".
* `assignment_purge`: `atomic_assign` takes over an ended row and does not clear `ended_at`
  (`meeting_assignments.rs:224`), so that the clean-up task, which "hard-deletes old ended
  assignments", purges the assignment of a live MC (`:505`).
* `credentials_overlap`: the JWKS lists active keys only and a rotation deactivates the old
  one in its transaction. ADR-0008:118 has an overlap of a week, ADR-0003:302 says
  "**One-week overlap** allows services to refresh JWKS without rejecting valid tokens", and
  `key_rotation_tests.rs:619` that tokens signed with the OLD key must still work.

The others came up while modelling; the models do what the code does.

Meetings and controllers

* `meeting.rs:1147`: `check_connection_health` removes the connection before
  `handle_disconnect`, which then does not call `connection_closed`: the gauge of
  `metrics.rs:330` ("Total connections currently active.") stays one too high after a panic.
* `meeting.rs:1190`: `graceful_shutdown` does not take its participants off the count.
* `meeting.rs:681`: the notice of an old connection marks a participant disconnected who has
  already reconnected; it then has to reconnect again within the grace period.
* `session.rs:219`: the life of a binding runs from the join, while ADR-0023 promises a time
  after the disconnection; a participant who has been in for longer cannot reconnect.
* `connection.rs:388` (MC): when the JoinResponse cannot be written the participant's actor
  is not cancelled; its comment says that the actor will detect the disconnection. There is
  no time limit for a connection's first message.
* `mc_service.rs:122`, `:271`: the meeting counter is checked and incremented apart and,
  against the doc at `:59`, never decremented; `:287`: a duplicate assignment deletes the
  live meeting's MH assignment.
* `controller.rs:573`: `remove_meeting` has no production caller, so entries of finished
  meetings stay in the MH registry. After SIGTERM new meetings are accepted for 2 s; main
  returns as soon as Shutdown is answered.
* `MailboxMonitor` records a message when it is received, so depth and peak are 0 or 1, and
  `record_drop` has no caller; the docs want them for backpressure. `GetMeeting` of a dead
  meeting answers zeros, called cached info; the MH's handle answers default values when its
  actor is gone.
* `redis/client.rs:545`: `delete_meeting` removes the generation key without a fence, after
  which generations start again at 1; `:388`: a delete uses a token nobody handed out.
* Guest tokens are issued, but the MC's connection handler accepts meeting tokens only.

Placement, registration and media

* `meeting_assignments.rs:441`: the stale-assignment task selects by meeting id alone and
  also ends rows of healthy MCs in other regions, against the comment at `:434`; `:505`:
  the purge deletes by meeting id alone.
* A lost reply of an MC leaves it hosting a meeting without a row; it refuses the meeting
  from then on. A join assigns before it asks the AC, whose failure leaves the assignment.
* `gc_client.rs:333`, `:386`: after NOT_FOUND and one failed attempt, a server sends no
  heartbeat and never registers again; `main.rs:532` says it "will retry on next heartbeat"
  (MH: `gc_client.rs:229`, `main.rs:359`).
* MH `connection.rs:237`, `:284`: a `RegisterMeeting` handled between the check and
  `add_pending_connection` wakes nobody, and the client is timed out from a registered
  meeting, against the comments at `:40` and `session/mod.rs:237`. A promotion that races the
  time-out leaves an active entry behind; a disconnect notice that overtakes the connect
  notice leaves a participant listed; the end of one connection hides the second one of the
  same participant; registered meetings are never removed; `mh_connection_registry.rs:72`
  checks the limit before it looks for a duplicate.

Keys, clients, users, meetings

* Beside the overlap (`admin_handler.rs:139` promises it too): an unknown kid is refused while
  the cache is fresh (`jwt.rs:880`), so after a rotation tokens of the new key are refused for
  up to the life of a copy. The AC's own middleware verifies with the active key only.
* `main` names boot keys by `CLUSTER_NAME` (default "us"), the rotation by `AC_CLUSTER_NAME`
  (default "default"); replicas that start at once can make two active keys; `created_at` is
  the start of a transaction.
* `handle_delete_client` fails by the foreign key of `auth_events` as soon as a client has
  any event, and deactivation has no caller: clients cannot be revoked through the API.
* The registration limit counts every successful login from the address, and a registration
  logs two: it is half of what it says. A count that fails counts as 0, for the lockout too.
* `register_user` may fail between user and role; a retry says "already exists", and a login
  gets a token without roles.
* `repositories/meetings.rs:8` "Atomic CTE prevents TOCTOU race": not under READ COMMITTED.
  Codes are unique per organisation, but `find_meeting_by_code` looks by code alone. No code
  ends meetings, so the limit fills up.

Answers and settings

* The MC answers Unauthorized "Invalid or expired token" for every failure of a validation,
  the AC being unreachable included, and the MC's connections (`connection.rs:215`) and the
  gRPC layers count it as "signature_invalid"; the GC passes the AC's 403 on. The GC's 30 s
  limit answers 408 while its retries run, and the dropped join is not counted; a failed
  look-up counts as "not_found". MH `server.rs:196` sets its gauge outside of the atomic.
* `mc main.rs:184` "clock_skew_seconds bounded to <=600": only in `JwtValidator::new`;
  values from 2^63 become 0. The skew's default is 5 s in the MC, 300 s elsewhere and fixed
  in the MH. `MC_MAX_MEETINGS=0` is accepted by the MC and refused by the GC for ever; `gc
  mh_service.rs:160` casts `max_streams` to a negative number; a staleness from 2^63 is
  negative (`generic_health_checker.rs:54`), and every server is then stale at once;
  `GC_CLEANUP_INTERVAL_SECONDS=0` panics; negative hours and days are accepted;
  `RATE_LIMIT_RPM` and some MC settings are unused; AC validation errors are 401 or 500.

Start-up and shutdown

* `main.rs:285` (MC) "Start gRPC server BEFORE GC registration": the bind is in a spawned
  task, whose failure is only logged while the process becomes ready (MH `:199`). The MC
  registers before its WebTransport endpoint is bound, the MH (`:227`, citing ADR-0010)
  after.
* `ac main.rs:191`: the comment says that after SIGTERM nothing more is accepted and
  readiness fails; the drain is inside of the shutdown future, so requests come in during it
  and can be killed at 35 s. The GC stops its health checkers at the signal and serves 30 s
  more; its gRPC server is dropped when HTTP ends. The MC's `shutdown(30 s)` has no limit:
  `initiate_shutdown` ignores its deadline (`controller.rs:600`), the call awaits its answer
  (`:180`), and an actor that is stuck means SIGKILL at the end of the grace period. GC
  readiness is said to fetch the JWKS, and looks whether a URL is set. The MH's 2 s are
  shorter than its notices' retries.

devloop helper

* Image tags are shared by all helpers of a host, so a rebuild may load another developer's
  image. A cut-off save leaves a part of an archive, a helper that exits between save and
  load a whole one. A setup of a cluster that is there restarts mc and mh only
  (`setup.sh:521`, `:594`): ac and gc go on with their old image after an ok. A teardown
  leaves `ports.json`, `kubeconfig` and `port-map.env`, and a later status reports them. A
  rebuild cut off between load and restart, or between two pods, leaves old or mixed
  revisions that are healthy, and status may say healthy before a rollout has begun.
* main exits without waiting for writers, whose commands may go on. setup.sh leaves its
  port-forwards running in the command's process group (`setup.sh:703`). `write_registry`
  truncates the registry before it writes it (`ports.rs:159`), and an empty file reads as
  one without entries (`:138`): all slots are free again. A cancelled teardown whose client
  is gone too is taken as done (`commands.rs:1200`). A descendant that ignores SIGTERM is
  not killed once its leader is gone, and the slot stays busy. `verify_ports_available` asks
  127.0.0.1 while clusters listen on the gateway address. `ports.rs`: a recycled process id
  is said to have low impact, and can cost a setup its slot; a restarted helper may get
  another slot than its cluster has; an entry stays when the check after it fails.

dt-guard

* Test blocks: an opener on the attribute's line, an attribute on a statement and a lifetime
  before a brace mislead the depth count, and so do braces in a string of several lines:
  production lines are skipped. `OnlyTestsSkipped` is stated for files without them
  (`Plain`); `test_code_filter.rs:124` calls it fail-safe-broad. The table parser takes
  empty cells for a separator and a second header for a row.
* `git_changes.rs:21` "NO -M/-C rename detection": git's default detects renames, so a moved
  test, edited or not, is not reported and a moved file's old path is not compared with the
  plan. ADR-0024:387 routes every edit of a guarded area to its owner; a row with a glob
  over one needs none (`cross_boundary_classification.rs:103`, `:142`). Failing git commands
  look like a clean tree; a dirty file hides committed drift; a verdict may be used after
  main has moved; `.tsx` is not scanned for PII.
* Metrics: an unreadable board is a warning to one guard and an error to another; a longer
  metric name covers a shorter one in tests; descriptions count for one guard only; a
  counter used bare beside a rate, `x_count` of a counter and a bare histogram pass; names
  that end like a histogram's series are refused by one guard and required by another;
  labels after the first, panels in rows and targets without a type are not looked at;
  `raw_password` with a pii-safe marker passes although Category A is "non-bypassable"
  (`metric_labels.rs:5`); a marker exempts the next line too; a label key that is no literal
  is not seen; of a name emitted with two kinds the last one found counts
  (`dashboard_panels.rs:96`; `Catalog` takes both and has no such tree).

## Plan

Every component with state of its own is modelled, and each safety property that a run
checks is proved. What could be added:

1. More of the code that is modelled in part: which two handlers a selection draws by their
   weight, and the guards of dt-guard that the component's note leaves out.
2. A second refinement beside `KeyRing`: the join of a meeting as one atomic step of an
   abstract roster, implemented by `Meeting` with `Mailboxes`.
3. Liveness has no theorem. Where a rank exists (`RequestsEnd` of `Assignment`), that each
   step lowers it is proved, and the fairness that turns it into an end stays with TLC.
