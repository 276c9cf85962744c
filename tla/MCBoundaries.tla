--------------------------- MODULE MCBoundaries ---------------------------
(* Seven parts that share no state, so each behaviour runs one of them while    *)
(* the others rest: the journey of a user through the services, calls through   *)
(* mailboxes, the services' settings, the Kind clusters of two devloops, and    *)
(* the guards of dt-guard: its scanners, its judgement of a branch and its      *)
(* judgement of metrics, boards, alerts and settings.                           *)
EXTENDS Journey, Calls, Settings, Cluster, Scanners, Guards, Catalog, TLC

CONSTANTS
    d1, d2,
    Word,      \* not a number
    Resting    \* the value of a variable of a part that rests

VARIABLE part
partVars == <<part, journeyVars, callsVars, settingsVars, clusterVars, scannersVars, guardsVars, catalogVars>>

JourneyRests ==
    /\ visit = Resting /\ answer = Resting /\ broken = Resting /\ troubles = Resting
    /\ fresh = Resting /\ meter = Resting /\ slots = Resting /\ others = Resting
CallsRest ==
    /\ mailbox = Resting /\ busy = Resting /\ actor = Resting /\ cancelled = Resting
    /\ managed = Resting /\ query = Resting /\ asked = Resting /\ fate = Resting
    /\ answers = Resting /\ done = Resting /\ told = Resting /\ monitor = Resting
SettingsRest ==
    /\ env = Resting /\ cfg = Resting /\ mcRow = Resting /\ mhRow = Resting
    /\ signed = Resting /\ sets = Resting
ClusterRests ==
    /\ runtime = Resting /\ sources = Resting /\ store = Resting /\ node = Resting
    /\ files = Resting /\ tar = Resting /\ op = Resting /\ cancelSet = Resting
    /\ orphans = Resting /\ result = Resting /\ writes = Resting /\ probe = Resting /\ focus = Resting
ScannersRest == scanner = Resting /\ text = Resting /\ scan = Resting
GuardsRest ==
    /\ trunk = Resting /\ base = Resting /\ prior = Resting /\ log = Resting
    /\ work = Resting /\ tracked = Resting /\ green = Resting /\ moved = Resting
    /\ edits = Resting /\ blind = Resting /\ landed = Resting
CatalogRests == tree = Resting /\ revised = Resting /\ accepted = Resting

Init ==
    /\ part \in {"journey", "calls", "settings", "cluster", "scanners", "guards", "catalog"}
    /\ IF part = "journey" THEN JourneyInit ELSE JourneyRests
    /\ IF part = "calls" THEN CallsInit ELSE CallsRest
    /\ IF part = "settings" THEN SettingsInit ELSE SettingsRest
    /\ IF part = "cluster" THEN ClusterInit ELSE ClusterRests
    /\ IF part = "scanners" THEN ScannersInit ELSE ScannersRest
    /\ IF part = "guards" THEN GuardsInit ELSE GuardsRest
    /\ IF part = "catalog" THEN CatalogInit ELSE CatalogRests

Next ==
    /\ UNCHANGED part
    /\ \/ /\ part = "journey" /\ JourneyNext
          /\ UNCHANGED <<callsVars, settingsVars, clusterVars, scannersVars, guardsVars, catalogVars>>
       \/ /\ part = "calls" /\ CallsNext
          /\ UNCHANGED <<journeyVars, settingsVars, clusterVars, scannersVars, guardsVars, catalogVars>>
       \/ /\ part = "settings" /\ SettingsNext
          /\ UNCHANGED <<journeyVars, callsVars, clusterVars, scannersVars, guardsVars, catalogVars>>
       \/ /\ part = "cluster" /\ ClusterNext
          /\ UNCHANGED <<journeyVars, callsVars, settingsVars, scannersVars, guardsVars, catalogVars>>
       \/ /\ part = "scanners" /\ ScannersNext
          /\ UNCHANGED <<journeyVars, callsVars, settingsVars, clusterVars, guardsVars, catalogVars>>
       \/ /\ part = "guards" /\ GuardsNext
          /\ UNCHANGED <<journeyVars, callsVars, settingsVars, clusterVars, scannersVars, catalogVars>>
       \/ /\ part = "catalog" /\ CatalogNext
          /\ UNCHANGED <<journeyVars, callsVars, settingsVars, clusterVars, scannersVars, guardsVars>>
Spec == Init /\ [][Next]_partVars

\* A user is told what went wrong and by whom, and no more (the answers of all services).
JourneySound == part = "journey" => JourneyCorrect
\* A call through a mailbox is done once or refused, and no caller waits for ever.
CallsSound == part = "calls" => CallsCorrect
\* What a service runs with and what the GC records of it are in the limits of the code.
SettingsSound == part = "settings" => SettingsCorrect
\* What a helper reports of its cluster is so, up to the images another helper built.
ClusterSound == part = "cluster" => ClusterCorrect
\* The scanners of dt-guard read files as their comments say, and a branch that every
\* guard accepts keeps what the guards are for.
GuardsSound == (part = "scanners" => ScannersCorrect) /\ (part = "guards" => GuardsCorrect)
\* A tree that every metrics guard accepts shows, documents and tests what is emitted.
CatalogSound == part = "catalog" => CatalogCorrect

\* Callers are interchangeable, so what they ask is in the order of Asked; devloops are
\* until they first do something, so d1 is the first to act.  Where one devloop is looked
\* at, it is d1 and the other one does nothing.
Rank == [GetMeeting |-> 1, JoinConnection |-> 2, RemoveMeeting |-> 3, EndMeeting |-> 4, Shutdown |-> 5,
         Close |-> 6, IsMeetingRegistered |-> 7]
Untouched == writes = 0 /\ \A d \in Devloops : probe[d].at = "idle" /\ \A s \in Services : sources[d][s] = 0
\* Each focus has the writes it is about: where two devloops write, mc alone is rebuilt and
\* nothing cancelled, and where a devloop is asked for its status, its tree stays as it is.
WritesOnly == {}
Exits == {"exits"}
Status == {"status"}
ClusterFoci == {WritesOnly, Exits, Status}
Asks == [tags |-> {"none", "setup", "rebuild"}, exits |-> {"none", "setup", "rebuild", "deploy", "teardown"},
         status |-> {"none", "setup", "rebuild-all", "teardown"}]
Focused ==
    /\ \A d \in Devloops : op'[d].cmd \in Asks[IF focus = Exits THEN "exits" ELSE IF focus = Status THEN "status" ELSE "tags"]
    /\ focus = WritesOnly => \A d \in Devloops : ~cancelSet'[d] /\ sources'[d]["ac"] = 0 /\ (op'[d].plan # <<>> => op'[d].plan[1] # <<"build", "ac">>)
    /\ focus = Status => sources' = sources
InOrder ==
    /\ part = "cluster" => Focused
    /\ part = "calls" => \A r, q \in Request :
            (r[1] < q[1] /\ asked'[r] # "none" /\ asked'[q] # "none") => Rank[asked'[r]] <= Rank[asked'[q]]
    /\ (part = "cluster" /\ (focus # WritesOnly \/ Untouched)) =>
            sources'[d2] = sources[d2] /\ op'[d2] = op[d2] /\ probe'[d2] = probe[d2]
-----------------------------------------------------------------------------
(* Settings. *)
\* Numbers around every boundary, and words that are no numbers.
Edges(S) == {n + d : n \in S, d \in {-1, 0, 1}}
Edited ==
    [v \in Numeric |->
        {Unset, Word} \cup Edges({0, Half32, 2 * Half32, Half64, 2 * Half64, SkewMax, WaitMax}
            \cup (IF v \in DOMAIN Limits THEN {Limits[v].min, Limits[v].max} ELSE {}))]
    @@ [v \in Required \cup Optional |-> {Unset, "empty", "long", "grpc", "bad"}]

-----------------------------------------------------------------------------
(* A repository of seven files. *)
PlanRow(e, c, o) == [entry |-> e, class |-> c, owner |-> o]
GuardRepo == {"lib.rs", "view.ts", "view.test.ts", "more.test.ts", MainMd, IndexMd, Stray}
GuardContents ==
    [p \in GuardRepo |->
        CASE p = "lib.rs" -> {{}, {"assign"}, {"instrument", "skip"}}
          [] p = "view.ts" -> {{}, {"field"}, {"log", "pii"}}
          [] p = MainMd -> {{}, {"lib"}, {"owned"}, {"wrong"}, {"crates"}, {"crates", "view"}}
          [] p = IndexMd -> {{}, {"lib.rs"}}
          [] OTHER -> {{}}]
GuardRows == [lib    |-> PlanRow("lib.rs", "Mechanical", ""),
              owned  |-> PlanRow("lib.rs", "Not mine, Minor-judgment", "auth"),
              wrong  |-> PlanRow("lib.rs", "Not mine, Minor-judgment", "media"),
              crates |-> PlanRow(Crates, "Mechanical", ""),
              view   |-> PlanRow("view.ts", "Mine", "")]
GuardAlike == {<<{}, {"field"}>>}
GuardOwners == [p \in {"lib.rs"} |-> {"auth"}]
-----------------------------------------------------------------------------
(* A tree with two metrics, its boards and alerts, and what may replace each part. *)
joins == <<"mc", "joins">>
live  == <<"mc", "live">>
time  == <<"mc", "time">>
outs  == <<"mc", "time", "outs">>
seats == <<"mc", "seats", "count">>
delay == <<"mh", "delay">>
pods  == <<"kube", "pods">>
rows  == <<"log", "lines">>
Macro(d, k, n) == [dir |-> d, kind |-> k, name |-> n]
Term(n, f, w, l) == [name |-> n, fns |-> f, window |-> w, labels |-> l]
Query(e, ds) == [expr |-> e, ds |-> ds, uid |-> "none", mode |-> TRUE, range |-> TRUE]
Panel(e) == [type |-> "graph", unit |-> TRUE, uid |-> "template", ds |-> "prometheus", ignore |-> "none",
             targets |-> {Query(e, "prometheus")}, nested |-> {}]
Row(ps) == [type |-> "row", unit |-> FALSE, uid |-> "none", ds |-> "none", ignore |-> "none",
            targets |-> {}, nested |-> ps]
Rated(n) == {Term(n, {"sum", "rate"}, "rate_interval", <<>>)}
Bare(n) == {Term(n, {"sum"}, "none", <<>>)}
LogPanel(e) == [Panel(e) EXCEPT !.type = "logs", !.ds = "loki", !.targets = {Query(e, "loki")}]
Base == {Panel(Rated(joins)), Panel(Rated(time \o <<"bucket">>))}
Boards(o, t) == [overview |-> o, template |-> t]
Alert(e) == [alert |-> TRUE, expr |-> e, for |-> "1m", severity |-> "page", runbook |-> "mc.md",
             text |-> "plain", ignore |-> "none"]
Quick(e) == [Alert(e) EXCEPT !.for = "10s"]
RuleFiles(r, t) == [core |-> r, template |-> t]
Emitted == {Macro("mc", "counter", joins), Macro("mc", "histogram", time)}

Line(k, key, v, mk) == [kind |-> k, key |-> key, value |-> v, marker |-> mk, closed |-> TRUE]
Source(p, ls) == [place |-> p, lines |-> ls]
Invocation ==
    {Line("counter", key, "bounded", mk) :
        key \in {<<"email">>, <<"email", "hash">>, <<"password", "hash">>, <<"raw", "token">>, <<"token", "type">>},
        mk \in {"none", "reason"}}
    \cup {Line("counter", <<"status">>, "Uuid::new_v4", "reason"), Line("gauge", <<"Kebab-Case">>, "bounded", "none"),
          Line("comment", <<>>, "bounded", "reason"), Line("comment", <<>>, "bounded", "lazy"),
          Line("describe_counter", <<"token">>, "bounded", "none"), Line("histogram", <<>>, "bounded", "none"),
          [Line("counter", <<"status">>, "bounded", "none") EXCEPT !.closed = FALSE]}
Sources == {Source("metrics.rs", <<a>>) : a \in Invocation} \cup {Source("other.rs", <<a, b>>) : a, b \in Invocation}
           \cup {Source("tests", <<a>>) : a \in Invocation}

CatalogStart ==
    [macros |-> Emitted, source |-> Source("metrics.rs", <<>>), buckets |-> {[dir |-> "mc", prefix |-> time]},
     catalog |-> {joins, live, time, seats, delay, outs},
     tests |-> {[dir |-> "mc", name |-> n] : n \in {joins, live, outs}} \cup {[dir |-> "mh", name |-> delay]},
     boards |-> Boards(Base, {}), alerts |-> RuleFiles({Alert(Rated(joins))}, {}), runbooks |-> {"mc.md"},
     scrape |-> [kubernetes |-> TRUE, relabel |-> {}],
     promtail |-> [relabel |-> {[action |-> "none", target |-> "app"]}, stages |-> {}],
     uids |-> {"prometheus", "loki"}, required |-> {"REDIS_URL"},
     workload |-> [names |-> {"REDIS_URL", "MC_REGION"}, refs |-> {"MC_REGION"}], configmap |-> {"MC_REGION"}]
CatalogEdition ==
    [source |-> Sources,
     macros |-> {Emitted \cup {x} : x \in {Macro("mc", "gauge", live), Macro("mc", "describe_gauge", live),
                     Macro("mc", "gauge", seats), Macro("mc", "histogram", delay), Macro("mh", "histogram", delay),
                     Macro("util", "counter", joins), Macro("mc", "counter", outs)}}
                \cup {{Macro("mc", "gauge", joins), Macro("mc", "histogram", time)}},
     buckets |-> {{}, {[dir |-> "mc", prefix |-> time], [dir |-> "mc", prefix |-> <<"mh">>]},
                  {[dir |-> "mc", prefix |-> <<"mc">>], [dir |-> "mh", prefix |-> delay]}},
     catalog |-> {{joins, time}},
     tests |-> {{[dir |-> "mc", name |-> n] : n \in {joins, live}},
                {[dir |-> "mc", name |-> n] : n \in {joins, time, delay, seats}},
                {[dir |-> "mc", name |-> n] : n \in {joins, time}} \cup {[dir |-> "mh", name |-> delay]}},
     boards |-> {Boards(Base \cup {x}, {}) : x \in {Panel(Bare(live)), Panel(Rated(live)), Panel(Bare(joins)),
                     Panel(Rated(joins) \cup Bare(joins)), Panel(Rated(seats)), Panel(Bare(seats)),
                     Panel(Bare(time \o <<"bucket">>)), Panel(Rated(joins \o <<"count">>)), Panel(Rated(delay \o <<"sum">>)),
                     Row({Panel(Bare(live))}), LogPanel(Bare(live)), [Panel(Bare(joins)) EXCEPT !.ignore = "reason"],
                     [Panel(Bare(joins)) EXCEPT !.ignore = "lazy"], [Panel(Bare(live)) EXCEPT !.uid = "prometheus"],
                     Panel({Term(joins, {"rate"}, "5m", <<>>)}), [Panel(Bare(live)) EXCEPT !.unit = FALSE],
                     Panel(Rated(outs)), Panel({Term(pods, {}, "none", <<"region">>)}), Panel({Term(pods, {}, "none", <<"pod", "region">>)}),
                     LogPanel({Term(rows, {}, "none", <<"app", "level">>)}), LogPanel({Term(rows, {}, "none", <<"pod">>)})}}
                \cup {Boards(Base, {Panel(Bare(live))}), Boards(Base, {Panel(Bare(seats))}), Boards(Base, Broken), Boards(Broken, Base)},
     alerts |-> {RuleFiles({x}, {}) : x \in {Alert(Bare(live)), Alert(Rated(time \o <<"count">>)), Alert(Rated(delay \o <<"sum">>)),
                     Quick(Rated(joins)), Quick({Term(joins, {"rate"}, "5m", <<>>)}),
                     [Quick({Term(joins, {"rate"}, "5m", <<>>)}) EXCEPT !.for = "none"],
                     [Alert(Rated(joins)) EXCEPT !.severity = "none"],
                     [Alert(Rated(joins)) EXCEPT !.runbook = "mh.md"], [Alert(Rated(joins)) EXCEPT !.text = "secret"],
                     [Alert(Rated(joins)) EXCEPT !.text = "secret", !.ignore = "reason"],
                     [Alert(Rated(joins)) EXCEPT !.text = "secret", !.ignore = "lazy"],
                     [Alert(Rated(joins)) EXCEPT !.alert = FALSE, !.runbook = "none"]}}
                \cup {RuleFiles(Broken, {}), RuleFiles({}, Broken)},
     runbooks |-> {{"mc.md", "mh.md"}, {"mh.md"}},
     scrape |-> {Void, [kubernetes |-> FALSE, relabel |-> {[action |-> "replace", target |-> "region"], [action |-> "none", target |-> "pod"]}]},
     promtail |-> {Void, [relabel |-> {[action |-> "drop", target |-> "app"]}, stages |-> {"pod"}]},
     uids |-> {Void, {"loki"}},
     required |-> {{}, {"REDIS_URL", "AC_URL"}},
     workload |-> {Void, [names |-> {"REDIS_URL", "AC_URL"}, refs |-> {}], [names |-> {"MC_REGION", "AC_URL"}, refs |-> {"MC_REGION", "AC_URL"}]},
     configmap |-> {Void, {}, {"MC_REGION", "AC_URL"}}]
=============================================================================
