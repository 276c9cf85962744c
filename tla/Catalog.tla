------------------------------ MODULE Catalog ------------------------------
(***************************************************************************)
(* The dt-guard checks that keep a service's metrics and settings in step  *)
(* with what others say of them: application-metrics, dashboard-panels,    *)
(* metric-coverage, histogram-buckets, metric-labels, alert-rules,         *)
(* infrastructure-metrics, grafana-datasources and env-config.             *)
(*                                                                         *)
(* A tree of the repository is edited part by part; a tree on which every  *)
(* guard says OK may land.  No guard looks at all parts: what a landed     *)
(* tree promises follows from several of them together.                    *)
(*                                                                         *)
(* Abstractions: a metric name is the sequence of its words; a query is a  *)
(* set of terms, each with the functions around it, its range and the      *)
(* labels of its selector in order; an unreadable or ill-formed file is    *)
(* Broken; wording, lines and places of findings are left out.             *)
(***************************************************************************)
EXTENDS Naturals, Sequences, FiniteSets

CONSTANTS
    Broken,       \* model value: a file that does not parse
    Void,         \* model value: a file or a directory that is not there
    Start,        \* the tree at first
    Edition,      \* [part of the tree -> what it may be changed to]
    MaxRevisions  \* bound: changes of a part

VARIABLES
    tree,         \* the parts of the repository the guards read
    revised,      \* how many changes so far
    accepted      \* every guard said OK on the tree
catalogVars == <<tree, revised, accepted>>

Canonical == {"mc", "mh"}                   \* the services, by prefix and crate
MacroKind == {"counter", "gauge", "histogram",
              "describe_counter", "describe_gauge", "describe_histogram"}
IsDescribe(kind) == kind \in {"describe_counter", "describe_gauge", "describe_histogram"}
Emissions(macros) == {x \in macros : ~IsDescribe(x.kind)}

\* Names.
HistSuffix == {"bucket", "count", "sum"}
Suffixed(name) == Len(name) > 1 /\ name[Len(name)] \in HistSuffix
Suffix(name) == IF Suffixed(name) THEN name[Len(name)] ELSE "none"
StripHistSuffix(name) == IF Suffixed(name) THEN SubSeq(name, 1, Len(name) - 1) ELSE name
StartsWith(name, prefix) == Len(prefix) <= Len(name) /\ SubSeq(name, 1, Len(prefix)) = prefix
Contains(name, part) == \E i \in 1..Len(name) : StartsWith(SubSeq(name, i, Len(name)), part)
ServiceMetric(name) == Len(name) > 1 /\ name[1] \in Canonical
-----------------------------------------------------------------------------
(* Dashboards.  A board is Broken or a set of panels; a row holds more.     *)
Template(board) == board = "template"        \* _template-*.json
Slo(board) == board = "slos"
Readable(t) == {b \in DOMAIN t.boards : t.boards[b] # Broken}
\* collect_panels, walk_panels: the panels of a board and of its rows.
CollectPanels(board) == board \cup UNION {p.nested : p \in {q \in board : q.type = "row"}}
References(target) == {term.name : term \in {x \in target.expr : ServiceMetric(x.name)}}
DashboardMetricRefs(t) ==
    UNION {References(target) : target \in UNION {p.targets : p \in UNION {CollectPanels(t.boards[b]) : b \in Readable(t)}}}
AlertExprMetricRefs(t) ==
    UNION {References(rule) : rule \in UNION {t.alerts[f] : f \in {g \in DOMAIN t.alerts : t.alerts[g] # Broken}}}

Defined(t) == {x.name : x \in {y \in t.macros : y.dir \in Canonical}}
\* Bug: the prefix of a known service is enough.
PrefixKnown(t, name) == \E known \in Defined(t) : known[1] = name[1]
HasMetric(t, name) == name \in Defined(t) \/ StripHistSuffix(name) \in Defined(t)

Registered(t) == \A x \in t.macros : x.dir \in Canonical
OwnPrefix(t) == \A x \in t.macros : x.dir \in Canonical => x.name[1] = x.dir
RefsExist(t) == \A name \in DashboardMetricRefs(t) \cup AlertExprMetricRefs(t) : HasMetric(t, name)
OnDashboard(t) ==
    \A name \in Defined(t) : \E ref \in DashboardMetricRefs(t) : name \in {ref, StripHistSuffix(ref)}
InCatalog(t) == Defined(t) \subseteq t.catalog
TargetQueryFields(t) ==
    \A b \in Readable(t) : \A p \in CollectPanels(t.boards[b]) : \A target \in p.targets :
        (IF target.ds = "none" THEN p.ds ELSE target.ds) = "prometheus" => target.mode /\ target.range
\* application-metrics: an unreadable board or rule file is skipped.
ApplicationMetrics(t) ==
    Registered(t) /\ OwnPrefix(t) /\ RefsExist(t) /\ OnDashboard(t) /\ InCatalog(t) /\ TargetQueryFields(t)

\* Bug: a metric that is described counts as one that is emitted.
DescribedTypes(t) == {x \in t.macros : x.dir \in Canonical}
ExtractMetricTypes(t) == Emissions({x \in t.macros : x.dir \in Canonical})
\* A name that is emitted with several kinds has all of them here; the code keeps the last
\* one that it reads.  No tree of the runs has such a name.
KindsOf(t, name) == {x.kind : x \in {y \in ExtractMetricTypes(t) : y.name = name}}
DeclaredKinds(t, name) == IF KindsOf(t, name) # {} THEN KindsOf(t, name) ELSE KindsOf(t, StripHistSuffix(name))
\* metric_inside_fn: once inside is enough.
MetricInsideFn(expr, name, fns) == \E term \in expr : term.name = name /\ term.fns \cap fns # {}
Ranged == {"rate", "increase", "irate"}
\* Bug: only the sums and counts of a histogram are looked at.
NoBucketRule(t, expr, name) ==
    LET kinds == DeclaredKinds(t, name)
    IN  /\ "counter" \in kinds => MetricInsideFn(expr, name, Ranged)
        /\ "gauge" \in kinds => ~MetricInsideFn(expr, name, Ranged)
        /\ ("histogram" \in kinds /\ Suffix(name) \in {"sum", "count"}) => MetricInsideFn(expr, name, Ranged)
TypeRule(t, expr, name) ==
    LET kinds == DeclaredKinds(t, name)
    IN  /\ "counter" \in kinds => MetricInsideFn(expr, name, Ranged)
        /\ "gauge" \in kinds => ~MetricInsideFn(expr, name, Ranged)
        /\ ("histogram" \in kinds /\ Suffix(name) = "bucket") => MetricInsideFn(expr, name, {"rate", "irate"})
        /\ ("histogram" \in kinds /\ Suffix(name) \in {"sum", "count"}) => MetricInsideFn(expr, name, Ranged)
RateWindow(expr) ==
    \A term \in expr : term.fns \cap Ranged # {} => term.window \in {"rate_interval", "time_range"}
\* The kind of source the panel has, or else the first target that names one (the panels
\* considered have one target).
EffectiveDs(p) == IF p.ds # "none" THEN {p.ds} ELSE {target.ds : target \in p.targets}
Templated(uid) == uid \in {"none", "template"}

Ignored(p) == p.ignore = "reason"

CheckQuery(t, board, p, expr) ==
    /\ (~Slo(board) /\ ~Ignored(p)) => RateWindow(expr)
    /\ \A name \in References([expr |-> expr]) :
        /\ KindsOf(t, StripHistSuffix(name)) # {}
        /\ StripHistSuffix(name) \in t.catalog
        /\ ~Ignored(p) => TypeRule(t, expr, name)
CheckPanel(t, board, p) ==
    p.type # "row" =>
        /\ p.ignore # "lazy"
        /\ p.type # "logs" => p.unit
        /\ Templated(p.uid) /\ \A target \in p.targets : Templated(target.uid)
        /\ (p.type # "logs" /\ "loki" \notin EffectiveDs(p)) =>
                \A target \in p.targets : CheckQuery(t, board, p, target.expr)
\* dashboard-panels: an unreadable board is an error, a template is not looked at.
DashboardPanels(t) ==
    \A b \in DOMAIN t.boards :
        ~Template(b) => (t.boards[b] # Broken /\ \A p \in CollectPanels(t.boards[b]) : CheckPanel(t, b, p))

ReadTestsBlob(t, dir) == {x.name : x \in {y \in t.tests : y.dir = dir}}
MetricCoverage(t) ==
    \A x \in Emissions(t.macros) : x.dir \in Canonical =>
        \E named \in ReadTestsBlob(t, x.dir) : Contains(named, x.name)

\* Bug: the buckets of another service count.
AnyBuckets(t, x) == \E b \in t.buckets : StartsWith(x.name, b.prefix)
HasBuckets(t, x) == \E b \in t.buckets : b.dir = x.dir /\ StartsWith(x.name, b.prefix)
HistogramBuckets(t) ==
    \A x \in t.macros : (x.kind = "histogram" /\ x.dir \in Canonical) => HasBuckets(t, x)
-----------------------------------------------------------------------------
(* Labels of what is emitted.  A label key is the sequence of its words, an *)
(* empty one an expression that is no literal; a source is a sequence of    *)
(* lines, each an invocation with one label or a comment.                   *)
SecretWords == {"password", "token"}         \* PII_TOKENS_CATEGORY_A
SecretAllowlist == {<<"token", "type">>}
PiiWords == {"email", "name"}                \* PII_TOKENS_CATEGORY_B
Hashed(key) == Len(key) > 1 /\ key[Len(key)] = "hash"
TokenHitInSet(key, words) == \E i \in 1..Len(key) : key[i] \in words
\* Bug: a hashed form is let through before the secrets are looked for.
HashedFirst(key) ==
    IF key # <<>> /\ key[1] = "raw" THEN "prefix"
    ELSE IF Hashed(key) THEN "none"
    ELSE IF key \notin SecretAllowlist /\ TokenHitInSet(key, SecretWords) THEN "secret"
    ELSE IF TokenHitInSet(key, PiiWords) THEN "pii" ELSE "none"
\* The first category found counts: the prefix, a secret, then personal data.
PiiTokenHit(key) ==
    IF key # <<>> /\ key[1] = "raw" THEN "prefix"
    ELSE IF key \notin SecretAllowlist /\ TokenHitInSet(key, SecretWords) THEN "secret"
    ELSE IF ~Hashed(key) /\ TokenHitInSet(key, PiiWords) THEN "pii" ELSE "none"
NamingHygiene(key) == \A i \in 1..Len(key) : key[i] # "Kebab-Case"
UnboundedPatterns == {"Uuid::new_v4", "request_path", "user_email", "SystemTime::now"}
UnboundedValue(value) == value \in UnboundedPatterns \cup {"long literal"}
LazyReason(marker) == marker = "lazy"         \* is_lazy_reason: short, or todo and the like
Markers(lines) == {i \in 1..Len(lines) : lines[i].marker # "none" /\ ~LazyReason(lines[i].marker)}
\* A marker speaks for the invocation on its own line and for one on the next line.
PiiSafe(lines, i) == i \in Markers(lines) \/ i - 1 \in Markers(lines)
CheckInvocation(lines, i) ==
    /\ lines[i].closed                         \* its parenthesis is found
    /\ ~IsDescribe(lines[i].kind) =>
        /\ NamingHygiene(lines[i].key)
        /\ PiiTokenHit(lines[i].key) # "secret"
        /\ PiiTokenHit(lines[i].key) \in {"prefix", "pii"} => PiiSafe(lines, i)
        /\ ~UnboundedValue(lines[i].value)
\* metrics.rs of a crate, and any other source that is neither exempt nor vendored.
MetricFile(source) == source.place \in {"metrics.rs", "other.rs"}
\* metric-labels: a lazy reason is a finding and no excuse.
MetricLabels(t) ==
    MetricFile(t.source) => \A i \in 1..Len(t.source.lines) :
        /\ ~LazyReason(t.source.lines[i].marker)
        /\ t.source.lines[i].kind # "comment" => CheckInvocation(t.source.lines, i)
-----------------------------------------------------------------------------
(* Alerts.  A rule file is Broken or a set of rules.                        *)
ParseDuration(d) == CASE d = "10s" -> 10 [] d = "1m" -> 60 [] d = "5m" -> 300 [] OTHER -> 0
MinSeconds == 30
QualifyingWindow(expr) ==
    \E term \in expr : /\ term.fns \cap {"rate", "increase", "sum_over_time"} # {}
                       /\ ParseDuration(term.window) >= MinSeconds
ValidateRunbookUrl(t, rule) == rule.runbook \in t.runbooks
ValidateSeverity(rule) == rule.severity \in {"page", "warning", "info"}
\* Bug: a rule without a for: is judged by the range of its query.
ForOrWindow(rule) == ParseDuration(rule.for) >= MinSeconds \/ QualifyingWindow(rule.expr)
ValidateForField(rule) ==
    /\ rule.for \notin {"none", "junk"}
    /\ ParseDuration(rule.for) >= MinSeconds \/ QualifyingWindow(rule.expr)
\* A marker with a good reason lifts the check of the annotations only.
RuleIsIgnored(rule) == rule.ignore = "reason"
CheckHygiene(rule) == RuleIsIgnored(rule) \/ rule.text # "secret"
CheckRule(t, rule) ==
    rule.alert => /\ ValidateRunbookUrl(t, rule) /\ ValidateSeverity(rule)
                  /\ ValidateForField(rule) /\ CheckHygiene(rule)
NoLazyReason(rule) == rule.ignore # "lazy"
AlertRules(t) ==
    \A f \in DOMAIN t.alerts : ~Template(f) =>
        /\ t.alerts[f] # Broken
        /\ \A rule \in t.alerts[f] : NoLazyReason(rule) /\ CheckRule(t, rule)
-----------------------------------------------------------------------------
(* Labels and sources.                                                     *)
KubernetesLabels == {"namespace", "pod"}
DockerLabels == {"name"}
\* Of Prometheus, a relabelling whose action is written out; of promtail also the default.
PrometheusSchema(t) ==
    (IF t.scrape.kubernetes THEN KubernetesLabels ELSE {})
        \cup {r.target : r \in {x \in t.scrape.relabel : x.action = "replace" /\ x.target # "__meta"}}
LokiLabels(t) ==
    {r.target : r \in {x \in t.promtail.relabel : x.action \in {"replace", "none"} /\ x.target # "__meta"}}
        \cup t.promtail.stages
InfraQuery(expr) == \E term \in expr : term.name[1] = "kube"
LabelsOf(expr) == UNION {{term.labels[i] : i \in 1..Len(term.labels)} : term \in expr}
FirstLabels(expr) == {term.labels[1] : term \in {x \in expr : x.labels # <<>>}}
CheckInfraQuery(t, expr) ==
    InfraQuery(expr) => /\ LabelsOf(expr) \cap DockerLabels = {}
                        /\ FirstLabels(expr) \ {"job", "instance"} \subseteq PrometheusSchema(t)
\* infrastructure-metrics: the targets that name their source, of the panels outside rows.
InfrastructureMetrics(t) ==
    /\ t.scrape # Void
    /\ \A b \in Readable(t) : \A p \in t.boards[b] : \A target \in p.targets :
        target.ds = "prometheus" => CheckInfraQuery(t, target.expr)

ReferencedUids(t) ==
    UNION {{p.uid} \cup {target.uid : target \in p.targets} :
               p \in UNION {CollectPanels(t.boards[b]) : b \in Readable(t)}} \ {"none", "template", "grafana"}
\* A target is one of Loki's when it says so itself.
LokiExprs(t) ==
    {target.expr : target \in {x \in UNION {p.targets : p \in UNION {CollectPanels(t.boards[b]) : b \in Readable(t)}} :
                                   x.ds = "loki" \/ x.uid = "loki"}}
GrafanaDatasources(t) ==
    t.uids # Void =>
        /\ ReferencedUids(t) \subseteq t.uids
        /\ t.promtail # Void => \A expr \in LokiExprs(t) : LabelsOf(expr) \subseteq LokiLabels(t) \cup {"level"}
-----------------------------------------------------------------------------
(* Settings: what config.rs requires, the workload and its config map.      *)
\* Bug: without a config map nothing is looked up.
KeysIfAny(t) == t.configmap # Void => (t.workload.refs \subseteq t.configmap /\ t.configmap \subseteq t.workload.refs)
CheckKeys(t) ==
    IF t.configmap = Void THEN t.workload.refs = {}
    ELSE t.workload.refs \subseteq t.configmap /\ t.configmap \subseteq t.workload.refs
EnvConfig(t) == t.workload # Void => (t.required \subseteq t.workload.names /\ CheckKeys(t))

\* What a part of the tree may hold: names are sequences of words, lines what they can be.
MarkerKind == {"none", "reason", "lazy"}
LineValue == UnboundedPatterns \cup {"long literal", "bounded"}
PartTyped(q, content) ==
    CASE q = "macros" -> \A x \in content : x.kind \in MacroKind /\ x.name \in Seq(STRING) /\ x.name # <<>>
      [] q = "boards" -> \A b \in DOMAIN content : content[b] # Broken =>
                            \A p \in CollectPanels(content[b]) : \A target \in p.targets : \A term \in target.expr :
                                term.name \in Seq(STRING)
      [] q = "source" -> \A i \in 1..Len(content.lines) :
                            content.lines[i].marker \in MarkerKind /\ content.lines[i].value \in LineValue
      [] OTHER -> TRUE
ASSUME CatalogAssumption ==
    /\ MaxRevisions \in Nat /\ DOMAIN Edition = DOMAIN Start
    /\ {"macros", "boards", "source"} \subseteq DOMAIN Start /\ Start = [q \in DOMAIN Start |-> Start[q]]
    /\ \A q \in DOMAIN Start : PartTyped(q, Start[q]) /\ \A content \in Edition[q] : PartTyped(q, content)

AllGuards(t) ==
    /\ ApplicationMetrics(t) /\ DashboardPanels(t) /\ MetricCoverage(t) /\ HistogramBuckets(t)
    /\ MetricLabels(t)
    /\ AlertRules(t) /\ InfrastructureMetrics(t) /\ GrafanaDatasources(t) /\ EnvConfig(t)
-----------------------------------------------------------------------------
CatalogInit == tree = Start /\ revised = 0 /\ accepted = AllGuards(Start)

\* Bound: the source that metric-labels alone looks at changes by itself.
SourceAlone(part) == IF part = "source" THEN tree = Start ELSE tree.source = Start.source
\* The verdict is for the tree the guards ran on.
Revise(part, content) ==
    /\ content # tree[part]
    /\ tree' = [tree EXCEPT ![part] = content]
    /\ revised' = revised + 1 /\ accepted' = FALSE

RunAll ==
    /\ ~accepted /\ AllGuards(tree) /\ accepted' = TRUE
    /\ UNCHANGED <<tree, revised>>

CatalogNext ==
    \/ /\ revised < MaxRevisions
       /\ \E part \in DOMAIN Edition : SourceAlone(part) /\ \E content \in Edition[part] : Revise(part, content)
    \/ RunAll
-----------------------------------------------------------------------------
(* What runs: the series Prometheus has, whoever asks for them.             *)
Series(t) ==
    UNION {IF x.kind # "histogram" THEN {x.name} ELSE {x.name \o <<s>> : s \in HistSuffix} :
               x \in Emissions({y \in t.macros : y.dir \in Canonical})}
\* A reference to a metric, or to a series of a histogram that is not itself named like one.
Shows(ref, name) == ref = name \/ (StripHistSuffix(ref) = name /\ ~Suffixed(name))
OnTemplateOnly(t, name) ==
    \A b \in Readable(t) : \A p \in CollectPanels(t.boards[b]) : \A target \in p.targets :
        (\E ref \in References(target) : Shows(ref, name)) =>
            Template(b) \/ p.type \in {"row", "logs"} \/ "loki" \in EffectiveDs(p)
\* The name asks for a histogram's series of a histogram, and for no such series of another.
SuffixFits(t, name) == Suffixed(name) <=> "histogram" \in KindsOf(t, StripHistSuffix(name))

\* A gauge is never asked for over a range, another kind at least once.
AskedByKind(t, expr, name) ==
    IF "gauge" \in KindsOf(t, name)
    THEN \A term \in expr : term.name = name => term.fns \cap Ranged = {}
    ELSE \E term \in expr : term.name = name /\ term.fns \cap Ranged # {}

CatalogTypeOK ==
    /\ revised \in 0..MaxRevisions /\ accepted \in BOOLEAN
    /\ \A x \in tree.macros : x.kind \in MacroKind

\* What a panel of a board that is not a template asks Prometheus for is there, and asked
\* for in a way its kind allows, unless the panel has an ignore marker.
PanelsShow ==
    \A b \in Readable(tree) \ {"template"} : \A p \in CollectPanels(tree.boards[b]) : \A target \in p.targets :
        (p.type \notin {"row", "logs"} /\ "loki" \notin EffectiveDs(p)) =>
            \A name \in References(target) :
                /\ SuffixFits(tree, name) => name \in Series(tree)
                /\ StripHistSuffix(name) \in tree.catalog
                /\ (p.ignore # "reason" /\ name \in Series(tree)) => AskedByKind(tree, target.expr, name)

\* An alert asks for something a service emits, not just describes, unless nothing but a
\* template, a row or a log panel shows it (or the name ends like a series twice, which no
\* guard sees through); it fires late enough and leads to a runbook.
AlertsFire ==
    \A f \in DOMAIN tree.alerts \ {"template"} : \A rule \in tree.alerts[f] :
        /\ \A name \in References(rule) : ~Suffixed(StripHistSuffix(name)) =>
            \E x \in tree.macros :
                /\ x.name \in {name, StripHistSuffix(name)}
                /\ IsDescribe(x.kind) => OnTemplateOnly(tree, x.name)
        /\ rule.alert => /\ rule.runbook \in tree.runbooks /\ rule.for # "none"
                         /\ (rule.text = "secret" => rule.ignore = "reason")

\* What a service emits carries its own prefix, is documented and on a board, a test of its
\* own crate names it or a longer name, and a histogram's buckets are its own crate's.
EmittedIsKnown ==
    \A x \in Emissions(tree.macros) :
        /\ x.name[1] = x.dir /\ x.name \in tree.catalog
        /\ \E named \in tree.tests : named.dir = x.dir /\ Contains(named.name, x.name)
        /\ x.kind = "histogram" => \E b \in tree.buckets : b.dir = x.dir /\ StartsWith(x.name, b.prefix)
        /\ \E b \in Readable(tree) : \E p \in CollectPanels(tree.boards[b]) : \E target \in p.targets :
            \E name \in References(target) : x.name \in {name, StripHistSuffix(name)}

\* A pod starts: each variable its program requires is set, from a key that exists.
PodStarts ==
    tree.workload # Void =>
        /\ tree.required \subseteq tree.workload.names
        /\ tree.workload.refs \subseteq (IF tree.configmap = Void THEN {} ELSE tree.configmap)

\* The labels by which a log panel selects are ones promtail sets, those of a query of the
\* cluster outside a row ones Prometheus sets, at least the first.
LabelsSet ==
    /\ (tree.uids # Void /\ tree.promtail # Void) =>
        \A expr \in LokiExprs(tree) : LabelsOf(expr) \subseteq LokiLabels(tree) \cup {"level"}
    /\ \A b \in Readable(tree) : \A p \in tree.boards[b] : \A target \in p.targets :
        (target.ds = "prometheus" /\ InfraQuery(target.expr)) =>
            FirstLabels(target.expr) \subseteq PrometheusSchema(tree) \cup {"job", "instance"}

\* No secret is a label of anything emitted, in whatever form, except behind the raw_ prefix
\* and a pii-safe marker; personal data only in a hashed form or where a marker with a reason
\* is on the invocation's line or the line above.  (A key that is no literal is not seen.)
LabelsSafe ==
    MetricFile(tree.source) =>
        \A i \in 1..Len(tree.source.lines) : tree.source.lines[i].kind \in {"counter", "gauge", "histogram"} =>
            LET lines == tree.source.lines
                key == lines[i].key
                marked == \E j \in {i - 1, i} \cap (1..Len(lines)) : lines[j].marker = "reason"
            IN  /\ TokenHitInSet(key, SecretWords) => key = <<"token", "type">> \/ (key[1] = "raw" /\ marked)
                /\ (TokenHitInSet(key, PiiWords) /\ key[Len(key)] # "hash") => marked
                /\ lines[i].value = "bounded"

\* A metric whose own name ends like a histogram's series can be shown by that name on a
\* template, a row or a log panel only: the two dashboard guards never both accept it elsewhere.
SuffixNamesRefused ==
    \A x \in Emissions(tree.macros) :
        (Suffixed(x.name) /\ KindsOf(tree, StripHistSuffix(x.name)) = {}) => OnTemplateOnly(tree, x.name)

\* Of a tree every guard accepts: its panels and alerts ask for what is emitted, what is
\* emitted is documented, shown, tested and free of secrets, and its pods find their settings.
CatalogCorrect ==
    /\ CatalogTypeOK
    /\ accepted => /\ PanelsShow /\ AlertsFire /\ EmittedIsKnown /\ PodStarts /\ LabelsSet /\ LabelsSafe
                   /\ SuffixNamesRefused
=============================================================================
