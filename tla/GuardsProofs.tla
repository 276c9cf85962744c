---------------------------- MODULE GuardsProofs ----------------------------
(***************************************************************************)
(* The guards of a change, proved for every value of their constants: the  *)
(* metrics guards (Catalog), the verdict on a branch (Guards) and the line *)
(* scanners they read files with (Scanners).                               *)
(***************************************************************************)
EXTENDS MCBoundaries, TLAPS, FiniteSetTheorems, WellFoundedInduction

-----------------------------------------------------------------------------
(* Metrics, boards and alerts.  The guards' verdict is for the tree as it   *)
(* is, and every part of a tree is of its kind; what a tree that all guards *)
(* accept promises then follows from several guards together.               *)

TreeTyped(t) ==
    /\ \A x \in t.macros : x.kind \in MacroKind /\ x.name \in Seq(STRING) /\ x.name # <<>>
    /\ \A b \in Readable(t) : \A p \in CollectPanels(t.boards[b]) : \A target \in p.targets : \A term \in target.expr :
            term.name \in Seq(STRING)
    /\ \A i \in 1..Len(t.source.lines) : t.source.lines[i].marker \in MarkerKind /\ t.source.lines[i].value \in LineValue

CatalogInv ==
    /\ revised \in 0..MaxRevisions /\ accepted \in BOOLEAN
    /\ tree = [q \in DOMAIN Start |-> tree[q]] /\ \A q \in DOMAIN Start : PartTyped(q, tree[q])
    /\ accepted => AllGuards(tree)

LEMMA CatalogStarts == ASSUME CatalogAssumption, CatalogInit PROVE CatalogInv
<1>1. AllGuards(Start) \in BOOLEAN BY DEF AllGuards
<1>2. accepted \in BOOLEAN /\ (accepted => AllGuards(tree)) BY <1>1 DEF CatalogInit
<1>3. revised \in 0..MaxRevisions BY DEF CatalogInit, CatalogAssumption
<1>4. tree = [q \in DOMAIN Start |-> tree[q]] /\ \A q \in DOMAIN Start : PartTyped(q, tree[q]) BY DEF CatalogInit, CatalogAssumption
<1> QED BY <1>2, <1>3, <1>4 DEF CatalogInv

LEMMA CatalogSteps == ASSUME CatalogAssumption, CatalogInv, [CatalogNext]_catalogVars PROVE CatalogInv'
<1>1. CASE UNCHANGED catalogVars
  <2>1. tree' = tree /\ revised' = revised /\ accepted' = accepted BY <1>1 DEF catalogVars
  <2> QED BY <2>1 DEF CatalogInv
<1>2. ASSUME NEW q \in DOMAIN Edition, NEW content \in Edition[q], revised < MaxRevisions, Revise(q, content) PROVE CatalogInv'
  <2>1. q \in DOMAIN Start /\ PartTyped(q, content) BY <1>2 DEF CatalogAssumption
  <2>2. tree' = [tree EXCEPT ![q] = content] /\ revised' = revised + 1 /\ accepted' = FALSE BY <1>2 DEF Revise
  <2>3. revised' \in 0..MaxRevisions BY <1>2, <2>2 DEF CatalogInv, CatalogAssumption
  <2>4. DOMAIN tree = DOMAIN Start BY DEF CatalogInv
  <2>5. tree' = [z \in DOMAIN Start |-> tree'[z]] BY <2>2, <2>4
  <2>6. \A z \in DOMAIN Start : tree'[z] = IF z = q THEN content ELSE tree[z] BY <2>1, <2>2, <2>4
  <2>7. ASSUME NEW z \in DOMAIN Start PROVE PartTyped(z, tree[z])'
    <3>1. PICK c : c = tree'[z] OBVIOUS
    <3>2. PartTyped(z, c)
      <4>1. CASE z = q BY <2>1, <2>6, <3>1, <4>1
      <4>2. CASE z # q BY <2>6, <3>1, <4>2 DEF CatalogInv
      <4> QED BY <4>1, <4>2
    <3> QED BY <3>1, <3>2
  <2> QED BY <2>2, <2>3, <2>5, <2>7 DEF CatalogInv
<1>3. CASE RunAll
  <2>1. AllGuards(tree) /\ accepted' = TRUE /\ tree' = tree /\ revised' = revised BY <1>3 DEF RunAll
  <2> QED BY <2>1 DEF CatalogInv
<1> QED BY <1>1, <1>2, <1>3 DEF CatalogNext

LEMMA TreeIsTyped == ASSUME CatalogAssumption, CatalogInv PROVE TreeTyped(tree)
<1>1. /\ PartTyped("macros", tree["macros"]) /\ PartTyped("boards", tree["boards"]) /\ PartTyped("source", tree["source"])
  BY DEF CatalogInv, CatalogAssumption
<1>2. \A x \in tree.macros : x.kind \in MacroKind /\ x.name \in Seq(STRING) /\ x.name # <<>> BY <1>1 DEF PartTyped
<1>3. \A b \in Readable(tree) : \A p \in CollectPanels(tree.boards[b]) : \A target \in p.targets : \A term \in target.expr :
            term.name \in Seq(STRING)
  BY <1>1 DEF PartTyped, Readable
<1>4. \A i \in 1..Len(tree.source.lines) : tree.source.lines[i].marker \in MarkerKind /\ tree.source.lines[i].value \in LineValue
  BY <1>1 DEF PartTyped
<1> QED BY <1>2, <1>3, <1>4 DEF TreeTyped

\* Names and the series of a histogram.
LEMMA StripFacts ==
    ASSUME NEW name \in Seq(STRING), Suffixed(name)
    PROVE  Suffix(name) \in HistSuffix /\ name = StripHistSuffix(name) \o <<Suffix(name)>>
<1>1. PICK n \in Nat : n = Len(name) BY DEF Suffixed
<1>2. n > 1 /\ name[n] \in HistSuffix BY <1>1 DEF Suffixed
<1>3. Suffix(name) = name[n] /\ StripHistSuffix(name) = SubSeq(name, 1, n - 1) BY <1>1 DEF Suffix, StripHistSuffix
<1>4. PICK c : c = SubSeq(name, 1, n - 1) OBVIOUS
<1>5. c \in Seq(STRING) /\ Len(c) = n - 1 /\ \A i \in 1..(n - 1) : c[i] = name[i] BY <1>1, <1>2, <1>4
<1>6. PICK e : e = c \o <<name[n]>> OBVIOUS
<1>7. name[n] \in STRING BY <1>1, <1>2
<1>8. e \in Seq(STRING) /\ Len(e) = n /\ e[n] = name[n] /\ \A i \in 1..(n - 1) : e[i] = c[i]
  BY <1>2, <1>5, <1>6, <1>7
<1>9. \A i \in 1..n : e[i] = name[i]
  <2> TAKE i \in 1..n
  <2>1. i = n \/ i \in 1..(n - 1) OBVIOUS
  <2> QED BY <2>1, <1>5, <1>8
<1>10. e = name BY <1>1, <1>8, <1>9
<1> QED BY <1>2, <1>3, <1>4, <1>6, <1>10

LEMMA ExtendAny ==
    ASSUME NEW S, NEW name \in Seq(S), name # <<>>, NEW s \in S, NEW e, e = name \o <<s>>
    PROVE  \E n \in Nat : /\ n > 0 /\ Len(e) = n + 1 /\ e[n + 1] = s /\ SubSeq(e, 1, n) = name
<1>1. PICK n \in Nat : n = Len(name) /\ n > 0 OBVIOUS
<1>2. e \in Seq(S) OBVIOUS
<1>3. Len(e) = n + 1 BY <1>1
<1>4. e[n + 1] = s BY <1>1
<1>5. \A i \in 1..n : e[i] = name[i] BY <1>1
<1>6. PICK c : c = SubSeq(e, 1, n) OBVIOUS
<1>7. c \in Seq(S) /\ Len(c) = n /\ \A i \in 1..n : c[i] = e[i] BY <1>1, <1>2, <1>3, <1>6
<1>8. c = name BY <1>1, <1>5, <1>7
<1> QED BY <1>1, <1>3, <1>4, <1>6, <1>8

LEMMA WiderSeq == ASSUME NEW T, NEW S, T \subseteq S, NEW name \in Seq(T) PROVE name \in Seq(S)
<1>1. \A i \in 1..Len(name) : name[i] \in S OBVIOUS
<1> QED BY <1>1

LEMMA ExtendFacts ==
    ASSUME NEW name \in Seq(STRING), name # <<>>, NEW s \in HistSuffix, NEW e, e = name \o <<s>>
    PROVE  Suffixed(e) /\ Suffix(e) = s /\ StripHistSuffix(e) = name
<1>1. PICK S : S = STRING \cup HistSuffix OBVIOUS
<1>2. STRING \subseteq S /\ s \in S BY <1>1
<1>3. name \in Seq(S)
  <2>1. PICK T : T = STRING OBVIOUS
  <2>2. T \subseteq S /\ name \in Seq(T) BY <1>2, <2>1, Zenon
  <2> QED BY <2>2, WiderSeq
<1>4. PICK n \in Nat : n > 0 /\ Len(e) = n + 1 /\ e[n + 1] = s /\ SubSeq(e, 1, n) = name BY <1>2, <1>3, ExtendAny
<1>5. Suffixed(e) /\ Suffix(e) = s BY <1>4 DEF Suffixed, Suffix
<1>6. (n + 1) - 1 = n OBVIOUS
<1>7. StripHistSuffix(e) = SubSeq(e, 1, n) BY <1>4, <1>5, <1>6 DEF StripHistSuffix
<1> QED BY <1>4, <1>5, <1>7

\* Emissions and the kinds a name is declared with.
LEMMA KindOfOne ==
    ASSUME NEW t, NEW name, NEW k
    PROVE  k \in KindsOf(t, name) <=>
             \E x \in t.macros : x.dir \in Canonical /\ ~IsDescribe(x.kind) /\ x.name = name /\ x.kind = k
  BY DEF KindsOf, ExtractMetricTypes, Emissions

LEMMA PlainKinds ==
    ASSUME NEW t, TreeTyped(t), NEW name, NEW k \in KindsOf(t, name)
    PROVE  k \in {"counter", "gauge", "histogram"}
<1>1. PICK x \in t.macros : x.dir \in Canonical /\ ~IsDescribe(x.kind) /\ x.name = name /\ x.kind = k BY KindOfOne
<1>2. x.kind \in MacroKind BY DEF TreeTyped
<1> QED BY <1>1, <1>2 DEF MacroKind, IsDescribe

Yields(x, name) ==
    /\ x.dir \in Canonical /\ ~IsDescribe(x.kind)
    /\ \/ x.kind # "histogram" /\ name = x.name
       \/ x.kind = "histogram" /\ \E s \in HistSuffix : name = x.name \o <<s>>

LEMMA SeriesOf == ASSUME NEW t, NEW name PROVE name \in Series(t) <=> \E x \in t.macros : Yields(x, name)
<1>1. PICK em : em = Emissions({y \in t.macros : y.dir \in Canonical}) OBVIOUS
<1>2. \A x : x \in em <=> x \in t.macros /\ x.dir \in Canonical /\ ~IsDescribe(x.kind) BY <1>1 DEF Emissions
<1>3. name \in Series(t) <=>
        \E x \in em : name \in (IF x.kind # "histogram" THEN {x.name} ELSE {x.name \o <<s>> : s \in HistSuffix})
  BY <1>1 DEF Series
<1>4. ASSUME NEW x
      PROVE  name \in (IF x.kind # "histogram" THEN {x.name} ELSE {x.name \o <<s>> : s \in HistSuffix}) <=>
               \/ x.kind # "histogram" /\ name = x.name
               \/ x.kind = "histogram" /\ \E s \in HistSuffix : name = x.name \o <<s>>
  <2>1. CASE x.kind = "histogram" BY <2>1
  <2>2. CASE x.kind # "histogram" BY <2>2
  <2> QED BY <2>1, <2>2
<1> QED BY <1>2, <1>3, <1>4 DEF Yields

LEMMA RefTyped ==
    ASSUME NEW t, TreeTyped(t), NEW b \in Readable(t), NEW p \in CollectPanels(t.boards[b]), NEW target \in p.targets,
           NEW name \in References(target)
    PROVE  name \in Seq(STRING)
  BY DEF TreeTyped, References

\* What dashboard-panels says of a query of an ordinary panel.
LEMMA PanelChecked ==
    ASSUME NEW t, AllGuards(t), NEW b \in Readable(t), ~Template(b), NEW p \in CollectPanels(t.boards[b]),
           NEW target \in p.targets, p.type \notin {"row", "logs"}, "loki" \notin EffectiveDs(p),
           NEW name \in References(target)
    PROVE  /\ KindsOf(t, StripHistSuffix(name)) # {} /\ StripHistSuffix(name) \in t.catalog
           /\ p.ignore # "reason" => TypeRule(t, target.expr, name)
<1>1. CheckPanel(t, b, p) BY DEF AllGuards, DashboardPanels, Readable
<1>2. CheckQuery(t, b, p, target.expr) BY <1>1 DEF CheckPanel
<1>3. name \in References([expr |-> target.expr]) BY DEF References
<1> QED BY <1>2, <1>3 DEF CheckQuery, Ignored

LEMMA SeriesThere ==
    ASSUME NEW t, TreeTyped(t), NEW name \in Seq(STRING), KindsOf(t, StripHistSuffix(name)) # {}, SuffixFits(t, name)
    PROVE  name \in Series(t)
<1>1. CASE Suffixed(name)
  <2>1. "histogram" \in KindsOf(t, StripHistSuffix(name)) BY <1>1 DEF SuffixFits
  <2>2. PICK x \in t.macros : x.dir \in Canonical /\ ~IsDescribe(x.kind) /\ x.name = StripHistSuffix(name) /\ x.kind = "histogram"
    BY <2>1, KindOfOne
  <2>3. Suffix(name) \in HistSuffix /\ name = x.name \o <<Suffix(name)>> BY <1>1, <2>2, StripFacts
  <2>4. Yields(x, name) BY <2>2, <2>3 DEF Yields
  <2> QED BY <2>2, <2>4, SeriesOf
<1>2. CASE ~Suffixed(name)
  <2>1. StripHistSuffix(name) = name BY <1>2 DEF StripHistSuffix
  <2>2. PICK k \in KindsOf(t, name) : TRUE BY <2>1
  <2>3. k # "histogram" BY <1>2, <2>1, <2>2 DEF SuffixFits
  <2>4. PICK x \in t.macros : x.dir \in Canonical /\ ~IsDescribe(x.kind) /\ x.name = name /\ x.kind = k BY <2>2, KindOfOne
  <2>5. Yields(x, name) BY <2>3, <2>4 DEF Yields
  <2> QED BY <2>4, <2>5, SeriesOf
<1> QED BY <1>1, <1>2

LEMMA AskedRight ==
    ASSUME NEW t, TreeTyped(t), NEW name, NEW expr, name \in Series(t), TypeRule(t, expr, name)
    PROVE  AskedByKind(t, expr, name)
<1>1. CASE "gauge" \in KindsOf(t, name)
  <2>1. "gauge" \in DeclaredKinds(t, name) BY <1>1 DEF DeclaredKinds
  <2>2. ~MetricInsideFn(expr, name, Ranged) BY <2>1 DEF TypeRule
  <2> QED BY <1>1, <2>2 DEF MetricInsideFn, AskedByKind
<1>2. CASE "gauge" \notin KindsOf(t, name)
  <2>a. PICK x \in t.macros : Yields(x, name) BY SeriesOf
  <2>1. /\ x.dir \in Canonical /\ ~IsDescribe(x.kind)
        /\ \/ x.kind # "histogram" /\ name = x.name
           \/ x.kind = "histogram" /\ \E s \in HistSuffix : name = x.name \o <<s>>
    BY <2>a DEF Yields
  <2>2. CASE "counter" \in KindsOf(t, name)
    <3>1. "counter" \in DeclaredKinds(t, name) BY <2>2 DEF DeclaredKinds
    <3> QED BY <1>2, <3>1 DEF TypeRule, MetricInsideFn, AskedByKind
  <2>3. CASE "counter" \notin KindsOf(t, name)
    <3>1. \A k \in KindsOf(t, name) : k = "histogram" BY <1>2, <2>3, PlainKinds
    <3>2. x.kind = "histogram"
      <4>1. SUFFICES ASSUME x.kind # "histogram" PROVE FALSE OBVIOUS
      <4>2. x.kind \in KindsOf(t, name) BY <2>1, <4>1, KindOfOne
      <4> QED BY <3>1, <4>1, <4>2
    <3>3. PICK s \in HistSuffix : name = x.name \o <<s>> BY <2>1, <3>2
    <3>4. x.name \in Seq(STRING) /\ x.name # <<>> BY DEF TreeTyped
    <3>5. Suffix(name) = s /\ StripHistSuffix(name) = x.name BY <3>3, <3>4, ExtendFacts
    <3>6. "histogram" \in KindsOf(t, StripHistSuffix(name)) BY <2>1, <3>2, <3>5, KindOfOne
    <3>7. "histogram" \in DeclaredKinds(t, name) BY <3>1, <3>6 DEF DeclaredKinds
    <3>8. \E fns \in SUBSET Ranged : MetricInsideFn(expr, name, fns)
      <4>1. CASE s = "bucket" BY <3>5, <3>7, <4>1 DEF TypeRule, Ranged
      <4>2. CASE s \in {"sum", "count"} BY <3>5, <3>7, <4>2 DEF TypeRule
      <4> QED BY <4>1, <4>2 DEF HistSuffix
    <3>9. \E term \in expr : term.name = name /\ term.fns \cap Ranged # {} BY <3>8 DEF MetricInsideFn
    <3> QED BY <1>2, <3>9 DEF AskedByKind
  <2> QED BY <2>2, <2>3
<1> QED BY <1>1, <1>2

LEMMA PanelsShowHolds == ASSUME TreeTyped(tree), AllGuards(tree) PROVE PanelsShow
<1> SUFFICES ASSUME NEW b \in Readable(tree) \ {"template"}, NEW p \in CollectPanels(tree.boards[b]), NEW target \in p.targets,
                    p.type \notin {"row", "logs"}, "loki" \notin EffectiveDs(p), NEW name \in References(target)
             PROVE  /\ SuffixFits(tree, name) => name \in Series(tree)
                    /\ StripHistSuffix(name) \in tree.catalog
                    /\ (p.ignore # "reason" /\ name \in Series(tree)) => AskedByKind(tree, target.expr, name)
  BY DEF PanelsShow
<1>1. ~Template(b) BY DEF Template
<1>2. name \in Seq(STRING) BY RefTyped
<1>3. /\ KindsOf(tree, StripHistSuffix(name)) # {} /\ StripHistSuffix(name) \in tree.catalog
      /\ p.ignore # "reason" => TypeRule(tree, target.expr, name)
  BY <1>1, PanelChecked
<1>4. SuffixFits(tree, name) => name \in Series(tree) BY <1>2, <1>3, SeriesThere
<1>5. ASSUME p.ignore # "reason", name \in Series(tree)
      PROVE  AskedByKind(tree, target.expr, name)
  <2>1. TypeRule(tree, target.expr, name) BY <1>3, <1>5
  <2> QED BY <1>5, <2>1, AskedRight
<1> QED BY <1>3, <1>4, <1>5

LEMMA AlertsFireHolds == ASSUME TreeTyped(tree), AllGuards(tree) PROVE AlertsFire
<1> SUFFICES ASSUME NEW f \in DOMAIN tree.alerts \ {"template"}, NEW rule \in tree.alerts[f]
             PROVE  /\ \A name \in References(rule) : ~Suffixed(StripHistSuffix(name)) =>
                        \E x \in tree.macros : /\ x.name \in {name, StripHistSuffix(name)}
                                               /\ IsDescribe(x.kind) => OnTemplateOnly(tree, x.name)
                    /\ rule.alert => /\ rule.runbook \in tree.runbooks /\ rule.for # "none"
                                     /\ (rule.text = "secret" => rule.ignore = "reason")
  BY DEF AlertsFire
<1>1. tree.alerts[f] # Broken /\ CheckRule(tree, rule) BY DEF AllGuards, AlertRules, Template
<1>2. rule.alert => /\ rule.runbook \in tree.runbooks /\ rule.for # "none" /\ (rule.text = "secret" => rule.ignore = "reason")
  BY <1>1 DEF CheckRule, ValidateRunbookUrl, ValidateForField, CheckHygiene, RuleIsIgnored
<1>3. ASSUME NEW name \in References(rule), ~Suffixed(StripHistSuffix(name))
      PROVE  \E x \in tree.macros : /\ x.name \in {name, StripHistSuffix(name)}
                                    /\ IsDescribe(x.kind) => OnTemplateOnly(tree, x.name)
  <2>1. name \in AlertExprMetricRefs(tree) BY <1>1 DEF AlertExprMetricRefs
  <2>2. HasMetric(tree, name) BY <2>1 DEF AllGuards, ApplicationMetrics, RefsExist
  <2>3. PICK x \in tree.macros : x.name \in {name, StripHistSuffix(name)} BY <2>2 DEF HasMetric, Defined
  <2>4. CASE IsDescribe(x.kind) => OnTemplateOnly(tree, x.name) BY <2>3, <2>4
  <2>5. CASE ~OnTemplateOnly(tree, x.name)
    <3>1. PICK b \in Readable(tree) : \E p \in CollectPanels(tree.boards[b]) : \E target \in p.targets :
            /\ \E ref \in References(target) : Shows(ref, x.name)
            /\ ~(Template(b) \/ p.type \in {"row", "logs"} \/ "loki" \in EffectiveDs(p))
      BY <2>5 DEF OnTemplateOnly
    <3>2. PICK p \in CollectPanels(tree.boards[b]) : \E target \in p.targets :
            /\ \E ref \in References(target) : Shows(ref, x.name)
            /\ ~(Template(b) \/ p.type \in {"row", "logs"} \/ "loki" \in EffectiveDs(p))
      BY <3>1
    <3>3. PICK target \in p.targets : /\ \E ref \in References(target) : Shows(ref, x.name)
                                      /\ ~(Template(b) \/ p.type \in {"row", "logs"} \/ "loki" \in EffectiveDs(p))
      BY <3>2
    <3>4. PICK ref \in References(target) : Shows(ref, x.name) BY <3>3
    <3>5. KindsOf(tree, StripHistSuffix(ref)) # {} BY <3>3, PanelChecked
    <3>6. PICK k : k \in KindsOf(tree, StripHistSuffix(ref)) BY <3>5
    <3>7. PICK y \in tree.macros : ~IsDescribe(y.kind) /\ y.name = StripHistSuffix(ref) BY <3>6, KindOfOne
    <3>8. StripHistSuffix(StripHistSuffix(name)) = StripHistSuffix(name) BY <1>3 DEF StripHistSuffix
    <3>9. StripHistSuffix(ref) \in {x.name, StripHistSuffix(x.name)} BY <3>4 DEF Shows
    <3>10. StripHistSuffix(ref) \in {name, StripHistSuffix(name)} BY <2>3, <3>8, <3>9
    <3> QED BY <3>7, <3>10
  <2> QED BY <2>4, <2>5
<1> QED BY <1>2, <1>3

LEMMA EmittedIsKnownHolds == ASSUME TreeTyped(tree), AllGuards(tree) PROVE EmittedIsKnown
<1> SUFFICES ASSUME NEW x \in Emissions(tree.macros)
             PROVE  /\ x.name[1] = x.dir /\ x.name \in tree.catalog
                    /\ \E named \in tree.tests : named.dir = x.dir /\ Contains(named.name, x.name)
                    /\ x.kind = "histogram" => \E b \in tree.buckets : b.dir = x.dir /\ StartsWith(x.name, b.prefix)
                    /\ \E b \in Readable(tree) : \E p \in CollectPanels(tree.boards[b]) : \E target \in p.targets :
                        \E name \in References(target) : x.name \in {name, StripHistSuffix(name)}
  BY DEF EmittedIsKnown
<1>1. x \in tree.macros /\ ~IsDescribe(x.kind) BY DEF Emissions
<1>2. x.dir \in Canonical /\ x.name[1] = x.dir BY <1>1 DEF AllGuards, ApplicationMetrics, Registered, OwnPrefix
<1>3. x.name \in Defined(tree) BY <1>1, <1>2 DEF Defined
<1>4. x.name \in tree.catalog BY <1>3 DEF AllGuards, ApplicationMetrics, InCatalog
<1>5. \E named \in tree.tests : named.dir = x.dir /\ Contains(named.name, x.name)
  <2>1. PICK name \in ReadTestsBlob(tree, x.dir) : Contains(name, x.name) BY <1>2 DEF AllGuards, MetricCoverage
  <2>2. PICK named \in tree.tests : named.dir = x.dir /\ named.name = name BY <2>1 DEF ReadTestsBlob
  <2> QED BY <2>1, <2>2
<1>6. x.kind = "histogram" => \E b \in tree.buckets : b.dir = x.dir /\ StartsWith(x.name, b.prefix)
  BY <1>1, <1>2 DEF AllGuards, HistogramBuckets, HasBuckets
<1>7. PICK ref \in DashboardMetricRefs(tree) : x.name \in {ref, StripHistSuffix(ref)}
  BY <1>3 DEF AllGuards, ApplicationMetrics, OnDashboard
<1>8. \E b \in Readable(tree) : \E p \in CollectPanels(tree.boards[b]) : \E target \in p.targets : ref \in References(target)
  BY <1>7 DEF DashboardMetricRefs
<1>9. \E b \in Readable(tree) : \E p \in CollectPanels(tree.boards[b]) : \E target \in p.targets :
        \E name \in References(target) : x.name \in {name, StripHistSuffix(name)}
  BY <1>7, <1>8
<1> QED BY <1>2, <1>4, <1>5, <1>6, <1>9

LEMMA PodStartsHolds == ASSUME AllGuards(tree) PROVE PodStarts
  BY DEF PodStarts, AllGuards, EnvConfig, CheckKeys

LEMMA LabelsSetHolds == ASSUME AllGuards(tree) PROVE LabelsSet
<1>1. (tree.uids # Void /\ tree.promtail # Void) =>
        \A expr \in LokiExprs(tree) : LabelsOf(expr) \subseteq LokiLabels(tree) \cup {"level"}
  BY DEF AllGuards, GrafanaDatasources
<1>2. ASSUME NEW b \in Readable(tree), NEW p \in tree.boards[b], NEW target \in p.targets,
             target.ds = "prometheus", InfraQuery(target.expr)
      PROVE  FirstLabels(target.expr) \subseteq PrometheusSchema(tree) \cup {"job", "instance"}
  <2>1. CheckInfraQuery(tree, target.expr) BY <1>2 DEF AllGuards, InfrastructureMetrics
  <2>2. FirstLabels(target.expr) \ {"job", "instance"} \subseteq PrometheusSchema(tree) BY <1>2, <2>1 DEF CheckInfraQuery
  <2> QED BY <2>2
<1> QED BY <1>1, <1>2 DEF LabelsSet

LEMMA SuffixNamesRefusedHolds == ASSUME AllGuards(tree) PROVE SuffixNamesRefused
<1> SUFFICES ASSUME NEW x \in Emissions(tree.macros), Suffixed(x.name), KindsOf(tree, StripHistSuffix(x.name)) = {},
                    NEW b \in Readable(tree), NEW p \in CollectPanels(tree.boards[b]), NEW target \in p.targets,
                    NEW ref \in References(target), Shows(ref, x.name)
             PROVE  Template(b) \/ p.type \in {"row", "logs"} \/ "loki" \in EffectiveDs(p)
  BY DEF SuffixNamesRefused, OnTemplateOnly
<1>1. ref = x.name BY DEF Shows
<1>2. SUFFICES ASSUME ~(Template(b) \/ p.type \in {"row", "logs"} \/ "loki" \in EffectiveDs(p)) PROVE FALSE OBVIOUS
<1>3. KindsOf(tree, StripHistSuffix(ref)) # {} BY <1>2, PanelChecked
<1> QED BY <1>1, <1>3

\* A line that is no lazy marker and no plain line has a marker with a reason.
LEMMA MarkedLine ==
    ASSUME NEW lines, \A i \in 1..Len(lines) : lines[i].marker \in MarkerKind, NEW i, PiiSafe(lines, i)
    PROVE  \E j \in {i - 1, i} \cap (1..Len(lines)) : lines[j].marker = "reason"
<1>1. PICK j \in {i - 1, i} : j \in Markers(lines) BY DEF PiiSafe
<1>2. j \in 1..Len(lines) /\ lines[j].marker = "reason" BY <1>1 DEF Markers, LazyReason, MarkerKind
<1> QED BY <1>1, <1>2

LEMMA LabelsSafeHolds == ASSUME TreeTyped(tree), AllGuards(tree) PROVE LabelsSafe
<1>1. PICK lines : lines = tree.source.lines OBVIOUS
<1> SUFFICES ASSUME MetricFile(tree.source), NEW i \in 1..Len(lines), lines[i].kind \in {"counter", "gauge", "histogram"},
                    NEW key, key = lines[i].key, NEW marked,
                    marked = (\E j \in {i - 1, i} \cap (1..Len(lines)) : lines[j].marker = "reason")
             PROVE  /\ TokenHitInSet(key, SecretWords) => key = <<"token", "type">> \/ (key[1] = "raw" /\ marked)
                    /\ (TokenHitInSet(key, PiiWords) /\ key[Len(key)] # "hash") => marked
                    /\ lines[i].value = "bounded"
  BY <1>1 DEF LabelsSafe
<1>2. CheckInvocation(lines, i) BY <1>1 DEF AllGuards, MetricLabels
<1>3. ~IsDescribe(lines[i].kind) BY DEF IsDescribe
<1>4. PiiTokenHit(key) # "secret" /\ ~UnboundedValue(lines[i].value) BY <1>2, <1>3 DEF CheckInvocation
<1>5. PiiTokenHit(key) \in {"prefix", "pii"} => marked
  <2>1. PiiTokenHit(key) \in {"prefix", "pii"} => PiiSafe(lines, i) BY <1>2, <1>3 DEF CheckInvocation
  <2>2. \A j \in 1..Len(lines) : lines[j].marker \in MarkerKind BY <1>1 DEF TreeTyped
  <2>3. PiiSafe(lines, i) => marked BY <2>2, MarkedLine
  <2> QED BY <2>1, <2>3
<1>6. lines[i].value = "bounded"
  <2>1. lines[i].value \in LineValue BY <1>1 DEF TreeTyped
  <2> QED BY <1>4, <2>1 DEF LineValue, UnboundedValue
<1>7. ASSUME TokenHitInSet(key, SecretWords), key # <<"token", "type">> PROVE key[1] = "raw" /\ marked
  <2>1. key \notin SecretAllowlist BY <1>7 DEF SecretAllowlist
  <2>2. key # <<>> /\ key[1] = "raw" BY <1>4, <1>7, <2>1 DEF PiiTokenHit
  <2>3. PiiTokenHit(key) = "prefix" BY <2>2 DEF PiiTokenHit
  <2> QED BY <1>5, <2>2, <2>3
<1>8. ASSUME TokenHitInSet(key, PiiWords), key[Len(key)] # "hash" PROVE marked
  <2>1. ~Hashed(key) BY <1>8 DEF Hashed
  <2>2. PiiTokenHit(key) \in {"prefix", "pii"} BY <1>4, <1>8, <2>1 DEF PiiTokenHit
  <2> QED BY <1>5, <2>2
<1> QED BY <1>6, <1>7, <1>8

LEMMA CatalogHolds == ASSUME CatalogAssumption, CatalogInv PROVE CatalogCorrect
<1>1. TreeTyped(tree) BY TreeIsTyped
<1>2. CatalogTypeOK BY <1>1 DEF CatalogTypeOK, CatalogInv, TreeTyped
<1>3. ASSUME accepted
      PROVE  PanelsShow /\ AlertsFire /\ EmittedIsKnown /\ PodStarts /\ LabelsSet /\ LabelsSafe /\ SuffixNamesRefused
  <2>1. AllGuards(tree) BY <1>3 DEF CatalogInv
  <2> QED BY <1>1, <2>1, PanelsShowHolds, AlertsFireHolds, EmittedIsKnownHolds, PodStartsHolds, LabelsSetHolds,
             LabelsSafeHolds, SuffixNamesRefusedHolds
<1> QED BY <1>2, <1>3 DEF CatalogCorrect

\* Of a tree that every guard accepts, whatever was edited in whatever order: a panel asks for
\* series that exist, as their kind allows; an alert asks for what is emitted; what is emitted
\* is documented, shown and tested, with buckets of its own crate and no secret as a label; the
\* selectors name labels that are set; and a pod finds its settings.  For any tree and edits.
THEOREM CatalogSoundProved == Spec => []CatalogSound
<1> DEFINE Inv == part = "catalog" => CatalogInv
<1>1. Init => Inv BY CatalogStarts, CatalogAssumption DEF Init
<1>2. Inv /\ [Next]_partVars => Inv'
  <2> SUFFICES ASSUME Inv, [Next]_partVars, part' = "catalog" PROVE CatalogInv' OBVIOUS
  <2>1. part = "catalog" /\ CatalogInv BY DEF Next, partVars
  <2>2. [CatalogNext]_catalogVars BY <2>1 DEF Next, partVars
  <2> QED BY <2>1, <2>2, CatalogSteps, CatalogAssumption
<1>3. Inv => CatalogSound BY CatalogHolds, CatalogAssumption DEF CatalogSound
<1> QED BY <1>1, <1>2, <1>3, PTL DEF Spec

-----------------------------------------------------------------------------
(* The guards' judgement of a branch.  What a green verdict was about does  *)
(* not change before the branch lands: the tip and its base stay, and only  *)
(* what the verdict says of the merge is lost when the trunk moves.         *)

Trees ==
    {t \in [Repo -> (UNION {Contents[p] : p \in Repo}) \cup {Absent}] : \A p \in Repo : t[p] \in Contents[p] \cup {Absent}}

GuardsShapes ==
    /\ trunk \in Trees /\ base \in Trees /\ prior \in Trees /\ work \in Trees
    /\ log \in Seq(Trees) /\ Len(log) <= MaxCommits /\ edits \in 0..MaxEdits /\ tracked \subseteq Repo
    /\ green \in BOOLEAN /\ moved \in BOOLEAN /\ blind \in BOOLEAN
    /\ landed \in [from : Trees, to : Trees, commits : 0..MaxCommits, stale : BOOLEAN]

\* Others land no plan and take no test away; a branch without a commit tracks its base.
BranchKept ==
    /\ log = <<>> => Present(base) \subseteq tracked
    /\ trunk[MainMd] = base[MainMd]
    /\ \A p \in TsTest \cap Repo : base[p] # Absent => trunk[p] # Absent

\* What green stands for until the branch changes.
Judged ==
    green => /\ work = Tip
             /\ \A p \in Repo \cap (Rust \cup Typescript) : (Tip[p] # base[p] /\ Tip[p] # Absent) => Clean(p, Tip[p])
             /\ ~moved => KnowledgeIndex(Merged) /\ (blind \/ Merged[Stray] = Absent)
             /\ (Len(log) = 1 /\ ~blind /\ Planned(base, Tip)) => AsPlanned(base, Tip)
             /\ Replaced(base, Tip)

GuardsInv == GuardsShapes /\ BranchKept /\ Judged /\ LandedClean /\ TrunkConsistent /\ PlanKept /\ TestsKept

\* git finds its pairs: among finitely many some set of pairs cannot be extended.
LEMMA MatchingExists ==
    ASSUME NEW P, IsFiniteSet(P)
    PROVE  \E rs \in SUBSET P : Apart(rs) /\ \A r \in P \ rs : ~Apart(rs \cup {r})
<1> DEFINE T == {n \in Nat : \E rs \in SUBSET P : Apart(rs) /\ n = Cardinality(P \ rs)}
<1>1. \A rs \in SUBSET P : IsFiniteSet(P \ rs) /\ Cardinality(P \ rs) \in Nat BY FS_Subset, FS_CardinalityType
<1>2. T # {}
  <2>1. Apart({}) BY DEF Apart
  <2>2. Cardinality(P \ {}) \in T BY <1>1, <2>1
  <2> QED BY <2>2
<1>3. \E n \in T : \A m \in T : ~(<<m, n>> \in OpToRel(<, Nat)) BY <1>2, NatLessThanWellFounded, WFMin
<1>4. PICK n \in T : \A m \in T : ~(m < n) BY <1>3 DEF OpToRel
<1>5. PICK rs \in SUBSET P : Apart(rs) /\ n = Cardinality(P \ rs) BY <1>4
<1>6. ASSUME NEW r \in P \ rs, Apart(rs \cup {r}) PROVE FALSE
  <2>1. PICK m : m = Cardinality((P \ rs) \ {r}) OBVIOUS
  <2>2. m = n - 1 BY <1>1, <1>5, <2>1, FS_RemoveElement
  <2>3. (P \ rs) \ {r} = P \ (rs \cup {r}) OBVIOUS
  <2>4. m = Cardinality(P \ (rs \cup {r})) /\ rs \cup {r} \in SUBSET P BY <2>1, <2>3
  <2>5. m \in Nat BY <1>1, <2>4
  <2>6. m \in T BY <1>6, <2>4, <2>5
  <2>7. n \in Nat OBVIOUS
  <2>8. ~(m < n) BY <1>4, <2>6
  <2>9. m < n BY <2>2, <2>5, <2>7
  <2> QED BY <2>8, <2>9
<1> QED BY <1>5, <1>6

LEMMA RenamesFacts ==
    ASSUME GuardsAssumption, NEW a, NEW b, NEW known
    PROVE  Renames(a, b, known) \in SUBSET Pairs(a, b, known)
<1>1. IsFiniteSet(Repo) BY DEF GuardsAssumption
<1>2. IsFiniteSet(Deleted(a, b)) /\ IsFiniteSet(Added(a, b, known))
  <2>1. Deleted(a, b) \in SUBSET Repo /\ Added(a, b, known) \in SUBSET Repo BY DEF Deleted, Added, Present
  <2> QED BY <1>1, <2>1, FS_Subset
<1>3. IsFiniteSet(Deleted(a, b) \X Added(a, b, known)) BY <1>2, FS_Product
<1>4. Pairs(a, b, known) \in SUBSET (Deleted(a, b) \X Added(a, b, known)) BY DEF Pairs
<1>5. IsFiniteSet(Pairs(a, b, known)) BY <1>3, <1>4, FS_Subset
<1>6. PICK P : P = Pairs(a, b, known) OBVIOUS
<1>7. \E rs \in SUBSET P : Apart(rs) /\ \A r \in P \ rs : ~Apart(rs \cup {r}) BY <1>5, <1>6, MatchingExists
<1>8. Renames(a, b, known) = CHOOSE rs \in SUBSET P : Apart(rs) /\ \A r \in P \ rs : ~Apart(rs \cup {r}) BY <1>6 DEF Renames
<1> QED BY <1>6, <1>7, <1>8

LEMMA RenamedOnes ==
    ASSUME GuardsAssumption, NEW a, NEW b, NEW known
    PROVE  /\ \A p \in RenamedFrom(a, b, known) : p \in Deleted(a, b) /\ \E q \in Added(a, b, known) : SameFile(a[p], b[q])
           /\ \A q \in RenamedTo(a, b, known) : q \in Added(a, b, known)
<1>1. \A r \in Renames(a, b, known) : r[1] \in Deleted(a, b) /\ r[2] \in Added(a, b, known) /\ SameFile(a[r[1]], b[r[2]])
  BY RenamesFacts DEF Pairs
<1> QED BY <1>1 DEF RenamedFrom, RenamedTo

\* What changed and is still there is listed; without a rename all that changed is.
LEMMA ChangeListed ==
    ASSUME GuardsAssumption, NEW a, NEW b, NEW p \in Repo, a[p] # b[p], b[p] # Absent
    PROVE  p \in NameOnly(a, b, Repo)
<1>1. p \notin Deleted(a, b) BY DEF Deleted, Present
<1>2. p \notin RenamedFrom(a, b, Repo) BY <1>1, RenamedOnes
<1> QED BY <1>2 DEF NameOnly

LEMMA AllListed ==
    ASSUME GuardsAssumption, NEW a, NEW b, NEW known, NoRename(a, b)
    PROVE  NameOnly(a, b, known) = {p \in Changed(a, b) : a[p] = Absent => p \in known}
<1>1. RenamedFrom(a, b, known) = {}
  <2> SUFFICES ASSUME NEW p \in RenamedFrom(a, b, known) PROVE FALSE OBVIOUS
  <2>1. p \in Deleted(a, b) /\ \E q \in Added(a, b, known) : SameFile(a[p], b[q]) BY RenamedOnes
  <2> QED BY <2>1 DEF NoRename, Added
<1> QED BY <1>1 DEF NameOnly, Changed

\* Trees.
LEMMA TreeGet == ASSUME NEW t \in Trees, NEW p \in Repo PROVE t[p] \in Contents[p] \cup {Absent} /\ DOMAIN t = Repo
  BY DEF Trees

LEMMA TreeMade ==
    ASSUME NEW t, t = [p \in Repo |-> t[p]], \A p \in Repo : t[p] \in Contents[p] \cup {Absent} PROVE t \in Trees
<1>1. \A p \in Repo : t[p] \in (UNION {Contents[q] : q \in Repo}) \cup {Absent} OBVIOUS
<1>2. t \in [Repo -> (UNION {Contents[q] : q \in Repo}) \cup {Absent}] BY <1>1
<1> QED BY <1>2 DEF Trees

LEMMA TreeEdited ==
    ASSUME NEW t \in Trees, NEW p \in Repo, NEW c \in Contents[p] \cup {Absent}
    PROVE  [t EXCEPT ![p] = c] \in Trees
<1>1. PICK e : e = [t EXCEPT ![p] = c] OBVIOUS
<1>2. DOMAIN t = Repo BY DEF Trees
<1>3. e = [z \in Repo |-> e[z]] /\ \A z \in Repo : e[z] = IF z = p THEN c ELSE t[z] BY <1>1, <1>2
<1>4. \A z \in Repo : e[z] \in Contents[z] \cup {Absent} BY <1>3, TreeGet
<1> QED BY <1>1, <1>3, <1>4, TreeMade

LEMMA TipTyped == ASSUME GuardsShapes PROVE Tip \in Trees
<1>1. CASE log = <<>> BY <1>1 DEF Tip, GuardsShapes
<1>2. CASE log # <<>>
  <2>1. log \in Seq(Trees) BY DEF GuardsShapes
  <2>2. Len(log) \in 1..Len(log) BY <1>2, <2>1
  <2>3. log[Len(log)] \in Trees BY <2>1, <2>2
  <2> QED BY <1>2, <2>3 DEF Tip
<1> QED BY <1>1, <1>2

LEMMA MergedTyped ==
    ASSUME GuardsShapes
    PROVE  Merged \in Trees /\ \A p \in Repo : Merged[p] = IF Tip[p] # base[p] THEN Tip[p] ELSE trunk[p]
<1>1. PICK e : e = Merged OBVIOUS
<1>2. e = [z \in Repo |-> e[z]] /\ \A p \in Repo : e[p] = IF Tip[p] # base[p] THEN Tip[p] ELSE trunk[p] BY <1>1 DEF Merged
<1>3. Tip \in Trees /\ trunk \in Trees BY TipTyped DEF GuardsShapes
<1>4. \A p \in Repo : e[p] \in Contents[p] \cup {Absent} BY <1>2, <1>3, TreeGet
<1> QED BY <1>1, <1>2, <1>4, TreeMade

\* The scans: a file of which no rule of its guards is broken is clean.
LEMMA RustSecretHit == ASSUME NEW l, "assign" \in l, "env" \notin l PROVE "secret_assignment" \in RustNoHardcodedSecrets(l)
  BY DEF RustNoHardcodedSecrets, Fire
LEMMA RustPiiHit == ASSUME NEW l, {"log", "pii"} \subseteq l PROVE "pii_in_log_macro" \in RustNoPiiInLogs(l)
  BY DEF RustNoPiiInLogs, Fire
LEMMA TsPiiHit == ASSUME NEW l, {"log", "pii"} \subseteq l PROVE "pii_in_log_sink" \in TsNoPiiInLogs(l)
  BY DEF TsNoPiiInLogs, Fire
LEMMA ExposeHit == ASSUME NEW l, {"log", "expose"} \subseteq l PROVE "expose_secret_in_log" \in RustNoSecretsInLogs(l)
  BY DEF RustNoSecretsInLogs, Fire
LEMMA SkipHit ==
    ASSUME NEW l, {"instrument", "skip"} \subseteq l, "skip_all" \notin l PROVE "skip_not_all" \in RustInstrumentSkipAll(l)
  BY DEF RustInstrumentSkipAll, Fire

LEMMA RulesOf ==
    ASSUME NEW l
    PROVE  /\ Rules("rust_secrets", l) = RustNoHardcodedSecrets(l)
           /\ Rules("rust_pii", l) = RustNoPiiInLogs(l)
           /\ Rules("rust_log_secrets", l) = RustNoSecretsInLogs(l)
           /\ Rules("instrument", l) = RustInstrumentSkipAll(l)
           /\ Rules("ts_secrets", l) = TsNoSecrets(l)
           /\ Rules("ts_pii", l) = TsNoPiiInLogs(l)
<1>1. Rules("rust_secrets", l) = RustNoHardcodedSecrets(l) BY Zenon DEF Rules
<1>2. Rules("rust_pii", l) = RustNoPiiInLogs(l) BY Zenon DEF Rules
<1>3. Rules("rust_log_secrets", l) = RustNoSecretsInLogs(l) BY Zenon DEF Rules
<1>4. Rules("instrument", l) = RustInstrumentSkipAll(l) BY Zenon DEF Rules
<1>5. Rules("ts_secrets", l) = TsNoSecrets(l) BY Zenon DEF Rules
<1>6. Rules("ts_pii", l) = TsNoPiiInLogs(l) BY Zenon DEF Rules
<1> QED BY <1>1, <1>2, <1>3, <1>4, <1>5, <1>6

LEMMA NoHitsClean ==
    ASSUME NEW t, NEW p \in Rust \cup Typescript, \A g \in ScanGuard : InScope(g, p) => Hits(g, t, p) = {}
    PROVE  Clean(p, t[p])
<1>1. PICK l : l = t[p] OBVIOUS
<1> SUFFICES ASSUME ~IsScanExempt(p), l \cap {"comment", "in_test"} = {}, Leaks(p, l) PROVE FALSE BY <1>1 DEF Clean
<1>2. ASSUME NEW g \in ScanGuard, InScope(g, p), ~SkipsLine(g, l), NEW rule \in Rules(g, l), rule \notin Warning PROVE FALSE
  <2>1. rule \in Hits(g, t, p) BY <1>1, <1>2 DEF Hits
  <2> QED BY <1>2, <2>1
<1>3. CASE p \in Rust
  <2>1. /\ InScope("rust_secrets", p) /\ InScope("rust_pii", p) /\ InScope("rust_log_secrets", p) /\ InScope("instrument", p)
    BY <1>3 DEF InScope
  <2>2. CASE "assign" \in l /\ "env" \notin l
    <3>1. ~SkipsLine("rust_secrets", l) BY DEF SkipsLine, IsCommentLine, IsAllowedLine
    <3>2. "secret_assignment" \in Rules("rust_secrets", l) BY <2>2, RustSecretHit, RulesOf
    <3> QED BY <1>2, <2>1, <3>1, <3>2 DEF ScanGuard, Warning
  <2>3. CASE {"log", "pii"} \subseteq l /\ l \cap {"redacted", "pii_safe"} = {} /\ ~({"instrument", "skip"} \subseteq l)
    <3>1. ~SkipsLine("rust_pii", l) BY <2>3 DEF SkipsLine, IsCommentLine, IsAllowedLine
    <3>2. "pii_in_log_macro" \in Rules("rust_pii", l) BY <2>3, RustPiiHit, RulesOf
    <3> QED BY <1>2, <2>1, <3>1, <3>2 DEF ScanGuard, Warning
  <2>4. CASE {"log", "expose"} \subseteq l /\ l \cap {"redacted", "skip_all", "ignore"} = {}
    <3>1. ~SkipsLine("rust_log_secrets", l) BY <2>4 DEF SkipsLine, IsCommentLine, IsAllowedLine
    <3>2. "expose_secret_in_log" \in Rules("rust_log_secrets", l) BY <2>4, ExposeHit, RulesOf
    <3> QED BY <1>2, <2>1, <3>1, <3>2 DEF ScanGuard, Warning
  <2>5. CASE {"instrument", "skip"} \subseteq l /\ "skip_all" \notin l
    <3>1. ~SkipsLine("instrument", l) BY <2>5 DEF SkipsLine, IsCommentLine, IsAllowedLine
    <3>2. "skip_not_all" \in Rules("instrument", l) BY <2>5, SkipHit, RulesOf
    <3> QED BY <1>2, <2>1, <3>1, <3>2 DEF ScanGuard, Warning
  <2> QED BY <2>2, <2>3, <2>4, <2>5 DEF Leaks
<1>4. CASE p \in Typescript /\ p \notin Rust
  <2>1. InScope("ts_secrets", p) /\ (p # "view.tsx" => InScope("ts_pii", p)) BY <1>4 DEF InScope
  <2>2. CASE "assign" \in l /\ "env" \notin l
    <3>1. ~SkipsLine("ts_secrets", l) BY DEF SkipsLine, IsCommentLine, IsAllowedLine
    <3>2. "secret_assignment" \in Rules("ts_secrets", l) BY <2>2, RustSecretHit, RulesOf DEF TsNoSecrets
    <3> QED BY <1>2, <2>1, <3>1, <3>2 DEF ScanGuard, Warning
  <2>3. CASE {"log", "pii"} \subseteq l /\ p # "view.tsx" /\ l \cap {"redacted", "pii_safe"} = {}
    <3>1. ~SkipsLine("ts_pii", l) BY <2>3 DEF SkipsLine, IsCommentLine, IsAllowedLine
    <3>2. "pii_in_log_sink" \in Rules("ts_pii", l) BY <2>3, TsPiiHit, RulesOf
    <3> QED BY <1>2, <2>1, <2>3, <3>1, <3>2 DEF ScanGuard, Warning
  <2> QED BY <1>4, <2>2, <2>3 DEF Leaks
<1> QED BY <1>3, <1>4

LEMMA Verdicts ==
    ASSUME NEW a, NEW b, NEW known, NEW diff, NEW down
    PROVE  /\ \A g \in ScanGuard : GuardVerdict(g, a, b, known, diff, down) = Scan(g, a, b, known, down)
           /\ GuardVerdict("knowledge_index", a, b, known, diff, down) = KnowledgeIndex(b)
           /\ GuardVerdict("todo_tracking", a, b, known, diff, down) = TodoTracking(b, known, down)
           /\ GuardVerdict("removal", a, b, known, diff, down) = TsNoTestRemoval(a, b, known, down)
           /\ GuardVerdict("scope", a, b, known, diff, down) = CrossBoundaryScope(diff)
           /\ GuardVerdict("classification", a, b, known, diff, down) = CrossBoundaryClassification(a, b, known, down)
<1>1. /\ "knowledge_index" \notin ScanGuard /\ "todo_tracking" \notin ScanGuard /\ "removal" \notin ScanGuard
      /\ "scope" \notin ScanGuard /\ "classification" \notin ScanGuard
  BY DEF ScanGuard
<1>2. \A g \in ScanGuard : GuardVerdict(g, a, b, known, diff, down) = Scan(g, a, b, known, down)
  BY <1>1, Zenon DEF GuardVerdict
<1>3. GuardVerdict("knowledge_index", a, b, known, diff, down) = KnowledgeIndex(b) BY <1>1, Zenon DEF GuardVerdict
<1>4. GuardVerdict("todo_tracking", a, b, known, diff, down) = TodoTracking(b, known, down) BY <1>1, Zenon DEF GuardVerdict
<1>5. GuardVerdict("removal", a, b, known, diff, down) = TsNoTestRemoval(a, b, known, down) BY <1>1, Zenon DEF GuardVerdict
<1>6. GuardVerdict("scope", a, b, known, diff, down) = CrossBoundaryScope(diff) BY <1>1, Zenon DEF GuardVerdict
<1>7. GuardVerdict("classification", a, b, known, diff, down) = CrossBoundaryClassification(a, b, known, down)
  BY <1>1, Zenon DEF GuardVerdict
<1> QED BY <1>2, <1>3, <1>4, <1>5, <1>6, <1>7

LEMMA ScanVerdict ==
    ASSUME NEW a, NEW b, NEW known, NEW diff, NEW down, NEW g \in ScanGuard
    PROVE  GuardVerdict(g, a, b, known, diff, down) <=> Scan(g, a, b, known, down)
<1>1. g \notin {"knowledge_index", "todo_tracking", "removal", "scope", "classification"} BY DEF ScanGuard
<1> QED BY <1>1 DEF GuardVerdict

\* A scan that says OK has read what changed.
LEMMA ScannedClean ==
    ASSUME GuardsAssumption, NEW a, NEW b, NEW down, \A g \in ScanGuard : Scan(g, a, b, Repo, down),
           NEW p \in Repo \cap (Rust \cup Typescript), a[p] # b[p], b[p] # Absent
    PROVE  Clean(p, b[p])
<1>1. p \in GetAllChangedFiles(a, b, Repo) BY ChangeListed DEF GetAllChangedFiles
<1>2. p \in Present(b) BY DEF Present
<1>3. \A g \in ScanGuard : InScope(g, p) => Hits(g, b, p) = {} BY <1>1, <1>2 DEF Scan
<1> QED BY <1>3, NoHitsClean

\* A plan that the scope guard accepts is the plan of the commit.
LEMMA PlanJudged ==
    ASSUME GuardsAssumption, GuardsShapes, BranchKept, work = Tip, Len(log) = 1, Planned(base, Tip),
           CrossBoundaryScope(GetActiveEditPaths({})), CrossBoundaryClassification(trunk, Merged, Repo, {})
    PROVE  AsPlanned(base, Tip)
<1>1. MainMd \in Repo BY DEF GuardsAssumption
<1>2. MainMd \in Changed(base, Tip) /\ Tip[MainMd] # Absent /\ NoRename(base, Tip) BY DEF Planned
<1>3. PICK diff : diff = Changed(base, Tip) OBVIOUS
<1>4. GetActiveEditPaths({}) = diff
  <2>1. TipParent = base
    <3>1. log # <<>> OBVIOUS
    <3> QED BY <3>1 DEF TipParent
  <2>2. GetActiveEditPaths({}) = NameOnly(base, Tip, Repo) BY <2>1 DEF GetActiveEditPaths, Unless
  <2>3. NameOnly(base, Tip, Repo) = {p \in Changed(base, Tip) : base[p] = Absent => p \in Repo} BY <1>2, AllListed
  <2>4. Changed(base, Tip) \subseteq Repo BY DEF Changed
  <2> QED BY <1>3, <2>2, <2>3, <2>4
<1>5. PICK own : own = {p \in diff : ~IsSymmetricExclusion(p)} OBVIOUS
<1>6. own = UNION {Expand(e, own) : e \in PlanPaths(Tip[MainMd])}
  BY <1>2, <1>3, <1>4, <1>5 DEF CrossBoundaryScope, CheckScope
<1>7. \A e : \E p \in Expand(e, own) : TRUE BY DEF Expand
<1>8. \A e : \A p \in Expand(e, own) : PathMatches(e, p) BY DEF Expand, PathMatches
<1>9. PICK plan : plan = {Rows[r] : r \in Tip[MainMd]} OBVIOUS
<1>10. \A e : e \in PlanPaths(Tip[MainMd]) <=> (\E r \in plan : r.entry = e) /\ ~IsSymmetricExclusion(e) BY <1>9 DEF PlanPaths
<1>11. ASSUME NEW p \in diff, ~IsSymmetricExclusion(p) PROVE \E r \in plan : PathMatches(r.entry, p)
  <2>1. p \in own BY <1>5, <1>11
  <2>2. PICK e \in PlanPaths(Tip[MainMd]) : p \in Expand(e, own) BY <1>6, <2>1
  <2>3. PathMatches(e, p) BY <1>8, <2>2
  <2> QED BY <1>10, <2>2, <2>3
<1>12. ASSUME NEW r \in plan, ~IsSymmetricExclusion(r.entry) PROVE \E p \in diff : PathMatches(r.entry, p)
  <2>1. r.entry \in PlanPaths(Tip[MainMd]) BY <1>10, <1>12
  <2>2. PICK p : p \in Expand(r.entry, own) BY <1>7
  <2>3. p \in own BY <1>6, <2>1, <2>2
  <2> QED BY <1>5, <1>8, <2>2, <2>3
<1>13. ASSUME NEW r \in plan, r.class # "Mine", IsGsa(r.entry) PROVE r.owner \in Owners[r.entry]
  <2>1. Tip[MainMd] # base[MainMd] BY <1>2 DEF Changed
  <2>2. Merged[MainMd] = Tip[MainMd] BY <1>1, <2>1, MergedTyped
  <2>3. trunk[MainMd] # Merged[MainMd] /\ Merged[MainMd] # Absent BY <1>2, <2>1, <2>2 DEF BranchKept
  <2>4. MainMd \in NameOnly(trunk, Merged, Repo) BY <1>1, <2>3, ChangeListed
  <2>5. MainMd \in Present(Merged) BY <1>1, <2>3 DEF Present
  <2>6. \A x \in Merged[MainMd] : CheckRow(Rows[x]) BY <2>4, <2>5 DEF CrossBoundaryClassification
  <2>7. CheckRow(r) BY <1>9, <2>2, <2>6
  <2> QED BY <1>13, <2>7 DEF CheckRow
<1> QED BY <1>3, <1>9, <1>11, <1>12, <1>13 DEF AsPlanned

\* What a merge adds the branch has added; what the branch deletes the merge deletes.
LEMMA MergeAdds ==
    ASSUME GuardsShapes, Mergeable, NEW q \in Added(trunk, Merged, Repo)
    PROVE  q \in Present(Tip) \ Present(base) /\ Merged[q] = Tip[q]
<1>1. q \in Repo /\ trunk[q] = Absent /\ Merged[q] # Absent BY DEF Added, Present
<1>2. Tip[q] # base[q] /\ Merged[q] = Tip[q] BY <1>1, MergedTyped
<1>3. trunk[q] \in {base[q], Tip[q]} BY <1>1, <1>2 DEF Mergeable
<1> QED BY <1>1, <1>2, <1>3 DEF Present

LEMMA TestsJudged ==
    ASSUME GuardsAssumption, GuardsShapes, BranchKept, Mergeable, NEW down, TsNoTestRemoval(trunk, Merged, Repo, down)
    PROVE  Replaced(base, Tip)
<1> SUFFICES ASSUME NEW p \in Deleted(base, Tip) \cap TsTest
             PROVE  \E q \in Present(Tip) \ Present(base) : q \in TsTest \/ SameFile(base[p], Tip[q])
  BY DEF Replaced
<1>1. p \in Repo /\ base[p] # Absent /\ Tip[p] = Absent BY DEF Deleted, Present
<1>2. trunk[p] # Absent BY <1>1 DEF BranchKept
<1>3. trunk[p] = base[p] BY <1>1, <1>2 DEF Mergeable
<1>4. Merged[p] = Absent BY <1>1, MergedTyped
<1>5. p \in Deleted(trunk, Merged) BY <1>1, <1>2, <1>4 DEF Deleted, Present
<1>6. CASE p \in RenamedFrom(trunk, Merged, Repo)
  <2>1. PICK q \in Added(trunk, Merged, Repo) : SameFile(trunk[p], Merged[q]) BY <1>6, RenamedOnes
  <2> QED BY <1>3, <2>1, MergeAdds
<1>7. CASE p \notin RenamedFrom(trunk, Merged, Repo)
  <2>1. p \in GetDeletedFiles(trunk, Merged, Repo) \cap TsTest BY <1>5, <1>7 DEF GetDeletedFiles
  <2>2. PICK q \in GetAddedFiles(trunk, Merged, Repo) : q \in TsTest BY <2>1 DEF TsNoTestRemoval
  <2>3. q \in Added(trunk, Merged, Repo) BY <2>2 DEF GetAddedFiles
  <2> QED BY <2>2, <2>3, MergeAdds
<1> QED BY <1>6, <1>7

LEMMA GuardsStarts == ASSUME GuardsAssumption, GuardsInit PROVE GuardsInv
<1>1. trunk \in Trees
  <2>1. trunk \in [Repo -> {{}, Absent}] BY DEF GuardsInit
  <2>2. trunk = [p \in Repo |-> trunk[p]] BY <2>1
  <2>3. \A p \in Repo : trunk[p] \in Contents[p] \cup {Absent} BY <2>1 DEF GuardsAssumption
  <2> QED BY <2>2, <2>3, TreeMade
<1>2. base = trunk /\ prior = trunk /\ work = trunk /\ log = <<>> /\ tracked = Present(trunk) /\ ~green /\ ~moved /\ edits = 0 /\ ~blind
  BY DEF GuardsInit
<1>3. landed = [from |-> trunk, to |-> trunk, commits |-> 0, stale |-> FALSE] BY DEF GuardsInit
<1>4. GuardsShapes
  <2>1. log \in Seq(Trees) /\ Len(log) = 0 BY <1>2
  <2>2. 0 \in 0..MaxEdits /\ 0 \in 0..MaxCommits /\ 0 <= MaxCommits BY DEF GuardsAssumption
  <2>3. tracked \subseteq Repo BY <1>2 DEF Present
  <2>4. green \in BOOLEAN /\ moved \in BOOLEAN /\ blind \in BOOLEAN BY DEF GuardsInit
  <2>5. landed \in [from : Trees, to : Trees, commits : 0..MaxCommits, stale : BOOLEAN] BY <1>1, <1>3, <2>2
  <2> QED BY <1>1, <1>2, <2>1, <2>2, <2>3, <2>4, <2>5 DEF GuardsShapes
<1>5. BranchKept BY <1>2 DEF BranchKept
<1>6. Judged BY <1>2 DEF Judged
<1>7. \A p \in Repo : trunk[p] = {} \/ trunk[p] = Absent BY DEF GuardsInit
<1>8. LandedClean
  <2>1. \A p \in Present(trunk) : trunk[p] = {} BY <1>7 DEF Present
  <2> QED BY <2>1 DEF LandedClean, Clean, Leaks
<1>9. TrunkConsistent
  <2>1. IndexMd \in Repo /\ Stray \in Repo BY DEF GuardsAssumption
  <2>2. KnowledgeIndex(trunk) BY <1>7, <2>1 DEF KnowledgeIndex
  <2>3. Stray \notin Present(trunk) BY DEF GuardsInit, Stray, IndexMd
  <2>4. trunk[Stray] = Absent BY <2>1, <2>3 DEF Present
  <2> QED BY <2>2, <2>4 DEF TrunkConsistent
<1>10. PlanKept BY <1>3 DEF PlanKept
<1>11. TestsKept BY <1>3 DEF TestsKept, Replaced, Deleted
<1> QED BY <1>4, <1>5, <1>6, <1>8, <1>9, <1>10, <1>11 DEF GuardsInv

LEMMA SameTip == ASSUME log' = log, base' = base PROVE Tip' = Tip BY DEF Tip
LEMMA SameMerge == ASSUME log' = log, base' = base, trunk' = trunk PROVE Tip' = Tip /\ Merged' = Merged BY DEF Tip, Merged

\* What main is known to be stays as long as main and the last landing do.
LEMMA TrunkStays ==
    ASSUME GuardsInv, trunk' = trunk, landed' = landed, blind => blind'
    PROVE  LandedClean' /\ TrunkConsistent' /\ PlanKept' /\ TestsKept'
<1>1. LandedClean' BY DEF GuardsInv, LandedClean, Present
<1>2. TrunkConsistent'
  <2>1. KnowledgeIndex(trunk') = KnowledgeIndex(trunk) OBVIOUS
  <2> QED BY <2>1 DEF GuardsInv, TrunkConsistent
<1>3. PlanKept'
  <2>1. Planned(landed.from, landed.to)' = Planned(landed.from, landed.to) BY DEF Planned, Changed, NoRename, Deleted, Present
  <2>2. AsPlanned(landed.from, landed.to)' = AsPlanned(landed.from, landed.to) BY DEF AsPlanned, Changed
  <2> QED BY <2>1, <2>2 DEF GuardsInv, PlanKept
<1>4. TestsKept' BY DEF GuardsInv, TestsKept, Replaced, Deleted, Present
<1> QED BY <1>1, <1>2, <1>3, <1>4

LEMMA ChangeSteps ==
    ASSUME GuardsAssumption, GuardsInv, NEW t \in Trees, Change(t) PROVE GuardsInv'
<1>1. /\ work' = t /\ edits' = edits + 1 /\ edits < MaxEdits /\ green' = FALSE /\ trunk' = trunk /\ base' = base /\ prior' = prior
      /\ log' = log /\ tracked' = tracked /\ moved' = moved /\ blind' = blind /\ landed' = landed
  BY DEF Change
<1>2. GuardsShapes'
  <2>1. edits' \in 0..MaxEdits BY <1>1 DEF GuardsInv, GuardsShapes, GuardsAssumption
  <2> QED BY <1>1, <2>1 DEF GuardsInv, GuardsShapes
<1>3. BranchKept' BY <1>1 DEF GuardsInv, BranchKept, Present
<1>4. Judged' BY <1>1 DEF Judged
<1> QED BY <1>1, <1>2, <1>3, <1>4, TrunkStays DEF GuardsInv

LEMMA EditSteps == ASSUME GuardsAssumption, GuardsInv, NEW p \in Repo, NEW c \in Contents[p] \cup {Absent}, Edit(p, c) PROVE GuardsInv'
<1>1. [work EXCEPT ![p] = c] \in Trees BY TreeEdited DEF GuardsInv, GuardsShapes
<1> QED BY <1>1, ChangeSteps DEF Edit

LEMMA MoveSteps == ASSUME GuardsAssumption, GuardsInv, NEW p \in Repo, NEW q \in Repo, NEW c \in Contents[q], Move(p, q, c) PROVE GuardsInv'
<1>1. work \in Trees BY DEF GuardsInv, GuardsShapes
<1>3. PICK t : t = [work EXCEPT ![q] = c] OBVIOUS
<1>4. t \in Trees BY <1>1, <1>3, TreeEdited
<1>5. [t EXCEPT ![p] = Absent] \in Trees BY <1>4, TreeEdited
<1>6. [work EXCEPT ![q] = c, ![p] = Absent] = [t EXCEPT ![p] = Absent] BY <1>3
<1>7. Change([t EXCEPT ![p] = Absent]) BY <1>6 DEF Move
<1> QED BY <1>5, <1>7, ChangeSteps

LEMMA GitAddSteps == ASSUME GuardsAssumption, GuardsInv, GitAdd PROVE GuardsInv'
<1>1. /\ tracked' = tracked \cup Present(work) /\ trunk' = trunk /\ base' = base /\ prior' = prior /\ log' = log /\ work' = work
      /\ green' = green /\ moved' = moved /\ edits' = edits /\ blind' = blind /\ landed' = landed
  BY DEF GitAdd
<1>2. GuardsShapes'
  <2>1. tracked' \subseteq Repo BY <1>1 DEF GuardsInv, GuardsShapes, Present
  <2> QED BY <1>1, <2>1 DEF GuardsInv, GuardsShapes
<1>3. BranchKept' BY <1>1 DEF GuardsInv, BranchKept, Present
<1>4. Judged'
  <2>1. Tip' = Tip /\ Merged' = Merged BY <1>1, SameMerge
  <2> QED BY <1>1, <2>1 DEF GuardsInv, Judged, KnowledgeIndex, Present, Planned, AsPlanned, Changed, NoRename, Deleted, Replaced
<1> QED BY <1>1, <1>2, <1>3, <1>4, TrunkStays DEF GuardsInv

LEMMA CommitSteps == ASSUME GuardsAssumption, GuardsInv, Commit PROVE GuardsInv'
<1>1. /\ work # Tip /\ Len(log) < MaxCommits /\ log' = Append(log, work) /\ tracked' = Present(work) /\ trunk' = trunk
      /\ base' = base /\ prior' = prior /\ work' = work /\ green' = green /\ moved' = moved /\ edits' = edits
      /\ blind' = blind /\ landed' = landed
  BY DEF Commit
<1>2. ~green BY <1>1 DEF GuardsInv, Judged
<1>3. log' \in Seq(Trees) /\ Len(log') = Len(log) + 1 /\ log' # <<>>
  <2>1. log \in Seq(Trees) /\ work \in Trees BY DEF GuardsInv, GuardsShapes
  <2> QED BY <1>1, <2>1
<1>4. GuardsShapes'
  <2>1. Len(log') <= MaxCommits
    <3>1. Len(log) \in Nat BY DEF GuardsInv, GuardsShapes
    <3> QED BY <1>1, <1>3, <3>1 DEF GuardsAssumption
  <2>2. tracked' \subseteq Repo BY <1>1 DEF Present
  <2> QED BY <1>1, <1>3, <2>1, <2>2 DEF GuardsInv, GuardsShapes
<1>5. BranchKept' BY <1>1, <1>3 DEF GuardsInv, BranchKept
<1>6. Judged' BY <1>1, <1>2 DEF Judged
<1> QED BY <1>1, <1>4, <1>5, <1>6, TrunkStays DEF GuardsInv

LEMMA OthersLandSteps ==
    ASSUME GuardsAssumption, GuardsInv, NEW p \in Repo, NEW c \in Contents[p] \cup {Absent}, OthersLand(p, c) PROVE GuardsInv'
<1>1. PICK t : t = [trunk EXCEPT ![p] = c] OBVIOUS
<1>2. /\ edits < MaxEdits /\ c # trunk[p] /\ p # MainMd /\ trunk' = t /\ moved' = TRUE /\ edits' = edits + 1 /\ base' = base
      /\ prior' = prior /\ log' = log /\ work' = work /\ tracked' = tracked /\ green' = green /\ blind' = blind /\ landed' = landed
  BY <1>1 DEF OthersLand
<1>3. \A g \in Guard \ {"scope"} : GuardVerdict(g, trunk, t, Repo, {}, {}) BY <1>1 DEF OthersLand
<1>4. trunk \in Trees /\ DOMAIN trunk = Repo BY DEF GuardsInv, GuardsShapes, Trees
<1>5. t \in Trees BY <1>1, <1>4, TreeEdited
<1>6. \A z \in Repo : t[z] = IF z = p THEN c ELSE trunk[z] BY <1>1, <1>4
<1>7. /\ \A g \in ScanGuard : Scan(g, trunk, t, Repo, {})
      /\ KnowledgeIndex(t) /\ TodoTracking(t, Repo, {}) /\ TsNoTestRemoval(trunk, t, Repo, {})
  <2>1. ScanGuard \subseteq Guard \ {"scope"} /\ {"knowledge_index", "todo_tracking", "removal"} \subseteq Guard \ {"scope"}
    BY DEF Guard, TreeGuard, ScanGuard
  <2> QED BY <1>3, <2>1, Verdicts
<1>8. GuardsShapes'
  <2>1. edits' \in 0..MaxEdits BY <1>2 DEF GuardsInv, GuardsShapes, GuardsAssumption
  <2> QED BY <1>2, <1>5, <2>1 DEF GuardsInv, GuardsShapes
<1>9. BranchKept'
  <2>1. MainMd \in Repo BY DEF GuardsAssumption
  <2>2. trunk'[MainMd] = base'[MainMd] BY <1>2, <1>6, <2>1 DEF GuardsInv, BranchKept
  <2>3. ASSUME p \in TsTest, c = Absent, trunk[p] # Absent PROVE FALSE
    <3>1. Deleted(trunk, t) = {p} BY <1>6, <2>3 DEF Deleted, Present
    <3>2. Added(trunk, t, Repo) = {} BY <1>6, <2>3 DEF Added, Present
    <3>3. p \notin RenamedFrom(trunk, t, Repo) BY <3>2, RenamedOnes
    <3>4. GetDeletedFiles(trunk, t, Repo) \cap TsTest # {} BY <2>3, <3>1, <3>3 DEF GetDeletedFiles
    <3>5. GetAddedFiles(trunk, t, Repo) = {} BY <3>2 DEF GetAddedFiles
    <3> QED BY <1>7, <3>4, <3>5 DEF TsNoTestRemoval
  <2>4. \A z \in TsTest \cap Repo : base[z] # Absent => t[z] # Absent BY <1>6, <2>3 DEF GuardsInv, BranchKept
  <2>5. log' = <<>> => Present(base)' \subseteq tracked' BY <1>2 DEF GuardsInv, BranchKept, Present
  <2> QED BY <1>2, <2>2, <2>4, <2>5 DEF BranchKept
<1>10. Judged'
  <2>1. Tip' = Tip BY <1>2, SameTip
  <2> QED BY <1>2, <2>1 DEF GuardsInv, Judged, Planned, AsPlanned, Changed, NoRename, Deleted, Present, Replaced
<1>11. LandedClean'
  <2> SUFFICES ASSUME NEW z \in Repo \cap (Rust \cup Typescript), t[z] # Absent PROVE Clean(z, t[z])
    BY <1>2 DEF LandedClean, Present
  <2>1. CASE t[z] # trunk[z] BY <1>7, <2>1, ScannedClean
  <2>2. CASE t[z] = trunk[z] BY <2>2 DEF GuardsInv, LandedClean, Present
  <2> QED BY <2>1, <2>2
<1>12. TrunkConsistent'
  <2>1. t[Stray] = Absent BY <1>7 DEF TodoTracking
  <2>2. KnowledgeIndex(trunk') BY <1>2, <1>7
  <2> QED BY <1>2, <2>1, <2>2 DEF TrunkConsistent
<1>13. PlanKept'
  <2>1. Planned(landed.from, landed.to)' = Planned(landed.from, landed.to) BY <1>2 DEF Planned, Changed, NoRename, Deleted, Present
  <2>2. AsPlanned(landed.from, landed.to)' = AsPlanned(landed.from, landed.to) BY <1>2 DEF AsPlanned, Changed
  <2> QED BY <1>2, <2>1, <2>2 DEF GuardsInv, PlanKept
<1>14. TestsKept' BY <1>2 DEF GuardsInv, TestsKept, Replaced, Deleted, Present
<1> QED BY <1>8, <1>9, <1>10, <1>11, <1>12, <1>13, <1>14 DEF GuardsInv

LEMMA RunGuardsSteps == ASSUME GuardsAssumption, GuardsInv, NEW down \in Faults, RunGuards(down) PROVE GuardsInv'
<1>1. /\ log # <<>> /\ work = Tip /\ Mergeable /\ moved' = FALSE /\ trunk' = trunk /\ base' = base /\ prior' = prior /\ log' = log
      /\ work' = work /\ tracked' = tracked /\ edits' = edits /\ landed' = landed
  BY DEF RunGuards
<1>2. green' = \A g \in Guard : GuardVerdict(g, trunk, Merged, Repo, GetActiveEditPaths(down), down) BY DEF RunGuards
<1>3. blind' = (blind \/ (down # {} /\ green')) BY DEF RunGuards
<1>4. GuardsShapes'
  <2>1. green' \in BOOLEAN BY <1>2
  <2>2. blind' \in BOOLEAN BY <1>3
  <2> QED BY <1>1, <2>1, <2>2 DEF GuardsInv, GuardsShapes
<1>5. BranchKept' BY <1>1 DEF GuardsInv, BranchKept, Present
<1>6. ASSUME green'
      PROVE  /\ \A g \in ScanGuard : Scan(g, trunk, Merged, Repo, down)
             /\ KnowledgeIndex(Merged) /\ TodoTracking(Merged, Repo, down) /\ TsNoTestRemoval(trunk, Merged, Repo, down)
             /\ CrossBoundaryScope(GetActiveEditPaths(down)) /\ CrossBoundaryClassification(trunk, Merged, Repo, down)
  <2>1. \A g \in Guard : GuardVerdict(g, trunk, Merged, Repo, GetActiveEditPaths(down), down) BY <1>2, <1>6
  <2>2. ScanGuard \subseteq Guard /\ {"knowledge_index", "todo_tracking", "removal", "scope", "classification"} \subseteq Guard
    BY DEF Guard, TreeGuard, ScanGuard
  <2> QED BY <2>1, <2>2, Verdicts
<1>7. Judged'
  <2>1. Tip' = Tip /\ Merged' = Merged BY <1>1, SameMerge
  <2> SUFFICES ASSUME green'
               PROVE  /\ \A p \in Repo \cap (Rust \cup Typescript) : (Tip[p] # base[p] /\ Tip[p] # Absent) => Clean(p, Tip[p])
                      /\ KnowledgeIndex(Merged) /\ (blind' \/ Merged[Stray] = Absent)
                      /\ (Len(log) = 1 /\ ~blind' /\ Planned(base, Tip)) => AsPlanned(base, Tip)
                      /\ Replaced(base, Tip)
    <3>1. KnowledgeIndex(Merged)' = KnowledgeIndex(Merged) BY <2>1 DEF KnowledgeIndex, Present
    <3>2. Planned(base, Tip)' = Planned(base, Tip) BY <1>1, <2>1 DEF Planned, Changed, NoRename, Deleted, Present
    <3>3. AsPlanned(base, Tip)' = AsPlanned(base, Tip) BY <1>1, <2>1 DEF AsPlanned, Changed
    <3>4. Replaced(base, Tip)' = Replaced(base, Tip) BY <1>1, <2>1 DEF Replaced, Deleted, Present
    <3> QED BY <1>1, <2>1, <3>1, <3>2, <3>3, <3>4 DEF Judged
  <2>2. GuardsShapes /\ BranchKept BY DEF GuardsInv
  <2>3. ASSUME NEW p \in Repo \cap (Rust \cup Typescript), Tip[p] # base[p], Tip[p] # Absent PROVE Clean(p, Tip[p])
    <3>1. Merged[p] = Tip[p] BY <2>2, <2>3, MergedTyped
    <3>2. CASE trunk[p] = Tip[p] BY <2>3, <3>2 DEF GuardsInv, LandedClean, Present
    <3>3. CASE trunk[p] # Tip[p] BY <1>6, <2>3, <3>1, <3>3, ScannedClean
    <3> QED BY <3>2, <3>3
  <2>4. blind' \/ Merged[Stray] = Absent
    <3>1. Merged[Stray] = Absent \/ down # {} BY <1>6 DEF TodoTracking
    <3> QED BY <1>3, <3>1
  <2>5. ASSUME Len(log) = 1, ~blind', Planned(base, Tip) PROVE AsPlanned(base, Tip)
    <3>1. down = {} BY <1>3, <2>5
    <3>2. CrossBoundaryScope(GetActiveEditPaths({})) /\ CrossBoundaryClassification(trunk, Merged, Repo, {}) BY <1>6, <3>1
    <3> QED BY <1>1, <2>2, <2>5, <3>2, PlanJudged
  <2>6. Replaced(base, Tip) BY <1>1, <1>6, <2>2, TestsJudged
  <2> QED BY <1>6, <2>3, <2>4, <2>5, <2>6
<1>8. blind => blind' BY <1>3
<1> QED BY <1>1, <1>4, <1>5, <1>7, <1>8, TrunkStays DEF GuardsInv

LEMMA LandSteps == ASSUME GuardsAssumption, GuardsInv, Land PROVE GuardsInv'
<1>1. PICK t : t = Merged OBVIOUS
<1>2. PICK e : e = Tip OBVIOUS
<1>3. /\ green /\ work = Tip /\ Mergeable /\ trunk' = t /\ base' = t /\ prior' = trunk /\ work' = t /\ log' = <<>>
      /\ tracked' = Present(t) /\ green' = FALSE /\ moved' = FALSE /\ edits' = edits /\ blind' = blind
      /\ landed' = [from |-> base, to |-> e, commits |-> Len(log), stale |-> landed.stale \/ moved]
  BY <1>1, <1>2 DEF Land
<1>4. GuardsShapes /\ Judged BY DEF GuardsInv
<1>5. t \in Trees /\ e \in Trees /\ \A p \in Repo : t[p] = IF e[p] # base[p] THEN e[p] ELSE trunk[p]
  BY <1>1, <1>2, <1>4, TipTyped, MergedTyped
<1>6. GuardsShapes'
  <2>1. Len(log) \in 0..MaxCommits
    <3>1. Len(log) \in Nat /\ Len(log) <= MaxCommits BY <1>4 DEF GuardsShapes
    <3> QED BY <3>1 DEF GuardsAssumption
  <2>2. (landed.stale \/ moved) \in BOOLEAN BY <1>4 DEF GuardsShapes
  <2>3. base \in Trees BY <1>4 DEF GuardsShapes
  <2>4. landed' \in [from : Trees, to : Trees, commits : 0..MaxCommits, stale : BOOLEAN] BY <1>3, <1>5, <2>1, <2>2, <2>3
  <2>5. log' \in Seq(Trees) /\ Len(log') <= MaxCommits BY <1>3 DEF GuardsAssumption
  <2>6. tracked' \subseteq Repo BY <1>3 DEF Present
  <2> QED BY <1>3, <1>4, <1>5, <2>4, <2>5, <2>6 DEF GuardsShapes
<1>7. BranchKept' BY <1>3 DEF BranchKept, Present
<1>8. Judged' BY <1>3 DEF Judged
<1>9. LandedClean'
  <2> SUFFICES ASSUME NEW p \in Repo \cap (Rust \cup Typescript), t[p] # Absent PROVE Clean(p, t[p])
    BY <1>3 DEF LandedClean, Present
  <2>1. CASE e[p] # base[p] BY <1>2, <1>3, <1>4, <1>5, <2>1 DEF Judged
  <2>2. CASE e[p] = base[p] BY <1>5, <2>2 DEF GuardsInv, LandedClean, Present
  <2> QED BY <2>1, <2>2
<1>10. TrunkConsistent'
  <2>1. landed'.stale = (landed.stale \/ moved) BY <1>3
  <2>2. ~moved => KnowledgeIndex(t) /\ (blind \/ t[Stray] = Absent) BY <1>1, <1>3, <1>4 DEF Judged
  <2>3. ~landed'.stale => KnowledgeIndex(trunk') /\ (blind' \/ trunk'[Stray] = Absent) BY <1>3, <2>1, <2>2
  <2> QED BY <2>3 DEF TrunkConsistent
<1>11. PlanKept'
  <2>1. landed'.from = base /\ landed'.to = e /\ landed'.commits = Len(log) BY <1>3
  <2>2. (Len(log) = 1 /\ ~blind /\ Planned(base, e)) => AsPlanned(base, e) BY <1>2, <1>3, <1>4 DEF Judged
  <2>3. PICK b : b = base OBVIOUS
  <2>4. (landed'.commits = 1 /\ ~blind' /\ Planned(b, e)) => AsPlanned(b, e) BY <1>3, <2>1, <2>2, <2>3
  <2>5. landed'.from = b BY <2>1, <2>3
  <2> QED BY <2>1, <2>4, <2>5 DEF PlanKept
<1>12. TestsKept'
  <2>1. landed'.from = base /\ landed'.to = e BY <1>3
  <2>2. Replaced(base, e) BY <1>2, <1>3, <1>4 DEF Judged
  <2>3. PICK b : b = base OBVIOUS
  <2>4. Replaced(b, e) /\ landed'.from = b BY <2>1, <2>2, <2>3
  <2> QED BY <2>1, <2>4 DEF TestsKept
<1> QED BY <1>6, <1>7, <1>8, <1>9, <1>10, <1>11, <1>12 DEF GuardsInv

LEMMA GuardsSteps == ASSUME GuardsAssumption, GuardsInv, [GuardsNext]_guardsVars PROVE GuardsInv'
<1>1. CASE UNCHANGED guardsVars
  <2>1. /\ trunk' = trunk /\ base' = base /\ prior' = prior /\ log' = log /\ work' = work /\ tracked' = tracked /\ green' = green
        /\ moved' = moved /\ edits' = edits /\ blind' = blind /\ landed' = landed
    BY <1>1 DEF guardsVars
  <2>2. GuardsShapes' BY <2>1 DEF GuardsInv, GuardsShapes
  <2>3. BranchKept' BY <2>1 DEF GuardsInv, BranchKept, Present
  <2>4. Judged'
    <3>1. Tip' = Tip /\ Merged' = Merged BY <2>1, SameMerge
    <3> QED BY <2>1, <3>1 DEF GuardsInv, Judged, KnowledgeIndex, Present, Planned, AsPlanned, Changed, NoRename, Deleted, Replaced
  <2> QED BY <2>1, <2>2, <2>3, <2>4, TrunkStays DEF GuardsInv
<1>2. CASE \E p \in Repo : \E c \in Contents[p] \cup {Absent} : Edit(p, c) BY <1>2, EditSteps
<1>3. CASE \E p, q \in Repo : \E c \in Contents[q] : Move(p, q, c) BY <1>3, MoveSteps
<1>4. CASE GitAdd BY <1>4, GitAddSteps
<1>5. CASE Commit BY <1>5, CommitSteps
<1>6. CASE \E p \in Repo : \E c \in Contents[p] \cup {Absent} : OthersLand(p, c) BY <1>6, OthersLandSteps
<1>7. CASE \E down \in Faults : RunGuards(down) BY <1>7, RunGuardsSteps
<1>8. CASE Land BY <1>8, LandSteps
<1> QED BY <1>1, <1>2, <1>3, <1>4, <1>5, <1>6, <1>7, <1>8 DEF GuardsNext

\* At the desk and once committed the guards see the same files.
LEMMA SameFiles ==
    ASSUME GuardsAssumption, NEW a, NEW b, NEW known, NoRename(a, b), Present(a) \subseteq known
    PROVE  /\ GetAllChangedFiles(a, b, known) = Changed(a, b) /\ GetAllChangedFiles(a, b, Repo) = Changed(a, b)
           /\ NameOnly(a, b, Repo) = Changed(a, b)
<1>1. NameOnly(a, b, Repo) = Changed(a, b) BY AllListed DEF Changed
<1>2. GetUntrackedFiles(b, Repo) = {} BY DEF GetUntrackedFiles, Present
<1>3. NameOnly(a, b, known) = {p \in Changed(a, b) : a[p] = Absent => p \in known} BY AllListed
<1>4. GetUntrackedFiles(b, known) \subseteq Changed(a, b) BY DEF GetUntrackedFiles, Present, Changed
<1>5. \A p \in Changed(a, b) : (a[p] = Absent => p \in known) \/ p \in GetUntrackedFiles(b, known)
  BY DEF Changed, GetUntrackedFiles, Present
<1> QED BY <1>1, <1>2, <1>3, <1>4, <1>5 DEF GetAllChangedFiles

LEMMA PassCarriesHolds == ASSUME GuardsAssumption, GuardsInv PROVE PassCarries
<1> SUFFICES ASSUME log = <<>>, trunk = base, NoRename(base, work), NEW g \in Guard \ {"removal"}
             PROVE  GuardVerdict(g, base, work, tracked, GetActiveEditPaths({}), {})
                      <=> GuardVerdict(g, base, work, Repo, IF work = base THEN GetActiveEditPaths({})
                                                           ELSE NameOnly(base, work, Repo), {})
  BY DEF PassCarries
<1>1. PICK desk : desk = GetActiveEditPaths({}) OBVIOUS
<1>2. PICK ci : ci = IF work = base THEN desk ELSE NameOnly(base, work, Repo) OBVIOUS
<1>3. /\ GetAllChangedFiles(base, work, tracked) = Changed(base, work) /\ GetAllChangedFiles(base, work, Repo) = Changed(base, work)
      /\ NameOnly(base, work, Repo) = Changed(base, work)
  BY SameFiles DEF GuardsInv, BranchKept
<1>4. desk = ci
  <2>1. Tip = base BY DEF Tip
  <2>2. CASE work # base
    <3>1. desk = NameOnly(base, work, tracked) \cup GetUntrackedFiles(work, tracked)
      BY <1>1, <2>1, <2>2 DEF GetActiveEditPaths, Unless
    <3> QED BY <1>2, <1>3, <2>2, <3>1 DEF GetAllChangedFiles
  <2>3. CASE work = base BY <1>2, <2>3
  <2> QED BY <2>2, <2>3
<1>5. GuardVerdict(g, base, work, tracked, desk, {}) <=> GuardVerdict(g, base, work, Repo, ci, {})
  <2>1. CASE g \in ScanGuard
    <3>1. Scan(g, base, work, tracked, {}) <=> Scan(g, base, work, Repo, {}) BY <1>3 DEF Scan
    <3> QED BY <2>1, <3>1, ScanVerdict
  <2>2. CASE g = "knowledge_index" BY <2>2, Verdicts
  <2>3. CASE g = "todo_tracking"
    <3>1. TodoTracking(work, tracked, {}) <=> TodoTracking(work, Repo, {}) BY DEF TodoTracking
    <3> QED BY <2>3, <3>1, Verdicts
  <2>4. CASE g = "scope" BY <1>4, <2>4, Verdicts
  <2>5. CASE g = "classification"
    <3>1. ASSUME NEW known
          PROVE  CrossBoundaryClassification(base, work, known, {}) <=>
                   (MainMd \in GetAllChangedFiles(base, work, known) \cap Present(work) => \A r \in work[MainMd] : CheckRow(Rows[r]))
      BY DEF CrossBoundaryClassification, Unless, GetAllChangedFiles
    <3>2. CrossBoundaryClassification(base, work, tracked, {}) <=> CrossBoundaryClassification(base, work, Repo, {}) BY <1>3, <3>1
    <3> QED BY <2>5, <3>2, Verdicts
  <2> QED BY <2>1, <2>2, <2>3, <2>4, <2>5 DEF Guard, TreeGuard
<1> QED BY <1>1, <1>2, <1>5

LEMMA GuardsHold == ASSUME GuardsAssumption, GuardsInv PROVE GuardsCorrect
<1>1. GuardsShapes BY DEF GuardsInv
<1>2. \A t \in Trees : DOMAIN t = Repo /\ \A p \in Repo : t[p] \in Contents[p] \cup {Absent} BY DEF Trees
<1>3. landed.from \in Trees /\ landed.to \in Trees /\ landed.commits \in 0..MaxCommits /\ landed.stale \in BOOLEAN
  BY <1>1 DEF GuardsShapes
<1>4. \A n \in 1..Len(log) : log[n] \in Trees BY <1>1 DEF GuardsShapes
<1>5. {trunk, base, prior, work, landed.from, landed.to} \cup {log[n] : n \in 1..Len(log)} \subseteq Trees
  BY <1>1, <1>3, <1>4 DEF GuardsShapes
<1>6. Len(log) \in 0..MaxCommits
  <2>1. Len(log) \in Nat /\ Len(log) <= MaxCommits BY <1>1 DEF GuardsShapes
  <2> QED BY <2>1 DEF GuardsAssumption
<1>7. {green, moved, blind, landed.stale} \subseteq BOOLEAN BY <1>1, <1>3 DEF GuardsShapes
<1>8. GuardsTypeOK BY <1>1, <1>2, <1>3, <1>5, <1>6, <1>7 DEF GuardsTypeOK, GuardsShapes
<1> QED BY <1>8, PassCarriesHolds DEF GuardsInv, GuardsCorrect

-----------------------------------------------------------------------------
(* The scanners.  What each loop has read so far, against the definition    *)
(* of its result.                                                           *)

LEMMA LeastNat == ASSUME NEW T, T \subseteq Nat, T # {} PROVE \E n \in T : \A m \in T : n <= m
<1>1. \E n \in T : \A m \in T : ~(<<m, n>> \in OpToRel(<, Nat)) BY NatLessThanWellFounded, WFMin
<1>2. PICK n \in T : \A m \in T : ~(m < n) BY <1>1 DEF OpToRel
<1>3. \A m \in T : n <= m
  <2> TAKE m \in T
  <2>1. m \in Nat /\ n \in Nat OBVIOUS
  <2>2. ~(m < n) BY <1>2
  <2> QED BY <2>1, <2>2
<1> QED BY <1>3

\* Globs.
LEMMA CutFacts ==
    ASSUME NEW P \in Seq(NameChar), NEW G \in Seq(GlobChar), NEW f \in Cuts(P, G)
    PROVE  /\ f \in [1..Len(G)+1 -> 1..Len(P)+1] /\ f[1] = 1 /\ f[Len(G)+1] = Len(P) + 1
           /\ \A j \in 1..Len(G) : StandsFor(P, G[j], f[j], f[j+1])
  BY DEF Cuts

\* The positions of a cut never go back.
LEMMA CutOrdered ==
    ASSUME NEW P \in Seq(NameChar), NEW G \in Seq(GlobChar), NEW f \in Cuts(P, G),
           NEW j \in 1..Len(G)+1, NEW k \in 1..Len(G)+1, j <= k
    PROVE  f[j] <= f[k]
<1> DEFINE T == {m \in Nat : m \in j..k /\ f[m] < f[j]}
<1>1. f \in [1..Len(G)+1 -> 1..Len(P)+1] /\ Len(G) \in Nat /\ Len(P) \in Nat BY CutFacts
<1>2. SUFFICES ASSUME T # {} PROVE FALSE
  <2>1. f[j] \in Nat /\ f[k] \in Nat BY <1>1
  <2>2. k \in Nat /\ k \in j..k BY <1>1
  <2> QED BY <2>1, <2>2
<1>3. PICK n \in T : \A m \in T : n <= m BY <1>2, LeastNat
<1>4. n \in Nat /\ n \in j..k /\ f[n] < f[j] OBVIOUS
<1>5. f[j] \in Nat /\ f[n] \in Nat BY <1>1, <1>4
<1>6. n # j BY <1>4, <1>5
<1>7. n - 1 \in j..k /\ n - 1 \in Nat /\ n - 1 \in 1..Len(G) /\ (n - 1) + 1 = n BY <1>1, <1>4, <1>6
<1>8. StandsFor(P, G[n-1], f[n-1], f[(n-1)+1]) BY <1>7, CutFacts
<1>9. StandsFor(P, G[n-1], f[n-1], f[n]) BY <1>7, <1>8
<1>10. f[n-1] \in Nat
  <2>1. n - 1 \in 1..Len(G)+1 BY <1>1, <1>7
  <2>2. f[n-1] \in 1..Len(P)+1 BY <1>1, <2>1
  <2> QED BY <1>1, <2>2
<1>11. f[n-1] <= f[n] BY <1>5, <1>9, <1>10 DEF StandsFor
<1>12. f[n-1] < f[j] BY <1>4, <1>5, <1>10, <1>11
<1>13. n - 1 \in T BY <1>7, <1>12
<1>14. n <= n - 1 BY <1>3, <1>13
<1> QED BY <1>4, <1>14

\* The first g - 1 characters of the glob can stand for the first p - 1 of the path.
Reach(P, G, p, g) ==
    \E f \in [1..Len(G)+1 -> 1..Len(P)+1] :
        f[1] = 1 /\ f[g] = p /\ \A j \in 1..g-1 : StandsFor(P, G[j], f[j], f[j+1])
\* A cut in which the asterisk at sg begins no later and ends no earlier than sp.
Around(f, sp, sg) == f[sg] <= sp /\ sp <= f[sg+1]

\* Without an asterisk every cut is the one followed.  With one, the cuts that are left
\* let it take more, and then no slash comes before where they are.
Followed(P, G, p, g) == \A f \in Cuts(P, G) : f[g] = p
Later(P, G, g, sp, sg) ==
    \A f \in Cuts(P, G) : Around(f, sp, sg) =>
        /\ f[g] = f[sg+1] + (g - (sg + 1))
        /\ f[sg+1] = sp \/ \A i \in sp..f[g]-1 : P[i] # "/"
Left(P, G, sp, sg) == Cuts(P, G) # {} => \E f \in Cuts(P, G) : Around(f, sp, sg)

WildOk(P, G, p, g, sp, sg) ==
    /\ p \in 1..Len(P)+1 /\ g \in 1..Len(G)+1 /\ Reach(P, G, p, g)
    /\ \/ sg = 0 /\ sp = 0 /\ Followed(P, G, p, g)
       \/ /\ sg \in 1..Len(G) /\ sg < g /\ G[sg] = "*" /\ sp \in 1..p /\ p = sp + (g - (sg + 1))
          /\ Reach(P, G, sp, sg + 1) /\ Later(P, G, g, sp, sg) /\ Left(P, G, sp, sg)

LEMMA WildStart == ASSUME NEW P \in Seq(NameChar), NEW G \in Seq(GlobChar) PROVE WildOk(P, G, 1, 1, 0, 0)
<1>1. Len(P) \in Nat /\ Len(G) \in Nat OBVIOUS
<1>2. 1 \in 1..Len(P)+1 /\ 1 \in 1..Len(G)+1 BY <1>1
<1>3. Reach(P, G, 1, 1)
  <2>1. PICK f : f = [j \in 1..Len(G)+1 |-> 1] OBVIOUS
  <2>2. f \in [1..Len(G)+1 -> 1..Len(P)+1] /\ f[1] = 1 BY <1>2, <2>1
  <2>3. \A j \in 1..1-1 : StandsFor(P, G[j], f[j], f[j+1]) OBVIOUS
  <2> QED BY <2>2, <2>3 DEF Reach
<1>4. Followed(P, G, 1, 1) BY CutFacts DEF Followed
<1> QED BY <1>2, <1>3, <1>4 DEF WildOk

\* A character more.
LEMMA ReachMore ==
    ASSUME NEW P \in Seq(NameChar), NEW G \in Seq(GlobChar), NEW p \in 1..Len(P)+1, NEW g \in 1..Len(G), Reach(P, G, p, g),
           NEW q \in 1..Len(P)+1, StandsFor(P, G[g], p, q)
    PROVE  Reach(P, G, q, g + 1)
<1>1. Len(P) \in Nat /\ Len(G) \in Nat OBVIOUS
<1>2. PICK f \in [1..Len(G)+1 -> 1..Len(P)+1] : f[1] = 1 /\ f[g] = p /\ \A j \in 1..g-1 : StandsFor(P, G[j], f[j], f[j+1])
  BY DEF Reach
<1>3. g + 1 \in 1..Len(G)+1 /\ g + 1 # 1 /\ g \in 1..Len(G)+1 /\ g # g + 1 BY <1>1
<1>4. PICK e : e = [f EXCEPT ![g+1] = q] OBVIOUS
<1>5. e \in [1..Len(G)+1 -> 1..Len(P)+1] BY <1>2, <1>4
<1>6. \A j \in 1..Len(G)+1 : e[j] = IF j = g + 1 THEN q ELSE f[j] BY <1>2, <1>4
<1>7. e[1] = 1 /\ e[g+1] = q /\ e[g] = p BY <1>1, <1>2, <1>3, <1>6
<1>8. ASSUME NEW j \in 1..(g+1)-1 PROVE StandsFor(P, G[j], e[j], e[j+1])
  <2>1. j \in Nat /\ j >= 1 /\ j <= g BY <1>8
  <2>2. CASE j = g BY <1>7, <2>2
  <2>3. CASE j # g
    <3>1. j \in 1..g-1 /\ j \in 1..Len(G)+1 /\ j + 1 \in 1..Len(G)+1 /\ j # g + 1 /\ j + 1 # g + 1 BY <1>1, <2>1, <2>3
    <3>2. e[j] = f[j] /\ e[j+1] = f[j+1] BY <1>6, <3>1
    <3> QED BY <1>2, <3>1, <3>2
  <2> QED BY <2>2, <2>3
<1> QED BY <1>5, <1>7, <1>8 DEF Reach

LEMMA WildSame ==
    ASSUME NEW P \in Seq(NameChar), NEW G \in Seq(GlobChar), NEW p, NEW g, NEW sp, NEW sg, WildOk(P, G, p, g, sp, sg),
           p <= Len(P), g <= Len(G), G[g] = P[p] \/ (G[g] = "?" /\ P[p] # "/")
    PROVE  WildOk(P, G, p + 1, g + 1, sp, sg)
<1>1. Len(P) \in Nat /\ Len(G) \in Nat OBVIOUS
<1>2. p \in 1..Len(P) /\ g \in 1..Len(G) /\ p \in 1..Len(P)+1 BY <1>1 DEF WildOk
<1>3. P[p] \in NameChar /\ G[g] \in GlobChar BY <1>2
<1>4. G[g] # "*" /\ (G[g] # "?" => G[g] = P[p]) BY <1>3 DEF NameChar
<1>5. p + 1 \in 1..Len(P)+1 /\ g + 1 \in 1..Len(G)+1 BY <1>1, <1>2
<1>6. StandsFor(P, G[g], p, p + 1) BY <1>4 DEF StandsFor
<1>7. Reach(P, G, p + 1, g + 1) BY <1>2, <1>5, <1>6, ReachMore DEF WildOk
<1>8. ASSUME NEW f \in Cuts(P, G)
      PROVE  /\ f[g+1] = f[g] + 1 /\ f[g] \in 1..Len(P)+1
             /\ IF G[g] = "?" THEN P[f[g]] # "/" ELSE P[f[g]] = G[g]
  <2>1. StandsFor(P, G[g], f[g], f[g+1]) BY <1>2, CutFacts
  <2>2. f \in [1..Len(G)+1 -> 1..Len(P)+1] BY CutFacts
  <2>3. g \in 1..Len(G)+1 BY <1>1, <1>2
  <2> QED BY <1>4, <2>1, <2>2, <2>3 DEF StandsFor
<1>9. CASE sg = 0 /\ sp = 0 /\ Followed(P, G, p, g)
  <2>1. Followed(P, G, p + 1, g + 1) BY <1>8, <1>9 DEF Followed
  <2> QED BY <1>5, <1>7, <1>9, <2>1 DEF WildOk
<1>10. CASE /\ sg \in 1..Len(G) /\ sg < g /\ G[sg] = "*" /\ sp \in 1..p /\ p = sp + (g - (sg + 1))
            /\ Reach(P, G, sp, sg + 1) /\ Later(P, G, g, sp, sg) /\ Left(P, G, sp, sg)
  <2>1. sg < g + 1 /\ sp \in 1..p+1 /\ p + 1 = sp + ((g + 1) - (sg + 1)) BY <1>1, <1>2, <1>10
  <2>2. ASSUME NEW f \in Cuts(P, G), Around(f, sp, sg)
        PROVE  /\ f[g+1] = f[sg+1] + ((g + 1) - (sg + 1))
               /\ f[sg+1] = sp \/ \A i \in sp..f[g+1]-1 : P[i] # "/"
    <3>1. f[g] = f[sg+1] + (g - (sg + 1)) /\ (f[sg+1] = sp \/ \A i \in sp..f[g]-1 : P[i] # "/") BY <1>10, <2>2 DEF Later
    <3>2. sg + 1 \in 1..Len(G)+1 BY <1>1, <1>10
    <3>3. f[sg+1] \in 1..Len(P)+1 BY <3>2, CutFacts
    <3>4. PICK x \in Nat : x = f[sg+1] BY <1>1, <3>3
    <3>5. PICK y \in Nat : y = f[g] BY <1>1, <1>8
    <3>6. f[g+1] = y + 1 BY <1>8, <3>5
    <3>7. f[g+1] = f[sg+1] + ((g + 1) - (sg + 1))
      <4>1. y = x + (g - (sg + 1)) BY <3>1, <3>4, <3>5
      <4>2. g \in Int /\ sg \in Int BY <1>2, <1>10
      <4>3. y + 1 = x + ((g + 1) - (sg + 1)) BY <4>1, <4>2
      <4> QED BY <3>4, <3>6, <4>3
    <3>8. ASSUME x # sp, NEW i \in sp..f[g+1]-1 PROVE P[i] # "/"
      <4>1. \A z \in sp..y-1 : P[z] # "/" BY <3>1, <3>4, <3>5, <3>8
      <4>2. CASE i \in sp..y-1 BY <4>1, <4>2
      <4>3. CASE i \notin sp..y-1
        <5>1. i = y BY <1>10, <3>6, <3>8, <4>3
        <5>2. x > sp BY <1>10, <2>2, <3>4, <3>8 DEF Around
        <5>3. p \in sp..y-1 BY <1>1, <1>2, <1>10, <3>1, <3>4, <3>5, <5>2
        <5>4. P[p] # "/" BY <4>1, <5>3
        <5> QED BY <1>4, <1>8, <3>5, <5>1, <5>4
      <4> QED BY <4>2, <4>3
    <3> QED BY <3>4, <3>7, <3>8
  <2>3. Later(P, G, g + 1, sp, sg) BY <2>2 DEF Later
  <2> QED BY <1>5, <1>7, <1>10, <2>1, <2>3 DEF WildOk
<1> QED BY <1>9, <1>10 DEF WildOk

\* A cut that is left at the asterisk can be taken to begin where the prefix followed ends.
LEMMA WildStar ==
    ASSUME NEW P \in Seq(NameChar), NEW G \in Seq(GlobChar), NEW p, NEW g, NEW sp, NEW sg, WildOk(P, G, p, g, sp, sg),
           g <= Len(G), G[g] = "*"
    PROVE  WildOk(P, G, p, g + 1, p, g)
<1>1. Len(P) \in Nat /\ Len(G) \in Nat OBVIOUS
<1>2. p \in 1..Len(P)+1 /\ g \in 1..Len(G) /\ g \in 1..Len(G)+1 /\ g + 1 \in 1..Len(G)+1 /\ Reach(P, G, p, g) BY <1>1 DEF WildOk
<1>3. StandsFor(P, G[g], p, p) BY <1>1, <1>2 DEF StandsFor
<1>4. Reach(P, G, p, g + 1) BY <1>2, <1>3, ReachMore
<1>5. ASSUME NEW f \in Cuts(P, G)
      PROVE  f[g] \in 1..Len(P)+1 /\ f[g+1] \in 1..Len(P)+1 /\ f[g] <= f[g+1] /\ \A i \in f[g]..f[g+1]-1 : P[i] # "/"
  <2>1. StandsFor(P, G[g], f[g], f[g+1]) BY <1>2, CutFacts
  <2>2. f[g] <= f[g+1] /\ \A i \in f[g]..f[g+1]-1 : P[i] # "/" BY <2>1 DEF StandsFor
  <2>3. f \in [1..Len(G)+1 -> 1..Len(P)+1] BY CutFacts
  <2> QED BY <1>2, <2>2, <2>3
<1>6. Later(P, G, g + 1, p, g)
  <2> SUFFICES ASSUME NEW f \in Cuts(P, G), Around(f, p, g)
               PROVE  f[g+1] = f[g+1] + ((g + 1) - (g + 1)) /\ \A i \in p..f[g+1]-1 : P[i] # "/"
    BY DEF Later
  <2>1. f[g] <= p BY DEF Around
  <2>2. \A i \in p..f[g+1]-1 : i \in f[g]..f[g+1]-1 BY <1>2, <1>5, <2>1
  <2> QED BY <1>2, <1>5, <2>2
<1>7. Left(P, G, p, g)
  <2> SUFFICES ASSUME Cuts(P, G) # {} PROVE \E f \in Cuts(P, G) : Around(f, p, g) BY DEF Left
  <2>1. CASE sg = 0 /\ sp = 0 /\ Followed(P, G, p, g)
    <3>1. PICK f \in Cuts(P, G) : TRUE OBVIOUS
    <3>2. f[g] = p BY <2>1 DEF Followed
    <3> QED BY <1>2, <1>5, <3>2 DEF Around
  <2>2. CASE /\ sg \in 1..Len(G) /\ sg < g /\ G[sg] = "*" /\ sp \in 1..p /\ p = sp + (g - (sg + 1))
             /\ Reach(P, G, sp, sg + 1) /\ Later(P, G, g, sp, sg) /\ Left(P, G, sp, sg)
    <3>1. PICK f \in Cuts(P, G) : Around(f, sp, sg) BY <2>2 DEF Left
    <3>2. f[g] = f[sg+1] + (g - (sg + 1)) /\ (f[sg+1] = sp \/ \A i \in sp..f[g]-1 : P[i] # "/") BY <2>2, <3>1 DEF Later
    <3>3. sg + 1 \in 1..Len(G)+1 BY <1>1, <2>2
    <3>4. PICK x \in Nat : x = f[sg+1]
      <4>1. f[sg+1] \in 1..Len(P)+1 BY <3>3, CutFacts
      <4> QED BY <1>1, <4>1
    <3>5. sp <= x BY <3>1, <3>4 DEF Around
    <3>6. p <= f[g] BY <1>2, <1>5, <2>2, <3>2, <3>4, <3>5
    <3>7. ASSUME NEW i \in p..f[g+1]-1 PROVE P[i] # "/"
      <4>1. CASE i \in f[g]..f[g+1]-1 BY <1>5, <4>1
      <4>2. CASE i \notin f[g]..f[g+1]-1
        <5>1. i \in p..f[g]-1 BY <1>2, <1>5, <3>7, <4>2
        <5>2. f[sg+1] # sp BY <1>2, <1>5, <2>2, <3>2, <5>1
        <5>3. i \in sp..f[g]-1 BY <1>2, <1>5, <2>2, <5>1
        <5> QED BY <3>2, <5>2, <5>3
      <4> QED BY <4>1, <4>2
    <3>8. StandsFor(P, G[g], p, f[g+1]) BY <1>2, <1>5, <3>6, <3>7 DEF StandsFor
    <3>9. PICK h \in [1..Len(G)+1 -> 1..Len(P)+1] : h[1] = 1 /\ h[g] = p /\ \A j \in 1..g-1 : StandsFor(P, G[j], h[j], h[j+1])
      BY <1>2 DEF Reach
    <3>10. PICK e : e = [j \in 1..Len(G)+1 |-> IF j <= g THEN h[j] ELSE f[j]] OBVIOUS
    <3>11. f \in [1..Len(G)+1 -> 1..Len(P)+1] /\ f[Len(G)+1] = Len(P) + 1 /\ \A j \in 1..Len(G) : StandsFor(P, G[j], f[j], f[j+1])
      BY CutFacts
    <3>12. e \in [1..Len(G)+1 -> 1..Len(P)+1] BY <3>9, <3>10, <3>11
    <3>13. \A j \in 1..Len(G)+1 : e[j] = IF j <= g THEN h[j] ELSE f[j] BY <3>10
    <3>14. e[1] = 1 /\ e[g] = p /\ e[g+1] = f[g+1] /\ e[Len(G)+1] = Len(P) + 1
      <4>1. 1 \in 1..Len(G)+1 /\ 1 <= g /\ g <= g /\ ~(g + 1 <= g) /\ Len(G) + 1 \in 1..Len(G)+1 /\ ~(Len(G) + 1 <= g)
        BY <1>1, <1>2
      <4> QED BY <1>2, <3>9, <3>11, <3>13, <4>1
    <3>15. ASSUME NEW j \in 1..Len(G) PROVE StandsFor(P, G[j], e[j], e[j+1])
      <4>1. j \in 1..Len(G)+1 /\ j + 1 \in 1..Len(G)+1 BY <1>1
      <4>2. CASE j = g BY <3>8, <3>14, <4>2
      <4>3. CASE j < g
        <5>1. e[j] = h[j] /\ e[j+1] = h[j+1] /\ j \in 1..g-1 BY <1>2, <3>13, <4>1, <4>3
        <5> QED BY <3>9, <5>1
      <4>4. CASE j > g
        <5>1. e[j] = f[j] /\ e[j+1] = f[j+1] BY <1>2, <3>13, <4>1, <4>4
        <5> QED BY <3>11, <5>1
      <4> QED BY <1>2, <4>2, <4>3, <4>4
    <3>16. e \in Cuts(P, G) BY <3>12, <3>14, <3>15 DEF Cuts
    <3>17. Around(e, p, g) BY <1>2, <1>5, <3>6, <3>14 DEF Around
    <3> QED BY <3>16, <3>17
  <2> QED BY <2>1, <2>2 DEF WildOk
<1>8. g < g + 1 /\ p \in 1..p /\ p = p + ((g + 1) - (g + 1)) BY <1>1, <1>2
<1> QED BY <1>2, <1>4, <1>6, <1>7, <1>8 DEF WildOk

\* When the characters differ no cut that is left begins where the attempt did.
LEMMA WildDiffers ==
    ASSUME NEW P \in Seq(NameChar), NEW G \in Seq(GlobChar), NEW p, NEW g, NEW sp, NEW sg, WildOk(P, G, p, g, sp, sg), p <= Len(P),
           g <= Len(G) => G[g] # "*" /\ ~(G[g] = P[p] \/ (G[g] = "?" /\ P[p] # "/")),
           NEW f \in Cuts(P, G)
    PROVE  f[g] # p
<1>1. Len(P) \in Nat /\ Len(G) \in Nat OBVIOUS
<1>2. p \in 1..Len(P) /\ g \in 1..Len(G)+1 BY <1>1 DEF WildOk
<1>3. SUFFICES ASSUME f[g] = p PROVE FALSE OBVIOUS
<1>4. CASE g <= Len(G)
  <2>1. g \in 1..Len(G) BY <1>1, <1>2, <1>4
  <2>2. StandsFor(P, G[g], p, f[g+1]) BY <1>3, <2>1, CutFacts
  <2> QED BY <1>4, <2>2 DEF StandsFor
<1>5. CASE ~(g <= Len(G))
  <2>1. g = Len(G) + 1 BY <1>1, <1>2, <1>5
  <2>2. p = Len(P) + 1 BY <1>3, <2>1, CutFacts
  <2> QED BY <1>1, <1>2, <2>2
<1> QED BY <1>4, <1>5

LEMMA WildStretch ==
    ASSUME NEW P \in Seq(NameChar), NEW G \in Seq(GlobChar), NEW p, NEW g, NEW sp, NEW sg, WildOk(P, G, p, g, sp, sg), p <= Len(P),
           g <= Len(G) => G[g] # "*" /\ ~(G[g] = P[p] \/ (G[g] = "?" /\ P[p] # "/")),
           sg # 0
    PROVE  /\ \A f \in Cuts(P, G) : Around(f, sp, sg) => f[sg] <= sp /\ sp + 1 <= f[sg+1]
           /\ P[sp] # "/" => WildOk(P, G, sp + 1, sg + 1, sp + 1, sg)
           /\ P[sp] = "/" => ~Means(P, G)
<1>1. Len(P) \in Nat /\ Len(G) \in Nat OBVIOUS
<1>2. p \in 1..Len(P) /\ g \in 1..Len(G)+1 BY <1>1 DEF WildOk
<1>3. /\ sg \in 1..Len(G) /\ sg < g /\ G[sg] = "*" /\ sp \in 1..p /\ p = sp + (g - (sg + 1))
      /\ Reach(P, G, sp, sg + 1) /\ Later(P, G, g, sp, sg) /\ Left(P, G, sp, sg)
  BY DEF WildOk
<1>4. sg \in 1..Len(G)+1 /\ sg + 1 \in 1..Len(G)+1 /\ sp \in 1..Len(P) /\ sp + 1 \in 1..Len(P)+1 /\ sp \in 1..Len(P)+1
  BY <1>1, <1>2, <1>3
<1>5. ASSUME NEW f \in Cuts(P, G)
      PROVE  f[sg] \in 1..Len(P)+1 /\ f[sg+1] \in 1..Len(P)+1 /\ \A i \in f[sg]..f[sg+1]-1 : P[i] # "/"
  <2>1. StandsFor(P, G[sg], f[sg], f[sg+1]) BY <1>3, CutFacts
  <2>2. \A i \in f[sg]..f[sg+1]-1 : P[i] # "/" BY <1>3, <2>1 DEF StandsFor
  <2>3. f \in [1..Len(G)+1 -> 1..Len(P)+1] BY CutFacts
  <2> QED BY <1>4, <2>2, <2>3
<1>6. ASSUME NEW f \in Cuts(P, G), Around(f, sp, sg) PROVE f[sg] <= sp /\ sp + 1 <= f[sg+1]
  <2>1. f[sg] <= sp /\ sp <= f[sg+1] BY <1>6 DEF Around
  <2>2. f[g] = f[sg+1] + (g - (sg + 1)) BY <1>3, <1>6 DEF Later
  <2>3. f[g] # p BY WildDiffers
  <2>4. f[sg+1] # sp BY <1>3, <2>2, <2>3
  <2> QED BY <1>4, <1>5, <2>1, <2>4
<1>7. ASSUME P[sp] # "/" PROVE WildOk(P, G, sp + 1, sg + 1, sp + 1, sg)
  <2>1. Reach(P, G, sp + 1, sg + 1)
    <3>1. PICK f \in [1..Len(G)+1 -> 1..Len(P)+1] :
            f[1] = 1 /\ f[sg+1] = sp /\ \A j \in 1..(sg+1)-1 : StandsFor(P, G[j], f[j], f[j+1])
      BY <1>3 DEF Reach
    <3>2. (sg + 1) - 1 = sg /\ sg \in 1..sg BY <1>3
    <3>3. StandsFor(P, G[sg], f[sg], sp) BY <3>1, <3>2
    <3>4. PICK x \in 1..Len(P)+1 : x = f[sg] BY <1>4, <3>1
    <3>5. x <= sp /\ \A i \in x..sp-1 : P[i] # "/" BY <1>3, <3>3, <3>4 DEF StandsFor
    <3>6. ASSUME NEW i \in x..(sp+1)-1 PROVE P[i] # "/"
      <4>1. i \in x..sp-1 \/ i = sp BY <1>4
      <4> QED BY <1>7, <3>5, <4>1
    <3>7. x <= sp + 1 BY <1>4, <3>5
    <3>8. StandsFor(P, G[sg], x, sp + 1) BY <1>3, <3>6, <3>7 DEF StandsFor
    <3>9. Reach(P, G, x, sg)
      <4>1. \A j \in 1..sg-1 : j \in 1..(sg+1)-1 BY <1>3
      <4>2. \A j \in 1..sg-1 : StandsFor(P, G[j], f[j], f[j+1]) BY <3>1, <4>1
      <4> QED BY <3>1, <3>4, <4>2 DEF Reach
    <3> QED BY <1>3, <1>4, <3>8, <3>9, ReachMore
  <2>2. Later(P, G, sg + 1, sp + 1, sg)
    <3> SUFFICES ASSUME NEW f \in Cuts(P, G), Around(f, sp + 1, sg)
                 PROVE  f[sg+1] = f[sg+1] + ((sg + 1) - (sg + 1)) /\ \A i \in sp+1..f[sg+1]-1 : P[i] # "/"
      BY DEF Later
    <3>1. f[sg] <= sp + 1 BY DEF Around
    <3>2. \A i \in sp+1..f[sg+1]-1 : i \in f[sg]..f[sg+1]-1 BY <1>4, <1>5, <3>1
    <3>3. f[sg+1] = f[sg+1] + ((sg + 1) - (sg + 1)) BY <1>3, <1>5
    <3> QED BY <1>5, <3>2, <3>3
  <2>3. Left(P, G, sp + 1, sg)
    <3> SUFFICES ASSUME Cuts(P, G) # {} PROVE \E f \in Cuts(P, G) : Around(f, sp + 1, sg) BY DEF Left
    <3>1. PICK f \in Cuts(P, G) : Around(f, sp, sg) BY <1>3 DEF Left
    <3>2. f[sg] <= sp /\ sp + 1 <= f[sg+1] BY <1>6, <3>1
    <3>3. f[sg] <= sp + 1 BY <1>4, <1>5, <3>2
    <3> QED BY <3>2, <3>3 DEF Around
  <2>4. sg < sg + 1 /\ sp + 1 \in 1..sp+1 /\ sp + 1 = (sp + 1) + ((sg + 1) - (sg + 1)) BY <1>3, <1>4
  <2> QED BY <1>3, <1>4, <2>1, <2>2, <2>3, <2>4 DEF WildOk
<1>8. ASSUME P[sp] = "/", Means(P, G) PROVE FALSE
  <2>1. PICK f \in Cuts(P, G) : Around(f, sp, sg) BY <1>3, <1>8 DEF Left, Means
  <2>2. f[sg] <= sp /\ sp + 1 <= f[sg+1] BY <1>6, <2>1
  <2>3. sp \in f[sg]..f[sg+1]-1 BY <1>4, <1>5, <2>2
  <2> QED BY <1>5, <1>8, <2>3
<1> QED BY <1>6, <1>7, <1>8

LEMMA WildLost ==
    ASSUME NEW P \in Seq(NameChar), NEW G \in Seq(GlobChar), NEW p, NEW g, NEW sp, WildOk(P, G, p, g, sp, 0), p <= Len(P),
           g <= Len(G) => G[g] # "*" /\ ~(G[g] = P[p] \/ (G[g] = "?" /\ P[p] # "/"))
    PROVE  ~Means(P, G)
<1>1. SUFFICES ASSUME NEW f \in Cuts(P, G) PROVE FALSE BY DEF Means
<1>2. Followed(P, G, p, g) BY DEF WildOk
<1>3. f[g] = p BY <1>2 DEF Followed
<1> QED BY <1>3, WildDiffers

\* At the end of the path: what is left of the glob must stand for nothing.
LEMMA WildTail ==
    ASSUME NEW P \in Seq(NameChar), NEW G \in Seq(GlobChar), NEW p, NEW g, NEW sp, NEW sg, WildOk(P, G, p, g, sp, sg), p > Len(P)
    PROVE  Means(P, G) <=> \A n \in g..Len(G) : G[n] = "*"
<1>1. Len(P) \in Nat /\ Len(G) \in Nat OBVIOUS
<1>2. p = Len(P) + 1 /\ g \in 1..Len(G)+1 /\ Reach(P, G, p, g) BY <1>1 DEF WildOk
<1>3. ASSUME \A n \in g..Len(G) : G[n] = "*" PROVE Means(P, G)
  <2>1. PICK h \in [1..Len(G)+1 -> 1..Len(P)+1] : h[1] = 1 /\ h[g] = p /\ \A j \in 1..g-1 : StandsFor(P, G[j], h[j], h[j+1])
    BY <1>2 DEF Reach
  <2>2. PICK e : e = [j \in 1..Len(G)+1 |-> IF j <= g THEN h[j] ELSE p] OBVIOUS
  <2>3. p \in 1..Len(P)+1 BY <1>1, <1>2
  <2>4. e \in [1..Len(G)+1 -> 1..Len(P)+1] BY <2>1, <2>2, <2>3
  <2>5. \A j \in 1..Len(G)+1 : e[j] = IF j <= g THEN h[j] ELSE p BY <2>2
  <2>6. e[1] = 1
    <3>1. 1 \in 1..Len(G)+1 /\ 1 <= g BY <1>1, <1>2
    <3> QED BY <2>1, <2>5, <3>1
  <2>7. \A j \in 1..Len(G)+1 : j >= g => e[j] = p
    <3> TAKE j \in 1..Len(G)+1
    <3>1. CASE j = g BY <1>2, <2>1, <2>5, <3>1
    <3>2. CASE j > g BY <1>1, <1>2, <2>5, <3>2
    <3> QED BY <1>1, <1>2, <3>1, <3>2
  <2>8. e[Len(G)+1] = Len(P) + 1 BY <1>1, <1>2, <2>7
  <2>9. ASSUME NEW j \in 1..Len(G) PROVE StandsFor(P, G[j], e[j], e[j+1])
    <3>1. j \in 1..Len(G)+1 /\ j + 1 \in 1..Len(G)+1 BY <1>1
    <3>2. CASE j < g
      <4>1. e[j] = h[j] /\ e[j+1] = h[j+1] /\ j \in 1..g-1 BY <1>2, <2>5, <3>1, <3>2
      <4> QED BY <2>1, <4>1
    <3>3. CASE j >= g
      <4>1. e[j] = p /\ e[j+1] = p BY <1>2, <2>7, <3>1, <3>3
      <4>2. G[j] = "*" BY <1>1, <1>2, <1>3, <3>3
      <4>3. StandsFor(P, "*", p, p) BY <2>3 DEF StandsFor
      <4> QED BY <4>1, <4>2, <4>3
    <3> QED BY <1>2, <3>2, <3>3
  <2>10. e \in Cuts(P, G) BY <2>4, <2>6, <2>8, <2>9 DEF Cuts
  <2> QED BY <2>10 DEF Means
<1>4. ASSUME Means(P, G), NEW n \in g..Len(G), G[n] # "*" PROVE FALSE
  <2>1. \E f \in Cuts(P, G) : f[g] >= p
    <3>1. CASE Followed(P, G, p, g)
      <4>1. PICK f \in Cuts(P, G) : TRUE BY <1>4 DEF Means
      <4>2. f[g] = p BY <3>1 DEF Followed
      <4> QED BY <1>1, <1>2, <4>2
    <3>2. CASE /\ sg \in 1..Len(G) /\ sg < g /\ sp \in 1..p /\ p = sp + (g - (sg + 1))
               /\ Later(P, G, g, sp, sg) /\ Left(P, G, sp, sg)
      <4>1. PICK f \in Cuts(P, G) : Around(f, sp, sg) BY <1>4, <3>2 DEF Left, Means
      <4>2. f[g] = f[sg+1] + (g - (sg + 1)) BY <3>2, <4>1 DEF Later
      <4>3. sg + 1 \in 1..Len(G)+1 BY <1>1, <3>2
      <4>4. f[sg+1] \in 1..Len(P)+1 BY <4>3, CutFacts
      <4>5. sp <= f[sg+1] BY <4>1 DEF Around
      <4>6. f[g] >= p BY <1>1, <1>2, <3>2, <4>2, <4>4, <4>5
      <4> QED BY <4>6
    <3> QED BY <3>1, <3>2 DEF WildOk
  <2>2. PICK f \in Cuts(P, G) : f[g] >= p BY <2>1
  <2>3. n \in 1..Len(G) /\ n \in 1..Len(G)+1 /\ n + 1 \in 1..Len(G)+1 /\ g <= n BY <1>1, <1>2
  <2>4. f[g] <= f[n] BY <1>2, <2>3, CutOrdered
  <2>5. StandsFor(P, G[n], f[n], f[n+1]) BY <2>3, CutFacts
  <2>6. f[n+1] = f[n] + 1 BY <1>4, <2>5 DEF StandsFor
  <2>7. f \in [1..Len(G)+1 -> 1..Len(P)+1] BY CutFacts
  <2>8. f[n+1] \in 1..Len(P)+1 /\ f[n] \in 1..Len(P)+1 /\ f[g] \in 1..Len(P)+1 BY <1>2, <2>3, <2>7
  <2> QED BY <1>1, <1>2, <2>2, <2>4, <2>6, <2>8
<1> QED BY <1>3, <1>4

\* Without wildcards a glob means itself.
LEMMA PlainGlob ==
    ASSUME NEW P \in Seq(NameChar), NEW G \in Seq(GlobChar), ~Wild(G) PROVE Means(P, G) <=> P = G
<1>1. Len(P) \in Nat /\ Len(G) \in Nat OBVIOUS
<1>2. \A j \in 1..Len(G) : G[j] # "*" /\ G[j] # "?" BY DEF Wild
<1>3. ASSUME P = G PROVE Means(P, G)
  <2>1. PICK f : f = [j \in 1..Len(G)+1 |-> j] OBVIOUS
  <2>2. f \in [1..Len(G)+1 -> 1..Len(P)+1] BY <1>3, <2>1
  <2>3. \A j \in 1..Len(G)+1 : f[j] = j BY <2>1
  <2>4. f[1] = 1 /\ f[Len(G)+1] = Len(P) + 1 BY <1>1, <1>3, <2>3
  <2>5. ASSUME NEW j \in 1..Len(G) PROVE StandsFor(P, G[j], f[j], f[j+1])
    <3>1. f[j] = j /\ f[j+1] = j + 1 BY <1>1, <2>3
    <3> QED BY <1>2, <1>3, <3>1 DEF StandsFor
  <2>6. f \in Cuts(P, G) BY <2>2, <2>4, <2>5 DEF Cuts
  <2> QED BY <2>6 DEF Means
<1>4. ASSUME Means(P, G) PROVE P = G
  <2>1. PICK f \in Cuts(P, G) : TRUE BY <1>4 DEF Means
  <2>2. f \in [1..Len(G)+1 -> 1..Len(P)+1] /\ f[1] = 1 /\ f[Len(G)+1] = Len(P) + 1 BY CutFacts
  <2>3. \A j \in 1..Len(G) : f[j+1] = f[j] + 1 /\ P[f[j]] = G[j]
    <3> TAKE j \in 1..Len(G)
    <3>1. StandsFor(P, G[j], f[j], f[j+1]) BY CutFacts
    <3> QED BY <1>2, <3>1 DEF StandsFor
  <2> DEFINE T == {m \in Nat : m \in 1..Len(G)+1 /\ f[m] # m}
  <2>4. T = {}
    <3>1. SUFFICES ASSUME T # {} PROVE FALSE OBVIOUS
    <3>2. PICK n \in T : \A m \in T : n <= m BY <3>1, LeastNat
    <3>3. n \in Nat /\ n \in 1..Len(G)+1 /\ f[n] # n OBVIOUS
    <3>4. n # 1 BY <2>2, <3>3
    <3>5. PICK k \in Nat : k = n - 1 /\ k \in 1..Len(G) /\ k \in 1..Len(G)+1 /\ k + 1 = n BY <1>1, <3>3, <3>4
    <3>6. ~(n <= k) BY <3>3, <3>5
    <3>7. f[k] = k BY <3>2, <3>5, <3>6
    <3>8. f[n] = n BY <2>3, <3>5, <3>7
    <3> QED BY <3>3, <3>8
  <2>5. \A j \in 1..Len(G)+1 : f[j] = j
    <3> TAKE j \in 1..Len(G)+1
    <3>1. j \in Nat OBVIOUS
    <3> QED BY <2>4, <3>1
  <2>6. Len(P) = Len(G)
    <3>1. Len(G) + 1 \in 1..Len(G)+1 BY <1>1
    <3>2. Len(G) + 1 = Len(P) + 1 BY <2>2, <2>5, <3>1
    <3> QED BY <1>1, <3>2
  <2>7. \A j \in 1..Len(G) : P[j] = G[j]
    <3> TAKE j \in 1..Len(G)
    <3>1. j \in 1..Len(G)+1 BY <1>1
    <3> QED BY <2>3, <2>5, <3>1
  <2> QED BY <2>6, <2>7
<1> QED BY <1>3, <1>4

LEMMA PathIsPlain == ASSUME NEW P \in Seq(NameChar), NEW G \in Seq(GlobChar), P = G PROVE ~Wild(G) /\ Means(P, G)
<1>1. ~Wild(G)
  <2>1. \A n \in 1..Len(G) : G[n] \in NameChar OBVIOUS
  <2> QED BY <2>1 DEF Wild, NameChar
<1> QED BY <1>1, PlainGlob

GlobMeans(P, G) == IF IsTree(G) /\ P # G THEN UnderTree(P, SubSeq(G, 1, Len(G) - 3)) ELSE Means(P, G)

GlobInv ==
    /\ text \in Seq(NameChar) \X Seq(GlobChar)
    /\ scan \in [phase : {"glob", "wild", "done"}, p : Nat, g : Nat, sp : Nat, sg : Nat, match : BOOLEAN]
    /\ scan.phase = "glob" => scan = GlobStart
    /\ scan.phase = "wild" => Path # Glob /\ ~IsTree(Glob) /\ WildOk(Path, Glob, scan.p, scan.g, scan.sp, scan.sg)
    /\ scan.phase = "done" => (scan.match <=> GlobMeans(Path, Glob))

LEMMA WildNats ==
    ASSUME NEW P \in Seq(NameChar), NEW G \in Seq(GlobChar), NEW p, NEW g, NEW sp, NEW sg, WildOk(P, G, p, g, sp, sg)
    PROVE  p \in Nat /\ g \in Nat /\ sp \in Nat /\ sg \in Nat
<1>1. Len(P) \in Nat /\ Len(G) \in Nat OBVIOUS
<1>2. p \in Nat /\ g \in Nat BY <1>1 DEF WildOk
<1>3. sp \in Nat /\ sg \in Nat BY <1>1, <1>2 DEF WildOk
<1> QED BY <1>2, <1>3

LEMMA NameIsSeq == ASSUME NEW S, NEW x \in Names(S) PROVE x \in Seq(S)
<1>1. PICK n \in 0..MaxName : x \in [1..n -> S] BY DEF Names
<1>2. n \in Nat BY <1>1
<1> QED BY <1>1, <1>2

LEMMA GlobStarts == ASSUME text \in Names(NameChar) \X Names(GlobChar), scan = GlobStart PROVE GlobInv
<1>1. text \in Seq(NameChar) \X Seq(GlobChar)
  <2>1. PICK x \in Names(NameChar), y \in Names(GlobChar) : text = <<x, y>> OBVIOUS
  <2>2. x \in Seq(NameChar) /\ y \in Seq(GlobChar) BY NameIsSeq
  <2> QED BY <2>1, <2>2
<1>2. scan \in [phase : {"glob", "wild", "done"}, p : Nat, g : Nat, sp : Nat, sg : Nat, match : BOOLEAN] BY DEF GlobStart
<1> QED BY <1>1, <1>2 DEF GlobInv, GlobStart

LEMMA GlobMatched ==
    ASSUME GlobInv, text' = text, NEW b \in BOOLEAN, Match(b), b <=> GlobMeans(Path, Glob) PROVE GlobInv'
<1>1. PICK P, G : P = Path /\ G = Glob OBVIOUS
<1>2. Path' = P /\ Glob' = G BY <1>1 DEF Path, Glob
<1>3. scan \in [phase : {"glob", "wild", "done"}, p : Nat, g : Nat, sp : Nat, sg : Nat, match : BOOLEAN] BY DEF GlobInv
<1>4. scan' = [scan EXCEPT !.phase = "done", !.match = b] BY DEF Match
<1>5. scan' \in [phase : {"glob", "wild", "done"}, p : Nat, g : Nat, sp : Nat, sg : Nat, match : BOOLEAN] BY <1>3, <1>4
<1>6. scan'.phase = "done" /\ scan'.match = b BY <1>3, <1>4
<1>7. b <=> GlobMeans(P, G) BY <1>1
<1>8. scan'.match <=> GlobMeans(P, G) BY <1>6, <1>7
<1>9. text' \in Seq(NameChar) \X Seq(GlobChar) BY DEF GlobInv
<1> QED BY <1>2, <1>5, <1>6, <1>8, <1>9 DEF GlobInv

LEMMA GlobWild ==
    ASSUME GlobInv, text' = text, NEW p, NEW g, NEW sp, NEW sg, Path # Glob, ~IsTree(Glob), WildOk(Path, Glob, p, g, sp, sg),
           scan' = [scan EXCEPT !.phase = "wild", !.p = p, !.g = g, !.sp = sp, !.sg = sg]
    PROVE  GlobInv'
<1>1. PICK P, G : P = Path /\ G = Glob OBVIOUS
<1>2. Path' = P /\ Glob' = G BY <1>1 DEF Path, Glob
<1>3. scan \in [phase : {"glob", "wild", "done"}, p : Nat, g : Nat, sp : Nat, sg : Nat, match : BOOLEAN] BY DEF GlobInv
<1>4. P \in Seq(NameChar) /\ G \in Seq(GlobChar) BY <1>1 DEF GlobInv, Path, Glob
<1>5. p \in Nat /\ g \in Nat /\ sp \in Nat /\ sg \in Nat BY <1>1, <1>4, WildNats
<1>6. scan' \in [phase : {"glob", "wild", "done"}, p : Nat, g : Nat, sp : Nat, sg : Nat, match : BOOLEAN] BY <1>3, <1>5
<1>7. scan'.phase = "wild" /\ scan'.p = p /\ scan'.g = g /\ scan'.sp = sp /\ scan'.sg = sg BY <1>3
<1>8. P # G /\ ~IsTree(G) /\ WildOk(P, G, p, g, sp, sg) BY <1>1
<1>9. P # G /\ ~IsTree(G) /\ WildOk(P, G, scan'.p, scan'.g, scan'.sp, scan'.sg) BY <1>7, <1>8
<1>10. text' \in Seq(NameChar) \X Seq(GlobChar) BY DEF GlobInv
<1> QED BY <1>2, <1>6, <1>7, <1>9, <1>10 DEF GlobInv

LEMMA GlobSteps ==
    ASSUME GlobInv, text' = text, PathMatchesGlob \/ WildcardMatch \/ WildcardTail PROVE GlobInv'
<1>1. PICK P, G : P = Path /\ G = Glob OBVIOUS
<1>2. P \in Seq(NameChar) /\ G \in Seq(GlobChar) BY <1>1 DEF GlobInv, Path, Glob
<1>3. scan \in [phase : {"glob", "wild", "done"}, p : Nat, g : Nat, sp : Nat, sg : Nat, match : BOOLEAN] BY DEF GlobInv
<1>4. CASE PathMatchesGlob
  <2>1. scan = GlobStart BY <1>4 DEF GlobInv, PathMatchesGlob
  <2>2. CASE P = G /\ Match(TRUE)
    <3>1. GlobMeans(P, G) BY <1>2, <2>2, PathIsPlain DEF GlobMeans
    <3> QED BY <1>1, <2>2, <3>1, GlobMatched
  <2>3. CASE P # G /\ IsTree(G) /\ Match(UnderTree(P, SubSeq(G, 1, Len(G) - 3)))
    <3>1. UnderTree(P, SubSeq(G, 1, Len(G) - 3)) \in BOOLEAN BY DEF UnderTree
    <3>2. UnderTree(P, SubSeq(G, 1, Len(G) - 3)) <=> GlobMeans(P, G) BY <2>3 DEF GlobMeans
    <3> QED BY <1>1, <2>3, <3>1, <3>2, GlobMatched
  <2>4. CASE P # G /\ ~IsTree(G) /\ scan' = [scan EXCEPT !.phase = "wild"]
    <3>1. WildOk(P, G, 1, 1, 0, 0) BY <1>2, WildStart
    <3>2. scan.p = 1 /\ scan.g = 1 /\ scan.sp = 0 /\ scan.sg = 0 BY <2>1 DEF GlobStart
    <3>3. scan' = [scan EXCEPT !.phase = "wild", !.p = 1, !.g = 1, !.sp = 0, !.sg = 0] BY <1>3, <2>4, <3>2
    <3> QED BY <1>1, <2>4, <3>1, <3>3, GlobWild
  <2>5. CASE P # G /\ ~IsTree(G) /\ ~Wild(G) /\ Match(FALSE)
    <3>1. ~GlobMeans(P, G) BY <1>2, <2>5, PlainGlob DEF GlobMeans
    <3> QED BY <1>1, <2>5, <3>1, GlobMatched
  <2> QED BY <1>1, <1>4, <2>2, <2>3, <2>4, <2>5 DEF PathMatchesGlob
<1>5. PICK p \in Nat, g \in Nat, sp \in Nat, sg \in Nat : p = scan.p /\ g = scan.g /\ sp = scan.sp /\ sg = scan.sg BY <1>3
<1>6. CASE WildcardMatch
  <2>1. scan.phase = "wild" /\ p <= Len(P) BY <1>1, <1>5, <1>6 DEF WildcardMatch
  <2>2. P # G /\ ~IsTree(G) /\ WildOk(P, G, p, g, sp, sg) BY <1>1, <1>5, <2>1 DEF GlobInv
  <2>3. GlobMeans(P, G) <=> Means(P, G) BY <2>2 DEF GlobMeans
  <2>4. CASE g <= Len(G) /\ (G[g] = P[p] \/ (G[g] = "?" /\ P[p] # "/"))
    <3>1. WildOk(P, G, p + 1, g + 1, sp, sg) BY <1>2, <2>1, <2>2, <2>4, WildSame
    <3>2. scan' = [scan EXCEPT !.p = @ + 1, !.g = @ + 1] BY <1>1, <1>5, <1>6, <2>4 DEF WildcardMatch
    <3>3. scan' = [scan EXCEPT !.phase = "wild", !.p = p + 1, !.g = g + 1, !.sp = sp, !.sg = sg] BY <1>3, <1>5, <2>1, <3>2
    <3> QED BY <1>1, <2>2, <3>1, <3>3, GlobWild
  <2>5. CASE ~(g <= Len(G) /\ (G[g] = P[p] \/ (G[g] = "?" /\ P[p] # "/"))) /\ g <= Len(G) /\ G[g] = "*"
    <3>1. WildOk(P, G, p, g + 1, p, g) BY <1>2, <2>2, <2>5, WildStar
    <3>2. scan' = [scan EXCEPT !.sg = scan.g, !.sp = scan.p, !.g = @ + 1] BY <1>1, <1>5, <1>6, <2>5 DEF WildcardMatch
    <3>3. scan' = [scan EXCEPT !.phase = "wild", !.p = p, !.g = g + 1, !.sp = p, !.sg = g] BY <1>3, <1>5, <2>1, <3>2
    <3> QED BY <1>1, <2>2, <3>1, <3>3, GlobWild
  <2>6. CASE ~(g <= Len(G) /\ (G[g] = P[p] \/ (G[g] = "?" /\ P[p] # "/"))) /\ ~(g <= Len(G) /\ G[g] = "*")
    <3>1. g <= Len(G) => G[g] # "*" /\ ~(G[g] = P[p] \/ (G[g] = "?" /\ P[p] # "/")) BY <2>6
    <3>2. scan' = IF Stretches(scan) THEN [scan EXCEPT !.g = scan.sg + 1, !.sp = @ + 1, !.p = scan.sp + 1]
                  ELSE [scan EXCEPT !.phase = "done", !.match = FALSE]
      BY <1>1, <1>5, <1>6, <2>6 DEF WildcardMatch, Match
    <3>3. CASE Stretches(scan)
      <4>1. sg # 0 /\ P[sp] # "/" BY <1>1, <1>5, <3>3 DEF Stretches
      <4>2. WildOk(P, G, sp + 1, sg + 1, sp + 1, sg) BY <1>2, <2>1, <2>2, <3>1, <4>1, WildStretch
      <4>3. scan' = [scan EXCEPT !.phase = "wild", !.p = sp + 1, !.g = sg + 1, !.sp = sp + 1, !.sg = sg]
        BY <1>3, <1>5, <2>1, <3>2, <3>3
      <4> QED BY <1>1, <2>2, <4>2, <4>3, GlobWild
    <3>4. CASE ~Stretches(scan)
      <4>1. sg = 0 \/ P[sp] = "/" BY <1>1, <1>5, <3>4 DEF Stretches
      <4>2. ~Means(P, G)
        <5>1. CASE sg = 0 BY <1>2, <2>1, <2>2, <3>1, <5>1, WildLost
        <5>2. CASE sg # 0 BY <1>2, <2>1, <2>2, <3>1, <4>1, <5>2, WildStretch
        <5> QED BY <5>1, <5>2
      <4>3. Match(FALSE) BY <3>2, <3>4 DEF Match
      <4> QED BY <1>1, <2>3, <4>2, <4>3, GlobMatched
    <3> QED BY <3>3, <3>4
  <2> QED BY <2>4, <2>5, <2>6
<1>7. CASE WildcardTail
  <2>1. scan.phase = "wild" /\ p > Len(P) /\ Match(\A n \in g..Len(G) : G[n] = "*") BY <1>1, <1>5, <1>7 DEF WildcardTail
  <2>2. P # G /\ ~IsTree(G) /\ WildOk(P, G, p, g, sp, sg) BY <1>1, <1>5, <2>1 DEF GlobInv
  <2>3. GlobMeans(P, G) <=> Means(P, G) BY <2>2 DEF GlobMeans
  <2>4. Means(P, G) <=> \A n \in g..Len(G) : G[n] = "*" BY <1>2, <2>1, <2>2, WildTail
  <2>5. PICK b \in BOOLEAN : b = (\A n \in g..Len(G) : G[n] = "*") OBVIOUS
  <2>6. Match(b) /\ (b <=> GlobMeans(P, G)) BY <2>1, <2>3, <2>4, <2>5
  <2> QED BY <1>1, <2>6, GlobMatched
<1> QED BY <1>4, <1>6, <1>7

LEMMA GlobHolds == ASSUME GlobInv PROVE GlobIsMeaning
<1>1. CASE scan.phase = "done"
  <2>1. scan.match \in BOOLEAN /\ (scan.match <=> GlobMeans(Path, Glob)) BY <1>1 DEF GlobInv
  <2>2. GlobMeans(Path, Glob) \in BOOLEAN BY DEF GlobMeans, UnderTree, Means
  <2>3. scan.match = GlobMeans(Path, Glob) BY <2>1, <2>2
  <2> QED BY <2>3 DEF GlobIsMeaning, GlobMeans
<1> QED BY <1>1 DEF GlobIsMeaning

\* A line read.
LEMMA ReadMore ==
    ASSUME NEW K, NEW t \in Seq(K), NEW line \in K, NEW u, u = Append(t, line)
    PROVE  /\ u \in Seq(K) /\ Len(t) \in Nat /\ Len(u) = Len(t) + 1 /\ u[Len(t) + 1] = line
           /\ \A m \in 1..Len(t) : u[m] = t[m]
OBVIOUS

(* The table: where a row counts. *)
FirstOf(t, h, kind) == h \in 1..Len(t) /\ t[h] = kind /\ \A m \in 1..h-1 : t[m] # kind
Ruled(t, h, n) == \E j \in h..n : /\ t[j] \in {"separator", "void"}
                                  /\ \A m \in j..n : t[m] # "prose" /\ t[m] # "heading"
InTable(t, n) == \E h \in 1..n : /\ FirstOf(t, h, "heading") /\ (\A m \in h..n : t[m] # "h2")
                                 /\ Ruled(t, h, n)
TableAt(t, s) ==
    \/ ~s.section /\ ~s.over /\ ~s.table /\ \A m \in 1..Len(t) : t[m] # "heading"
    \/ /\ s.section
       /\ \E h \in 1..Len(t) : /\ FirstOf(t, h, "heading")
                               /\ s.over <=> \E m \in h..Len(t) : t[m] = "h2"
                               /\ ~s.over => (s.table <=> Ruled(t, h, Len(t)))
TableOf(t, s) ==
    /\ t \in Seq(TableLine)
    /\ s \in [section : BOOLEAN, table : BOOLEAN, header : BOOLEAN, over : BOOLEAN, rows : SUBSET Nat]
    /\ s.table => s.header
    /\ TableAt(t, s)
    /\ \A n \in Nat : n \in s.rows <=> n \in 1..Len(t) /\ t[n] \in {"row", "hole"} /\ InTable(t, n)

LEMMA FirstKept ==
    ASSUME NEW t, NEW u, Len(t) \in Nat, Len(u) = Len(t) + 1, \A m \in 1..Len(t) : u[m] = t[m], NEW kind, NEW h \in 1..Len(t)
    PROVE  FirstOf(u, h, kind) <=> FirstOf(t, h, kind)
BY DEF FirstOf

LEMMA FirstOnly ==
    ASSUME NEW t, Len(t) \in Nat, NEW kind, NEW h \in Nat, NEW i \in Nat, FirstOf(t, h, kind), FirstOf(t, i, kind) PROVE h = i
<1>1. ~(h < i) BY DEF FirstOf
<1>2. ~(i < h) BY DEF FirstOf
<1> QED BY <1>1, <1>2

LEMMA InTableKept ==
    ASSUME NEW t, NEW u, Len(t) \in Nat, Len(u) = Len(t) + 1, \A m \in 1..Len(t) : u[m] = t[m], NEW n \in 1..Len(t)
    PROVE  InTable(u, n) <=> InTable(t, n)
<1>1. \A h \in 1..n : FirstOf(u, h, "heading") <=> FirstOf(t, h, "heading")
  <2> TAKE h \in 1..n
  <2>1. h \in 1..Len(t) OBVIOUS
  <2> QED BY <2>1, FirstKept
<1>2. \A h \in 1..n : \A m \in h..n : u[m] = t[m] OBVIOUS
<1>3. \A h \in 1..n : Ruled(u, h, n) <=> Ruled(t, h, n) BY <1>2 DEF Ruled
<1> QED BY <1>1, <1>2, <1>3 DEF InTable

LEMMA RuledMore ==
    ASSUME NEW t, NEW u, Len(t) \in Nat, Len(u) = Len(t) + 1, \A m \in 1..Len(t) : u[m] = t[m], NEW h \in 1..Len(t)
    PROVE  Ruled(u, h, Len(u)) <=> \/ u[Len(u)] \in {"separator", "void"}
                                   \/ Ruled(t, h, Len(t)) /\ u[Len(u)] \notin {"prose", "heading"}
<1>1. ASSUME Ruled(u, h, Len(u)) PROVE u[Len(u)] \in {"separator", "void"} \/ (Ruled(t, h, Len(t)) /\ u[Len(u)] \notin {"prose", "heading"})
  <2>1. PICK j \in h..Len(u) : u[j] \in {"separator", "void"} /\ \A m \in j..Len(u) : u[m] # "prose" /\ u[m] # "heading"
    BY <1>1 DEF Ruled
  <2>2. CASE j = Len(u) BY <2>1, <2>2
  <2>3. CASE j # Len(u)
    <3>1. j \in h..Len(t) BY <2>3
    <3>2. t[j] \in {"separator", "void"} /\ \A m \in j..Len(t) : t[m] # "prose" /\ t[m] # "heading" BY <2>1, <3>1
    <3>3. u[Len(u)] \notin {"prose", "heading"} BY <2>1
    <3> QED BY <3>1, <3>2, <3>3 DEF Ruled
  <2> QED BY <2>2, <2>3
<1>2. ASSUME u[Len(u)] \in {"separator", "void"} PROVE Ruled(u, h, Len(u)) BY <1>2 DEF Ruled
<1>3. ASSUME Ruled(t, h, Len(t)), u[Len(u)] \notin {"prose", "heading"} PROVE Ruled(u, h, Len(u))
  <2>1. PICK j \in h..Len(t) : t[j] \in {"separator", "void"} /\ \A m \in j..Len(t) : t[m] # "prose" /\ t[m] # "heading"
    BY <1>3 DEF Ruled
  <2>2. \A m \in j..Len(u) : u[m] # "prose" /\ u[m] # "heading"
    <3> TAKE m \in j..Len(u)
    <3>1. CASE m = Len(u) BY <1>3, <3>1
    <3>2. CASE m # Len(u) BY <2>1, <3>2
    <3> QED BY <3>1, <3>2
  <2> QED BY <2>1, <2>2 DEF Ruled
<1> QED BY <1>1, <1>2, <1>3

LEMMA TableAtMore ==
    ASSUME NEW t, NEW s, TableOf(t, s), NEW line \in TableLine, NEW u, u = Append(t, line), NEW v, v = TableRead(s, line, Len(t) + 1)
    PROVE  TableAt(u, v) /\ (v.table => v.header)
<1>1. t \in Seq(TableLine) /\ (s.table => s.header) BY DEF TableOf
<1>2. Len(t) \in Nat /\ Len(u) = Len(t) + 1 /\ u[Len(u)] = line /\ \A m \in 1..Len(t) : u[m] = t[m]
  BY <1>1, ReadMore
<1>3. s \in [section : BOOLEAN, table : BOOLEAN, header : BOOLEAN, over : BOOLEAN, rows : SUBSET Nat] BY DEF TableOf
<1>4. /\ v.section = (s.section \/ (~s.over /\ line = "heading"))
      /\ v.over = (s.over \/ (s.section /\ line = "h2"))
      /\ v.table => v.header
  BY <1>1, <1>3 DEF TableRead, EnterSection, IsSeparatorRow
<1>5. ~s.over /\ ~s.section => v.table = (s.table /\ line # "heading")
  BY <1>1, <1>3 DEF TableRead, EnterSection, IsSeparatorRow
<1>6. ~s.over /\ s.section /\ line # "h2" =>
          v.table = (line \in {"separator", "void"} \/ (s.table /\ line \notin {"heading", "prose"}))
  BY <1>1, <1>3 DEF TableRead, EnterSection, IsSeparatorRow
<1>7. CASE ~s.section
  <2>1. ~s.section /\ ~s.over /\ ~s.table /\ \A m \in 1..Len(t) : t[m] # "heading" BY <1>7 DEF TableAt, TableOf
  <2>2. CASE line = "heading"
    <3>1. v.section /\ ~v.over /\ ~v.table BY <1>4, <1>5, <2>1, <2>2
    <3>2. FirstOf(u, Len(u), "heading") BY <1>2, <2>1, <2>2 DEF FirstOf
    <3>3. ~\E m \in Len(u)..Len(u) : u[m] = "h2" BY <1>2, <2>2
    <3>4. ~Ruled(u, Len(u), Len(u)) BY <1>2, <2>2 DEF Ruled
    <3>5. Len(u) \in 1..Len(u) BY <1>2
    <3> QED BY <1>4, <3>1, <3>2, <3>3, <3>4, <3>5 DEF TableAt
  <2>3. CASE line # "heading"
    <3>1. ~v.section /\ ~v.over /\ ~v.table BY <1>4, <1>5, <2>1, <2>3
    <3>2. \A m \in 1..Len(u) : u[m] # "heading"
      <4> TAKE m \in 1..Len(u)
      <4>1. CASE m = Len(u) BY <1>2, <2>3, <4>1
      <4>2. CASE m # Len(u) BY <1>2, <2>1, <4>2
      <4> QED BY <4>1, <4>2
    <3> QED BY <1>4, <3>1, <3>2 DEF TableAt
  <2> QED BY <2>2, <2>3
<1>8. CASE s.section
  <2>1. PICK h \in 1..Len(t) : /\ FirstOf(t, h, "heading")
                               /\ s.over <=> \E m \in h..Len(t) : t[m] = "h2"
                               /\ ~s.over => (s.table <=> Ruled(t, h, Len(t)))
    BY <1>8 DEF TableAt, TableOf
  <2>2. FirstOf(u, h, "heading") /\ h \in 1..Len(u)
    <3>1. h \in 1..Len(u) BY <1>2
    <3>2. FirstOf(u, h, "heading") BY <1>2, <2>1, FirstKept
    <3> QED BY <3>1, <3>2
  <2>3. v.over <=> \E m \in h..Len(u) : u[m] = "h2"
    <3>1. ASSUME v.over PROVE \E m \in h..Len(u) : u[m] = "h2"
      <4>1. CASE s.over
        <5>1. PICK m \in h..Len(t) : t[m] = "h2" BY <2>1, <4>1
        <5>2. m \in h..Len(u) /\ u[m] = "h2" BY <1>2, <5>1
        <5> QED BY <5>2
      <4>2. CASE line = "h2" BY <1>2, <4>2
      <4> QED BY <1>4, <3>1, <4>1, <4>2
    <3>2. ASSUME NEW m \in h..Len(u), u[m] = "h2" PROVE v.over
      <4>1. CASE m = Len(u) BY <1>2, <1>4, <1>8, <3>2, <4>1
      <4>2. CASE m # Len(u)
        <5>1. m \in h..Len(t) /\ t[m] = "h2" BY <1>2, <3>2, <4>2
        <5> QED BY <1>4, <2>1, <5>1
      <4> QED BY <4>1, <4>2
    <3> QED BY <3>1, <3>2
  <2>4. ~v.over => (v.table <=> Ruled(u, h, Len(u)))
    <3>1. SUFFICES ASSUME ~v.over PROVE v.table <=> Ruled(u, h, Len(u)) OBVIOUS
    <3>2. ~s.over /\ line # "h2" BY <1>4, <1>8, <3>1
    <3>3. Ruled(u, h, Len(u)) <=> \/ u[Len(u)] \in {"separator", "void"}
                                  \/ Ruled(t, h, Len(t)) /\ u[Len(u)] \notin {"prose", "heading"}
      BY <1>2, RuledMore
    <3> QED BY <1>2, <1>6, <1>8, <2>1, <3>2, <3>3
  <2>5. v.section BY <1>4, <1>8
  <2> QED BY <1>4, <2>2, <2>3, <2>4, <2>5 DEF TableAt
<1> QED BY <1>3, <1>7, <1>8

LEMMA TableMore ==
    ASSUME NEW t, NEW s, TableOf(t, s), NEW line \in TableLine
    PROVE  TableOf(Append(t, line), TableRead(s, line, Len(t) + 1))
<1>1. PICK u, v : u = Append(t, line) /\ v = TableRead(s, line, Len(t) + 1) OBVIOUS
<1>2. t \in Seq(TableLine) /\ (s.table => s.header) BY DEF TableOf
<1>3. u \in Seq(TableLine) /\ Len(t) \in Nat /\ Len(u) = Len(t) + 1 /\ u[Len(u)] = line /\ \A m \in 1..Len(t) : u[m] = t[m]
  BY <1>1, <1>2, ReadMore
<1>4. s \in [section : BOOLEAN, table : BOOLEAN, header : BOOLEAN, over : BOOLEAN, rows : SUBSET Nat] BY DEF TableOf
<1>5. TableAt(u, v) /\ (v.table => v.header) BY <1>1, TableAtMore
<1>6. v \in [section : BOOLEAN, table : BOOLEAN, header : BOOLEAN, over : BOOLEAN, rows : SUBSET Nat]
  <2>1. s.rows \cup {Len(t) + 1} \in SUBSET Nat BY <1>3, <1>4
  <2>2. v \in {s, [s EXCEPT !.section = TRUE, !.table = FALSE, !.header = FALSE], [s EXCEPT !.over = TRUE], [s EXCEPT !.table = FALSE],
               [s EXCEPT !.table = TRUE, !.header = TRUE], [s EXCEPT !.rows = s.rows \cup {Len(t) + 1}]}
    BY <1>1, <1>4 DEF TableRead, EnterSection
  <2> QED BY <1>4, <2>1, <2>2
<1>7. v.rows = IF ~s.over /\ s.section /\ s.table /\ line \in {"row", "hole"} THEN s.rows \cup {Len(t) + 1} ELSE s.rows
  BY <1>1, <1>2, <1>4 DEF TableRead, EnterSection, IsSeparatorRow, TableLine
<1>8. line \in {"row", "hole"} => (InTable(u, Len(u)) <=> ~s.over /\ s.section /\ s.table)
  <2>1. SUFFICES ASSUME line \in {"row", "hole"} PROVE InTable(u, Len(u)) <=> ~s.over /\ s.section /\ s.table OBVIOUS
  <2>2. CASE ~s.section
    <3>1. \A m \in 1..Len(u) : u[m] # "heading"
      <4> TAKE m \in 1..Len(u)
      <4>1. CASE m = Len(u) BY <1>3, <2>1, <4>1
      <4>2. CASE m # Len(u) BY <1>3, <2>2, <4>2 DEF TableOf, TableAt
      <4> QED BY <4>1, <4>2
    <3> QED BY <2>2, <3>1 DEF InTable, FirstOf
  <2>3. CASE s.section
    <3>1. PICK h \in 1..Len(t) : /\ FirstOf(t, h, "heading")
                                 /\ s.over <=> \E m \in h..Len(t) : t[m] = "h2"
                                 /\ ~s.over => (s.table <=> Ruled(t, h, Len(t)))
      BY <2>3 DEF TableAt, TableOf
    <3>2. FirstOf(u, h, "heading") /\ h \in 1..Len(u) BY <1>3, <3>1, FirstKept
    <3>3. Ruled(u, h, Len(u)) <=> Ruled(t, h, Len(t)) BY <1>3, <2>1, RuledMore
    <3>4. (\A m \in h..Len(u) : u[m] # "h2") <=> ~s.over
      <4>1. ASSUME ~s.over, NEW m \in h..Len(u) PROVE u[m] # "h2"
        <5>1. CASE m = Len(u) BY <1>3, <2>1, <5>1
        <5>2. CASE m # Len(u) BY <1>3, <3>1, <4>1, <5>2
        <5> QED BY <5>1, <5>2
      <4>2. ASSUME s.over PROVE \E m \in h..Len(u) : u[m] = "h2"
        <5>1. PICK m \in h..Len(t) : t[m] = "h2" BY <3>1, <4>2
        <5>2. m \in h..Len(u) /\ u[m] = "h2" BY <1>3, <5>1
        <5> QED BY <5>2
      <4> QED BY <4>1, <4>2
    <3>5. \A i \in 1..Len(u) : FirstOf(u, i, "heading") => i = h
      <4> TAKE i \in 1..Len(u)
      <4>1. i \in Nat /\ h \in Nat /\ Len(u) \in Nat BY <1>3
      <4> QED BY <3>2, <4>1, FirstOnly
    <3>6. InTable(u, Len(u)) <=> (\A m \in h..Len(u) : u[m] # "h2") /\ Ruled(u, h, Len(u)) BY <3>2, <3>5 DEF InTable
    <3> QED BY <2>3, <3>1, <3>3, <3>4, <3>6
  <2> QED BY <1>4, <2>2, <2>3
<1>9. \A n \in Nat : n \in v.rows <=> n \in 1..Len(u) /\ u[n] \in {"row", "hole"} /\ InTable(u, n)
  <2> TAKE n \in Nat
  <2>1. n \in s.rows <=> n \in 1..Len(t) /\ t[n] \in {"row", "hole"} /\ InTable(t, n) BY DEF TableOf
  <2>2. CASE n = Len(u) BY <1>3, <1>7, <1>8, <2>1, <2>2
  <2>3. CASE n \in 1..Len(t)
    <3>1. InTable(u, n) <=> InTable(t, n) BY <1>3, <2>3, InTableKept
    <3>2. n \in v.rows <=> n \in s.rows BY <1>3, <1>7, <2>3
    <3> QED BY <1>3, <2>1, <2>3, <3>1, <3>2
  <2>4. CASE n \notin 1..Len(u)
    <3>1. n \notin 1..Len(t) /\ n # Len(t) + 1 BY <1>3, <2>4
    <3> QED BY <1>3, <1>7, <2>1, <2>4, <3>1
  <2> QED BY <1>3, <2>2, <2>3, <2>4
<1> QED BY <1>1, <1>3, <1>5, <1>6, <1>9 DEF TableOf

LEMMA TableStarts == TableOf(<<>>, TableStart)
<1>1. <<>> \in Seq(TableLine) /\ Len(<<>>) = 0 OBVIOUS
<1>2. TableStart \in [section : BOOLEAN, table : BOOLEAN, header : BOOLEAN, over : BOOLEAN, rows : SUBSET Nat] BY DEF TableStart
<1> QED BY <1>1, <1>2 DEF TableOf, TableAt, TableStart

LEMMA TableHolds == ASSUME TableOf(text, scan) PROVE ParsePlanRows = {n \in Lines : InPlan(n)}
<1>1. Len(text) \in Nat BY DEF TableOf
<1>2. \A n \in Lines : InPlan(n) <=> text[n] = "row" /\ InTable(text, n)
  <2> TAKE n \in Lines
  <2>1. \A h \in 1..n : FirstOf(text, h, "heading") <=> text[h] = "heading" /\ \A m \in 1..h-1 : text[m] # "heading"
    BY <1>1 DEF FirstOf, Lines
  <2>2. \A h \in 1..n : Ruled(text, h, n) <=> \E j \in h..n : IsSeparatorRow(text[j]) /\ ~Among(j, n, {"prose", "heading"})
    BY DEF Ruled, Among, IsSeparatorRow
  <2>3. \A h \in 1..n : (\A m \in h..n : text[m] # "h2") <=> ~Among(h, n, {"h2"}) BY DEF Among
  <2> QED BY <2>1, <2>2, <2>3 DEF InPlan, InTable
<1>3. scan.rows \subseteq Nat /\ \A n \in Nat : n \in scan.rows <=> n \in Lines /\ text[n] \in {"row", "hole"} /\ InTable(text, n)
  BY DEF TableOf, Lines
<1>4. Lines \subseteq Nat BY <1>1 DEF Lines
<1> QED BY <1>2, <1>3, <1>4 DEF ParsePlanRows, IsTemplatePlaceholderRow

(* The mirror: the list that follows the anchor. *)
ItemIn(t, a, n) == \E m \in a+1..n : t[m] = "item"
EndedIn(t, a, n) == \E m \in a+1..n : t[m] = "item" /\ \E k \in m..n : t[k] \in {"prose", "anchor"}
InList(t, n) == \E a \in 1..n : FirstOf(t, a, "anchor") /\ ~EndedIn(t, a, n)
MirrorAt(t, s) ==
    \/ ~s.armed /\ ~s.list /\ ~s.over /\ \A m \in 1..Len(t) : t[m] # "anchor"
    \/ /\ s.armed
       /\ \E a \in 1..Len(t) : /\ FirstOf(t, a, "anchor")
                               /\ s.over <=> EndedIn(t, a, Len(t))
                               /\ ~s.over => (s.list <=> ItemIn(t, a, Len(t)))
MirrorOf(t, s) ==
    /\ t \in Seq(MirrorLine)
    /\ s \in [armed : BOOLEAN, list : BOOLEAN, over : BOOLEAN, items : SUBSET Nat]
    /\ MirrorAt(t, s)
    /\ \A n \in Nat : n \in s.items <=> n \in 1..Len(t) /\ t[n] = "item" /\ InList(t, n)

LEMMA InListKept ==
    ASSUME NEW t, NEW u, Len(t) \in Nat, Len(u) = Len(t) + 1, \A m \in 1..Len(t) : u[m] = t[m], NEW n \in 1..Len(t)
    PROVE  InList(u, n) <=> InList(t, n)
<1>1. \A a \in 1..n : FirstOf(u, a, "anchor") <=> FirstOf(t, a, "anchor")
  <2> TAKE a \in 1..n
  <2>1. a \in 1..Len(t) OBVIOUS
  <2> QED BY <2>1, FirstKept
<1>2. ASSUME NEW a \in 1..n PROVE EndedIn(u, a, n) <=> EndedIn(t, a, n)
  <2>1. \A m \in a+1..n : u[m] = t[m] OBVIOUS
  <2>2. \A m \in a+1..n : \A k \in m..n : u[k] = t[k] OBVIOUS
  <2> QED BY <2>1, <2>2 DEF EndedIn
<1> QED BY <1>1, <1>2 DEF InList

LEMMA ListMore ==
    ASSUME NEW t, NEW u, Len(t) \in Nat, Len(u) = Len(t) + 1, \A m \in 1..Len(t) : u[m] = t[m], NEW a \in 1..Len(t)
    PROVE  /\ ItemIn(u, a, Len(u)) <=> ItemIn(t, a, Len(t)) \/ u[Len(u)] = "item"
           /\ EndedIn(u, a, Len(u)) <=> \/ EndedIn(t, a, Len(t))
                                        \/ ItemIn(t, a, Len(t)) /\ u[Len(u)] \in {"prose", "anchor"}
<1>1. ASSUME ItemIn(u, a, Len(u)) PROVE ItemIn(t, a, Len(t)) \/ u[Len(u)] = "item"
  <2>1. PICK m \in a+1..Len(u) : u[m] = "item" BY <1>1 DEF ItemIn
  <2>2. CASE m = Len(u) BY <2>1, <2>2
  <2>3. CASE m # Len(u)
    <3>1. m \in a+1..Len(t) /\ t[m] = "item" BY <2>1, <2>3
    <3> QED BY <3>1 DEF ItemIn
  <2> QED BY <2>2, <2>3
<1>2. ASSUME ItemIn(t, a, Len(t)) \/ u[Len(u)] = "item" PROVE ItemIn(u, a, Len(u))
  <2>1. CASE u[Len(u)] = "item"
    <3>1. Len(u) \in a+1..Len(u) OBVIOUS
    <3> QED BY <2>1, <3>1 DEF ItemIn
  <2>2. CASE ItemIn(t, a, Len(t))
    <3>1. PICK m \in a+1..Len(t) : t[m] = "item" BY <2>2 DEF ItemIn
    <3>2. m \in a+1..Len(u) /\ u[m] = "item" BY <3>1
    <3> QED BY <3>2 DEF ItemIn
  <2> QED BY <1>2, <2>1, <2>2
<1>3. ASSUME EndedIn(u, a, Len(u)) PROVE EndedIn(t, a, Len(t)) \/ (ItemIn(t, a, Len(t)) /\ u[Len(u)] \in {"prose", "anchor"})
  <2>1. PICK m \in a+1..Len(u) : u[m] = "item" /\ \E k \in m..Len(u) : u[k] \in {"prose", "anchor"} BY <1>3 DEF EndedIn
  <2>2. PICK k \in m..Len(u) : u[k] \in {"prose", "anchor"} BY <2>1
  <2>3. m \in a+1..Len(t) /\ t[m] = "item"
    <3>1. m # k BY <2>1, <2>2
    <3>2. m \in a+1..Len(t) BY <3>1
    <3> QED BY <2>1, <3>2
  <2>4. ItemIn(t, a, Len(t)) BY <2>3 DEF ItemIn
  <2>5. CASE k = Len(u) BY <2>2, <2>4, <2>5
  <2>6. CASE k # Len(u)
    <3>1. k \in m..Len(t) /\ t[k] \in {"prose", "anchor"} BY <2>2, <2>6
    <3> QED BY <2>3, <3>1 DEF EndedIn
  <2> QED BY <2>5, <2>6
<1>4. ASSUME EndedIn(t, a, Len(t)) PROVE EndedIn(u, a, Len(u))
  <2>1. PICK m \in a+1..Len(t) : t[m] = "item" /\ \E k \in m..Len(t) : t[k] \in {"prose", "anchor"} BY <1>4 DEF EndedIn
  <2>2. PICK k \in m..Len(t) : t[k] \in {"prose", "anchor"} BY <2>1
  <2>3. m \in a+1..Len(u) /\ u[m] = "item" BY <2>1
  <2>4. k \in m..Len(u) /\ u[k] \in {"prose", "anchor"} BY <2>2
  <2> QED BY <2>3, <2>4 DEF EndedIn
<1>5. ASSUME ItemIn(t, a, Len(t)), u[Len(u)] \in {"prose", "anchor"} PROVE EndedIn(u, a, Len(u))
  <2>1. PICK m \in a+1..Len(t) : t[m] = "item" BY <1>5 DEF ItemIn
  <2>2. m \in a+1..Len(u) /\ u[m] = "item" /\ Len(u) \in m..Len(u) BY <2>1
  <2> QED BY <1>5, <2>2 DEF EndedIn
<1> QED BY <1>1, <1>2, <1>3, <1>4, <1>5

LEMMA MirrorMore ==
    ASSUME NEW t, NEW s, MirrorOf(t, s), NEW line \in MirrorLine
    PROVE  MirrorOf(Append(t, line), SliceMarkdownSection(s, line, Len(t) + 1))
<1>1. PICK u, v : u = Append(t, line) /\ v = SliceMarkdownSection(s, line, Len(t) + 1) OBVIOUS
<1>2. t \in Seq(MirrorLine) BY DEF MirrorOf
<1>3. u \in Seq(MirrorLine) /\ Len(t) \in Nat /\ Len(u) = Len(t) + 1 /\ u[Len(u)] = line /\ \A m \in 1..Len(t) : u[m] = t[m]
  BY <1>1, <1>2, ReadMore
<1>4. s \in [armed : BOOLEAN, list : BOOLEAN, over : BOOLEAN, items : SUBSET Nat] BY DEF MirrorOf
<1>5. v \in [armed : BOOLEAN, list : BOOLEAN, over : BOOLEAN, items : SUBSET Nat]
  <2>1. s.items \cup {Len(t) + 1} \in SUBSET Nat BY <1>3, <1>4
  <2>2. PICK b \in BOOLEAN : b = (line = "anchor") OBVIOUS
  <2>3. v \in {s, [s EXCEPT !.armed = b], [s EXCEPT !.list = TRUE, !.items = s.items \cup {Len(t) + 1}], [s EXCEPT !.over = TRUE]}
    BY <1>1, <1>4, <2>2 DEF SliceMarkdownSection
  <2> QED BY <1>4, <2>1, <2>2, <2>3
<1>6. ~s.armed /\ ~s.over => v = [s EXCEPT !.armed = (line = "anchor")] BY <1>1 DEF SliceMarkdownSection
<1>7. s.armed => /\ v.armed
                 /\ v.over = (s.over \/ (s.list /\ line \in {"prose", "anchor"}))
                 /\ ~v.over => v.list = (s.list \/ line = "item")
  BY <1>1, <1>4 DEF SliceMarkdownSection, ListEnds, MirrorLine
<1>8. v.items = IF ~s.over /\ s.armed /\ line = "item" THEN s.items \cup {Len(t) + 1} ELSE s.items
  BY <1>1, <1>4 DEF SliceMarkdownSection
<1>9. ASSUME ~s.armed PROVE MirrorAt(u, v) /\ (line = "item" => (InList(u, Len(u)) <=> ~s.over /\ s.armed))
  <2>1. ~s.list /\ ~s.over /\ \A m \in 1..Len(t) : t[m] # "anchor" BY <1>9 DEF MirrorOf, MirrorAt
  <2>2. v.armed = (line = "anchor") /\ v.list = s.list /\ v.over = s.over BY <1>4, <1>6, <1>9, <2>1
  <2>3. ASSUME line = "anchor" PROVE MirrorAt(u, v)
    <3>1. FirstOf(u, Len(u), "anchor") /\ Len(u) \in 1..Len(u) BY <1>3, <2>1, <2>3 DEF FirstOf
    <3>2. ~ItemIn(u, Len(u), Len(u)) /\ ~EndedIn(u, Len(u), Len(u)) BY <1>3 DEF ItemIn, EndedIn
    <3>3. MirrorAt(u, v) BY <2>1, <2>2, <2>3, <3>1, <3>2 DEF MirrorAt
    <3> QED BY <3>3
  <2>4. ASSUME line # "anchor" PROVE MirrorAt(u, v)
    <3>1. \A m \in 1..Len(u) : u[m] # "anchor"
      <4> TAKE m \in 1..Len(u)
      <4>1. CASE m = Len(u) BY <1>3, <2>4, <4>1
      <4>2. CASE m # Len(u) BY <1>3, <2>1, <4>2
      <4> QED BY <4>1, <4>2
    <3>2. MirrorAt(u, v) BY <2>1, <2>2, <2>4, <3>1 DEF MirrorAt
    <3> QED BY <3>2
  <2>5. line = "item" => ~InList(u, Len(u))
    <3>1. SUFFICES ASSUME line = "item", NEW a \in 1..Len(u) PROVE u[a] # "anchor" BY DEF InList, FirstOf
    <3>2. CASE a = Len(u) BY <1>3, <3>1, <3>2
    <3>3. CASE a # Len(u) BY <1>3, <2>1, <3>3
    <3> QED BY <3>2, <3>3
  <2>6. MirrorAt(u, v) /\ (line = "item" => (InList(u, Len(u)) <=> ~s.over /\ s.armed)) BY <1>9, <2>3, <2>4, <2>5
  <2> QED BY <2>6
<1>10. ASSUME s.armed PROVE MirrorAt(u, v) /\ (line = "item" => (InList(u, Len(u)) <=> ~s.over /\ s.armed))
  <2>1. PICK a \in 1..Len(t) : /\ FirstOf(t, a, "anchor")
                               /\ s.over <=> EndedIn(t, a, Len(t))
                               /\ ~s.over => (s.list <=> ItemIn(t, a, Len(t)))
    BY <1>10 DEF MirrorOf, MirrorAt
  <2>2. FirstOf(u, a, "anchor") BY <1>3, <2>1, FirstKept
  <2>3. a \in 1..Len(u) BY <1>3
  <2>4. /\ ItemIn(u, a, Len(u)) <=> ItemIn(t, a, Len(t)) \/ line = "item"
        /\ EndedIn(u, a, Len(u)) <=> EndedIn(t, a, Len(t)) \/ (ItemIn(t, a, Len(t)) /\ line \in {"prose", "anchor"})
    BY <1>3, ListMore
  <2>5. v.over <=> EndedIn(u, a, Len(u)) BY <1>4, <1>7, <1>10, <2>1, <2>4
  <2>6. ~v.over => (v.list <=> ItemIn(u, a, Len(u))) BY <1>4, <1>5, <1>7, <1>10, <2>1, <2>4
  <2>7. MirrorAt(u, v) BY <1>7, <1>10, <2>2, <2>3, <2>5, <2>6 DEF MirrorAt
  <2>8. \A i \in 1..Len(u) : FirstOf(u, i, "anchor") => i = a
    <3> TAKE i \in 1..Len(u)
    <3>1. i \in Nat /\ a \in Nat /\ Len(u) \in Nat BY <1>3
    <3> QED BY <2>2, <3>1, FirstOnly
  <2>9. InList(u, Len(u)) <=> ~EndedIn(u, a, Len(u)) BY <2>2, <2>3, <2>8 DEF InList
  <2>10. line = "item" => (InList(u, Len(u)) <=> ~s.over /\ s.armed) BY <1>10, <2>1, <2>4, <2>9
  <2> QED BY <2>7, <2>10
<1>11. MirrorAt(u, v) /\ (line = "item" => (InList(u, Len(u)) <=> ~s.over /\ s.armed)) BY <1>4, <1>9, <1>10
<1>12. \A n \in Nat : n \in v.items <=> n \in 1..Len(u) /\ u[n] = "item" /\ InList(u, n)
  <2> TAKE n \in Nat
  <2>1. n \in s.items <=> n \in 1..Len(t) /\ t[n] = "item" /\ InList(t, n) BY DEF MirrorOf
  <2>2. CASE n = Len(u) BY <1>3, <1>8, <1>11, <2>1, <2>2
  <2>3. CASE n \in 1..Len(t)
    <3>1. InList(u, n) <=> InList(t, n) BY <1>3, <2>3, InListKept
    <3>2. n \in v.items <=> n \in s.items BY <1>3, <1>8, <2>3
    <3> QED BY <1>3, <2>1, <2>3, <3>1, <3>2
  <2>4. CASE n \notin 1..Len(u)
    <3>1. n \notin 1..Len(t) /\ n # Len(t) + 1 BY <1>3, <2>4
    <3> QED BY <1>3, <1>8, <2>1, <2>4, <3>1
  <2> QED BY <1>3, <2>2, <2>3, <2>4
<1> QED BY <1>1, <1>3, <1>5, <1>11, <1>12 DEF MirrorOf

LEMMA MirrorStarts == MirrorOf(<<>>, MirrorStart)
<1>1. <<>> \in Seq(MirrorLine) /\ Len(<<>>) = 0 OBVIOUS
<1>2. MirrorStart \in [armed : BOOLEAN, list : BOOLEAN, over : BOOLEAN, items : SUBSET Nat] BY DEF MirrorStart
<1> QED BY <1>1, <1>2 DEF MirrorOf, MirrorAt, MirrorStart

LEMMA MirrorHolds == ASSUME MirrorOf(text, scan) PROVE scan.items = {n \in Lines : Listed(n)}
<1>1. Len(text) \in Nat BY DEF MirrorOf
<1>2. \A n \in Lines : Listed(n) <=> text[n] = "item" /\ InList(text, n)
  <2> TAKE n \in Lines
  <2>1. ASSUME NEW a \in 1..n PROVE FirstOf(text, a, "anchor") <=> text[a] = "anchor" /\ ~Among(1, a - 1, {"anchor"})
    BY <1>1 DEF FirstOf, Lines, Among
  <2>2. ASSUME NEW a \in 1..n PROVE ~EndedIn(text, a, n) <=> \A m \in a+1..n : text[m] = "item" => ~Among(m, n, {"prose", "anchor"})
    BY DEF EndedIn, Among
  <2> QED BY <2>1, <2>2 DEF Listed, InList
<1>3. scan.items \subseteq Nat /\ \A n \in Nat : n \in scan.items <=> n \in Lines /\ text[n] = "item" /\ InList(text, n)
  BY DEF MirrorOf, Lines
<1>4. Lines \subseteq Nat BY <1>1 DEF Lines
<1> QED BY <1>2, <1>3, <1>4

(* The section on deferred work. *)
Fences(t, a, b) == {m \in a..b : t[m] = "fence"}
Unfenced(t, a, b) == Cardinality(Fences(t, a, b)) % 2 = 0
Open(t, a, n) == \A m \in a+1..n : t[m] \notin {"section", "h2"}
DebtAt(t, n) ==
    /\ n > 1 /\ IsBody(t[n]) /\ IsBody(t[n-1])
    /\ \E a \in 1..n-1 : FirstOf(t, a, "section") /\ Open(t, a, n) /\ Unfenced(t, a, n)
TodoBefore(t, s) ==
    ~s.section /\ ~s.over /\ ~s.fence /\ s.run = 0 /\ s.hit = 0 /\ \A m \in 1..Len(t) : t[m] # "section"
TodoInside(t, s) ==
    /\ s.section /\ ~s.over /\ s.hit = 0
    /\ \E a \in 1..Len(t) : /\ FirstOf(t, a, "section") /\ Open(t, a, Len(t))
                            /\ s.fence <=> ~Unfenced(t, a, Len(t))
                            /\ s.run = 1 <=> ~s.fence /\ IsBody(t[Len(t)])
TodoAfter(t, s) ==
    s.section /\ s.over /\ s.hit = 0 /\ \E a \in 1..Len(t) : FirstOf(t, a, "section") /\ ~Open(t, a, Len(t))
TodoHit(t, s) == s.over /\ s.hit \in 1..Len(t) /\ DebtAt(t, s.hit)
TodoOf(t, s) ==
    /\ t \in Seq(TodoLine)
    /\ s \in [section : BOOLEAN, fence : BOOLEAN, run : {0, 1}, over : BOOLEAN, hit : Nat]
    /\ TodoBefore(t, s) \/ TodoInside(t, s) \/ TodoAfter(t, s) \/ TodoHit(t, s)
    /\ \A n \in 1..Len(t) : s.hit = 0 \/ n < s.hit => ~DebtAt(t, n)

LEMMA FencesFinite == ASSUME NEW t, NEW a \in Nat, NEW b \in Nat PROVE IsFiniteSet(Fences(t, a, b)) /\ Cardinality(Fences(t, a, b)) \in Nat
<1>1. IsFiniteSet(a..b) BY FS_Interval
<1>2. Fences(t, a, b) \subseteq a..b BY DEF Fences
<1>3. IsFiniteSet(Fences(t, a, b)) BY <1>1, <1>2, FS_Subset
<1> QED BY <1>3, FS_CardinalityType

LEMMA UnfencedKept ==
    ASSUME NEW t, NEW u, NEW a \in Nat, NEW n \in Nat, \A m \in a..n : u[m] = t[m] PROVE Unfenced(u, a, n) <=> Unfenced(t, a, n)
<1>1. Fences(u, a, n) = Fences(t, a, n) BY DEF Fences
<1> QED BY <1>1 DEF Unfenced

LEMMA UnfencedMore ==
    ASSUME NEW t, NEW a \in Nat, NEW n \in Nat, a <= n + 1
    PROVE  Unfenced(t, a, n + 1) <=> (IF t[n+1] = "fence" THEN ~Unfenced(t, a, n) ELSE Unfenced(t, a, n))
<1>1. PICK S, T : S = Fences(t, a, n) /\ T = Fences(t, a, n + 1) OBVIOUS
<1>2. IsFiniteSet(S) /\ Cardinality(S) \in Nat BY <1>1, FencesFinite
<1>3. CASE t[n+1] = "fence"
  <2>1. T = S \cup {n + 1} BY <1>1, <1>3 DEF Fences
  <2>2. n + 1 \notin S BY <1>1 DEF Fences
  <2>3. Cardinality(T) = Cardinality(S) + 1 BY <1>2, <2>1, <2>2, FS_AddElement
  <2>4. Cardinality(T) % 2 = 0 <=> Cardinality(S) % 2 # 0 BY <1>2, <2>3
  <2> QED BY <1>1, <1>3, <2>4 DEF Unfenced
<1>4. CASE t[n+1] # "fence"
  <2>1. T = S BY <1>1, <1>4 DEF Fences
  <2> QED BY <1>1, <1>4, <2>1 DEF Unfenced
<1> QED BY <1>3, <1>4

LEMMA UnfencedStart == ASSUME NEW t, NEW n \in Nat, t[n] # "fence" PROVE Unfenced(t, n, n)
<1>1. Fences(t, n, n) = {} BY DEF Fences
<1>2. Cardinality(Fences(t, n, n)) = 0 BY <1>1, FS_EmptySet
<1> QED BY <1>2 DEF Unfenced

LEMMA DebtKept ==
    ASSUME NEW t, NEW u, Len(t) \in Nat, Len(u) = Len(t) + 1, \A m \in 1..Len(t) : u[m] = t[m], NEW n \in 1..Len(t)
    PROVE  DebtAt(u, n) <=> DebtAt(t, n)
<1>1. \A a \in 1..n-1 : FirstOf(u, a, "section") <=> FirstOf(t, a, "section")
  <2> TAKE a \in 1..n-1
  <2>1. a \in 1..Len(t) OBVIOUS
  <2> QED BY <2>1, FirstKept
<1>2. ASSUME NEW a \in 1..n-1 PROVE (Open(u, a, n) <=> Open(t, a, n)) /\ (Unfenced(u, a, n) <=> Unfenced(t, a, n))
  <2>1. \A m \in a..n : u[m] = t[m] OBVIOUS
  <2>2. \A m \in a+1..n : u[m] = t[m] OBVIOUS
  <2>3. Unfenced(u, a, n) <=> Unfenced(t, a, n) BY <2>1, UnfencedKept
  <2> QED BY <2>2, <2>3 DEF Open
<1>3. n > 1 => u[n-1] = t[n-1] OBVIOUS
<1>4. u[n] = t[n] OBVIOUS
<1> QED BY <1>1, <1>2, <1>3, <1>4 DEF DebtAt

LEMMA OpenMore ==
    ASSUME NEW t, NEW u, Len(t) \in Nat, Len(u) = Len(t) + 1, \A m \in 1..Len(t) : u[m] = t[m], NEW a \in 1..Len(t)
    PROVE  Open(u, a, Len(u)) <=> Open(t, a, Len(t)) /\ u[Len(u)] \notin {"section", "h2"}
<1>1. ASSUME Open(u, a, Len(u)) PROVE Open(t, a, Len(t)) /\ u[Len(u)] \notin {"section", "h2"}
  <2>1. Len(u) \in a+1..Len(u) /\ \A m \in a+1..Len(t) : m \in a+1..Len(u) /\ u[m] = t[m] OBVIOUS
  <2> QED BY <1>1, <2>1 DEF Open
<1>2. ASSUME Open(t, a, Len(t)), u[Len(u)] \notin {"section", "h2"}, NEW m \in a+1..Len(u) PROVE u[m] \notin {"section", "h2"}
  <2>1. CASE m = Len(u) BY <1>2, <2>1
  <2>2. CASE m # Len(u)
    <3>1. m \in a+1..Len(t) /\ u[m] = t[m] BY <2>2
    <3> QED BY <1>2, <3>1 DEF Open
  <2> QED BY <2>1, <2>2
<1> QED BY <1>1, <1>2 DEF Open

LEMMA TodoStarts == TodoOf(<<>>, TodoStart)
<1>1. <<>> \in Seq(TodoLine) /\ Len(<<>>) = 0 OBVIOUS
<1>2. TodoStart \in [section : BOOLEAN, fence : BOOLEAN, run : {0, 1}, over : BOOLEAN, hit : Nat] BY DEF TodoStart
<1>3. TodoBefore(<<>>, TodoStart) BY <1>1 DEF TodoBefore, TodoStart
<1> QED BY <1>1, <1>2, <1>3 DEF TodoOf

LEMMA TodoMore ==
    ASSUME NEW t, NEW s, TodoOf(t, s), NEW line \in TodoLine
    PROVE  TodoOf(Append(t, line), TodoRead(s, line, Len(t) + 1))
<1>1. PICK u, v : u = Append(t, line) /\ v = TodoRead(s, line, Len(t) + 1) OBVIOUS
<1>2. t \in Seq(TodoLine) BY DEF TodoOf
<1>3. u \in Seq(TodoLine) /\ Len(t) \in Nat /\ Len(u) = Len(t) + 1 /\ u[Len(u)] = line /\ \A m \in 1..Len(t) : u[m] = t[m]
  BY <1>1, <1>2, ReadMore
<1>4. s \in [section : BOOLEAN, fence : BOOLEAN, run : {0, 1}, over : BOOLEAN, hit : Nat] BY DEF TodoOf
<1>5. v \in [section : BOOLEAN, fence : BOOLEAN, run : {0, 1}, over : BOOLEAN, hit : Nat]
  <2>1. PICK b \in BOOLEAN : b = (line = "section") OBVIOUS
  <2>2. PICK c \in BOOLEAN : c = ~s.fence OBVIOUS
  <2>3. v \in {s, [s EXCEPT !.section = b], [s EXCEPT !.over = TRUE], [s EXCEPT !.fence = c, !.run = 0], [s EXCEPT !.run = 0],
               [s EXCEPT !.over = TRUE, !.hit = Len(t) + 1], [s EXCEPT !.run = 1]}
    BY <1>1, <1>4, <2>1, <2>2 DEF TodoRead, ToggleFence
  <2>4. Len(t) + 1 \in Nat BY <1>3
  <2> QED BY <1>4, <2>1, <2>2, <2>3, <2>4
<1>6. \A n \in 1..Len(t) : DebtAt(u, n) <=> DebtAt(t, n) BY <1>3, DebtKept
<1>7. \A n \in 1..Len(t) : s.hit = 0 \/ n < s.hit => ~DebtAt(u, n) BY <1>6 DEF TodoOf
\* What is left is the new line.
<1>8. SUFFICES /\ TodoBefore(u, v) \/ TodoInside(u, v) \/ TodoAfter(u, v) \/ TodoHit(u, v)
               /\ v.hit = s.hit \/ (s.hit = 0 /\ v.hit = Len(u))
               /\ v.hit = 0 => ~DebtAt(u, Len(u))
  <2>1. \A n \in 1..Len(u) : v.hit = 0 \/ n < v.hit => ~DebtAt(u, n)
    <3> TAKE n \in 1..Len(u)
    <3>1. CASE n = Len(u)
      <4>1. v.hit <= Len(u)
        <5>1. CASE v.hit = Len(u) BY <1>3, <5>1
        <5>2. CASE TodoHit(u, v) BY <1>3, <5>2 DEF TodoHit
        <5>3. CASE v.hit = 0 BY <1>3, <5>3
        <5> QED BY <1>8, <5>1, <5>2, <5>3 DEF TodoBefore, TodoInside, TodoAfter
      <4>2. ~(n < v.hit) BY <1>3, <1>5, <3>1, <4>1
      <4> QED BY <1>8, <3>1, <4>2
    <3>2. CASE n # Len(u)
      <4>1. n \in 1..Len(t) BY <1>3, <3>2
      <4>2. v.hit = 0 => s.hit = 0 BY <1>3, <1>8
      <4>3. n < v.hit => s.hit = 0 \/ n < s.hit BY <1>8
      <4> QED BY <1>7, <4>1, <4>2, <4>3
    <3> QED BY <3>1, <3>2
  <2> QED BY <1>1, <1>3, <1>5, <1>8, <2>1 DEF TodoOf
<1>9. CASE TodoBefore(t, s)
  <2>1. ~s.section /\ ~s.over /\ ~s.fence /\ s.run = 0 /\ s.hit = 0 /\ \A m \in 1..Len(t) : t[m] # "section"
    BY <1>9 DEF TodoBefore
  <2>2. v = [s EXCEPT !.section = (line = "section")] BY <1>1, <2>1 DEF TodoRead
  <2>3. v.section = (line = "section") /\ ~v.over /\ ~v.fence /\ v.run = 0 /\ v.hit = 0 BY <1>4, <2>1, <2>2
  <2>4. ~DebtAt(u, Len(u)) BY <1>3, <2>1 DEF DebtAt, FirstOf
  <2>5. CASE line = "section"
    <3>1. FirstOf(u, Len(u), "section") /\ Len(u) \in 1..Len(u) BY <1>3, <2>1, <2>5 DEF FirstOf
    <3>2. Open(u, Len(u), Len(u)) BY <1>3 DEF Open
    <3>3. Unfenced(u, Len(u), Len(u)) BY <1>3, <2>5, UnfencedStart
    <3>4. ~IsBody(u[Len(u)]) BY <1>3, <2>5 DEF IsBody
    <3>5. TodoInside(u, v)
      <4>1. v.section /\ ~v.over /\ v.hit = 0 BY <2>3, <2>5
      <4>2. v.fence <=> ~Unfenced(u, Len(u), Len(u)) BY <2>3, <3>3
      <4>3. v.run = 1 <=> ~v.fence /\ IsBody(u[Len(u)]) BY <2>3, <3>4
      <4> QED BY <3>1, <3>2, <4>1, <4>2, <4>3, Zenon DEF TodoInside
    <3> QED BY <2>1, <2>3, <2>4, <3>5
  <2>6. CASE line # "section"
    <3>1. \A m \in 1..Len(u) : u[m] # "section"
      <4> TAKE m \in 1..Len(u)
      <4>1. CASE m = Len(u) BY <1>3, <2>6, <4>1
      <4>2. CASE m # Len(u) BY <1>3, <2>1, <4>2
      <4> QED BY <4>1, <4>2
    <3>2. TodoBefore(u, v) BY <2>3, <2>6, <3>1 DEF TodoBefore
    <3> QED BY <2>1, <2>3, <2>4, <3>2
  <2> QED BY <2>5, <2>6
<1>10. CASE TodoInside(t, s)
  <2>1. s.section /\ ~s.over /\ s.hit = 0 BY <1>10 DEF TodoInside
  <2>2. PICK a \in 1..Len(t) : /\ FirstOf(t, a, "section") /\ Open(t, a, Len(t))
                               /\ s.fence <=> ~Unfenced(t, a, Len(t))
                               /\ s.run = 1 <=> ~s.fence /\ IsBody(t[Len(t)])
    BY <1>10 DEF TodoInside
  <2>3. FirstOf(u, a, "section") BY <1>3, <2>2, FirstKept
  <2>4. a \in 1..Len(u) /\ a \in 1..Len(u)-1 /\ a \in Nat /\ Len(u) \in Nat BY <1>3
  <2>5. \A i \in 1..Len(u) : FirstOf(u, i, "section") => i = a
    <3> TAKE i \in 1..Len(u)
    <3>1. i \in Nat BY <1>3
    <3> QED BY <2>3, <2>4, <3>1, FirstOnly
  <2>6. Open(u, a, Len(u)) <=> line \notin {"section", "h2"} BY <1>3, <2>2, OpenMore
  <2>7. Unfenced(u, a, Len(u)) <=> (IF line = "fence" THEN s.fence ELSE ~s.fence)
    <3>1. \A m \in a..Len(t) : u[m] = t[m] BY <1>3
    <3>2. Unfenced(u, a, Len(t)) <=> Unfenced(t, a, Len(t)) BY <1>3, <2>4, <3>1, UnfencedKept
    <3>3. a <= Len(t) + 1 BY <1>3
    <3>4. Unfenced(u, a, Len(t) + 1) <=> (IF u[Len(t)+1] = "fence" THEN ~Unfenced(u, a, Len(t)) ELSE Unfenced(u, a, Len(t)))
      BY <1>3, <2>4, <3>3, UnfencedMore
    <3> QED BY <1>3, <1>4, <2>2, <3>2, <3>4
  <2>8. DebtAt(u, Len(u)) <=> IsBody(line) /\ IsBody(t[Len(t)]) /\ Open(u, a, Len(u)) /\ Unfenced(u, a, Len(u))
    <3>1. u[Len(u)-1] = t[Len(t)] /\ Len(u) > 1 BY <1>3
    <3>2. ASSUME DebtAt(u, Len(u)) PROVE IsBody(line) /\ IsBody(t[Len(t)]) /\ Open(u, a, Len(u)) /\ Unfenced(u, a, Len(u))
      <4>1. PICK i \in 1..Len(u)-1 : FirstOf(u, i, "section") /\ Open(u, i, Len(u)) /\ Unfenced(u, i, Len(u)) BY <3>2 DEF DebtAt
      <4>2. i \in 1..Len(u) BY <2>4
      <4>3. i = a BY <2>5, <4>1, <4>2
      <4> QED BY <1>3, <3>1, <3>2, <4>1, <4>3 DEF DebtAt
    <3> QED BY <1>3, <2>3, <2>4, <3>1, <3>2 DEF DebtAt
  <2>9. CASE line \in {"section", "h2"}
    <3>1. v = [s EXCEPT !.over = TRUE] BY <1>1, <2>1, <2>9 DEF TodoRead
    <3>2. v.section /\ v.over /\ v.hit = 0 BY <1>4, <2>1, <3>1
    <3>3. TodoAfter(u, v) BY <2>3, <2>4, <2>6, <2>9, <3>2 DEF TodoAfter
    <3> QED BY <2>1, <2>6, <2>8, <2>9, <3>2, <3>3
  <2>10. CASE line = "fence"
    <3>1. v = [s EXCEPT !.fence = ~s.fence, !.run = 0] BY <1>1, <1>4, <2>1, <2>10 DEF TodoRead, ToggleFence
    <3>2. v.section /\ ~v.over /\ v.hit = 0 /\ v.fence = ~s.fence /\ v.run = 0 BY <1>4, <2>1, <3>1
    <3>3. ~IsBody(u[Len(u)]) BY <1>3, <2>10 DEF IsBody
    <3>4. TodoInside(u, v)
      <4>1. v.fence <=> ~Unfenced(u, a, Len(u)) BY <1>4, <2>7, <2>10, <3>2
      <4>2. v.run = 1 <=> ~v.fence /\ IsBody(u[Len(u)]) BY <3>2, <3>3
      <4>3. Open(u, a, Len(u)) BY <2>6, <2>10
      <4> QED BY <2>3, <2>4, <3>2, <4>1, <4>2, <4>3, Zenon DEF TodoInside
    <3> QED BY <1>3, <2>1, <2>8, <3>2, <3>3, <3>4
  <2>11. CASE line \notin {"section", "h2", "fence"} /\ s.fence
    <3>1. v = s BY <1>1, <2>1, <2>11 DEF TodoRead
    <3>2. s.run # 1 BY <2>2, <2>11
    <3>3. TodoInside(u, v)
      <4>1. v.fence <=> ~Unfenced(u, a, Len(u)) BY <2>7, <2>11, <3>1
      <4>2. v.run = 1 <=> ~v.fence /\ IsBody(u[Len(u)]) BY <2>11, <3>1, <3>2
      <4>3. Open(u, a, Len(u)) BY <2>6, <2>11
      <4> QED BY <2>1, <2>3, <2>4, <3>1, <4>1, <4>2, <4>3, Zenon DEF TodoInside
    <3> QED BY <2>1, <2>7, <2>8, <2>11, <3>1, <3>3
  <2>12. CASE line \notin {"section", "h2", "fence"} /\ ~s.fence /\ ~IsBody(line)
    <3>1. v = [s EXCEPT !.run = 0] BY <1>1, <2>1, <2>12 DEF TodoRead
    <3>2. v.section /\ ~v.over /\ v.hit = 0 /\ v.fence = s.fence /\ v.run = 0 BY <1>4, <2>1, <3>1
    <3>3. TodoInside(u, v)
      <4>1. v.fence <=> ~Unfenced(u, a, Len(u)) BY <2>7, <2>12, <3>2
      <4>2. v.run = 1 <=> ~v.fence /\ IsBody(u[Len(u)]) BY <1>3, <2>12, <3>2
      <4>3. Open(u, a, Len(u)) BY <2>6, <2>12
      <4> QED BY <2>3, <2>4, <3>2, <4>1, <4>2, <4>3, Zenon DEF TodoInside
    <3> QED BY <2>1, <2>8, <2>12, <3>2, <3>3
  <2>13. CASE ~s.fence /\ IsBody(line)
    <3>1. line \notin {"section", "h2", "fence"} BY <2>13 DEF IsBody
    <3>2. DebtAt(u, Len(u)) <=> s.run = 1 BY <2>2, <2>6, <2>7, <2>8, <2>13, <3>1
    <3>3. CASE s.run = 1
      <4>1. v = [s EXCEPT !.over = TRUE, !.hit = Len(u)] BY <1>1, <1>3, <2>1, <2>13, <3>1, <3>3 DEF TodoRead
      <4>2. v.over /\ v.hit = Len(u) BY <1>4, <4>1
      <4>3. Len(u) \in 1..Len(u) /\ Len(u) # 0 BY <1>3
      <4>4. TodoHit(u, v) BY <3>2, <3>3, <4>2, <4>3 DEF TodoHit
      <4> QED BY <2>1, <4>2, <4>3, <4>4
    <3>4. CASE s.run # 1
      <4>1. v = [s EXCEPT !.run = 1] BY <1>1, <2>1, <2>13, <3>1, <3>4 DEF TodoRead
      <4>2. v.section /\ ~v.over /\ v.hit = 0 /\ v.fence = s.fence /\ v.run = 1 BY <1>4, <2>1, <4>1
      <4>3. TodoInside(u, v)
        <5>1. v.fence <=> ~Unfenced(u, a, Len(u)) BY <2>7, <2>13, <3>1, <4>2
        <5>2. v.run = 1 <=> ~v.fence /\ IsBody(u[Len(u)]) BY <1>3, <2>13, <4>2
        <5>3. Open(u, a, Len(u)) BY <2>6, <3>1
        <5> QED BY <2>3, <2>4, <4>2, <5>1, <5>2, <5>3, Zenon DEF TodoInside
      <4> QED BY <2>1, <3>2, <3>4, <4>2, <4>3
    <3> QED BY <3>3, <3>4
  <2> QED BY <1>4, <2>9, <2>10, <2>11, <2>12, <2>13
<1>11. CASE TodoAfter(t, s)
  <2>1. s.section /\ s.over /\ s.hit = 0 BY <1>11 DEF TodoAfter
  <2>2. PICK a \in 1..Len(t) : FirstOf(t, a, "section") /\ ~Open(t, a, Len(t)) BY <1>11 DEF TodoAfter
  <2>3. v = s BY <1>1, <2>1 DEF TodoRead
  <2>4. FirstOf(u, a, "section") BY <1>3, <2>2, FirstKept
  <2>5. a \in 1..Len(u) /\ a \in Nat /\ Len(u) \in Nat BY <1>3
  <2>6. ~Open(u, a, Len(u)) BY <1>3, <2>2, OpenMore
  <2>7. ~DebtAt(u, Len(u))
    <3>1. SUFFICES ASSUME NEW i \in 1..Len(u)-1, FirstOf(u, i, "section") PROVE ~Open(u, i, Len(u)) BY DEF DebtAt
    <3>2. i \in Nat BY <2>5
    <3>3. i = a BY <2>4, <2>5, <3>1, <3>2, FirstOnly
    <3> QED BY <2>6, <3>3
  <2>8. TodoAfter(u, v) BY <2>1, <2>3, <2>4, <2>5, <2>6 DEF TodoAfter
  <2> QED BY <2>3, <2>7, <2>8
<1>12. CASE TodoHit(t, s)
  <2>1. s.over /\ s.hit \in 1..Len(t) /\ DebtAt(t, s.hit) BY <1>12 DEF TodoHit
  <2>2. v = s BY <1>1, <2>1 DEF TodoRead
  <2>3. v.hit \in 1..Len(u) /\ v.hit # 0 BY <1>3, <2>1, <2>2
  <2>4. TodoHit(u, v) BY <1>6, <2>1, <2>2, <2>3 DEF TodoHit
  <2> QED BY <2>2, <2>3, <2>4
<1> QED BY <1>9, <1>10, <1>11, <1>12 DEF TodoOf

LEMMA TodoHolds ==
    ASSUME TodoOf(text, scan)
    PROVE  \/ scan.hit = 0 /\ \A n \in Lines : ~Inlined(n)
           \/ scan.hit \in Lines /\ Inlined(scan.hit) /\ \A n \in 1..scan.hit-1 : ~Inlined(n)
<1>1. Len(text) \in Nat BY DEF TodoOf
<1>2. \A n \in Lines : Inlined(n) <=> DebtAt(text, n)
  <2> TAKE n \in Lines
  <2>1. ASSUME NEW a \in 1..n-1 PROVE FirstOf(text, a, "section") <=> text[a] = "section" /\ ~Among(1, a - 1, {"section"})
    BY <1>1 DEF FirstOf, Lines, Among
  <2>2. ASSUME NEW a \in 1..n-1 PROVE Open(text, a, n) <=> ~Among(a + 1, n, {"section", "h2"}) BY DEF Open, Among
  <2>3. ASSUME NEW a \in 1..n-1 PROVE Unfenced(text, a, n) <=> Cardinality({m \in a..n : text[m] = "fence"}) % 2 = 0
    BY DEF Unfenced, Fences
  <2> QED BY <2>1, <2>2, <2>3 DEF Inlined, DebtAt
<1>3. scan.hit \in Nat /\ \A n \in 1..Len(text) : scan.hit = 0 \/ n < scan.hit => ~DebtAt(text, n) BY DEF TodoOf
<1>4. CASE scan.hit = 0 BY <1>2, <1>3, <1>4 DEF Lines
<1>5. CASE scan.hit # 0
  <2>1. scan.hit \in 1..Len(text) /\ DebtAt(text, scan.hit) BY <1>5 DEF TodoOf, TodoBefore, TodoInside, TodoAfter, TodoHit
  <2>2. \A n \in 1..scan.hit-1 : n \in 1..Len(text) /\ n < scan.hit BY <1>1, <1>3, <2>1
  <2>3. \A n \in 1..scan.hit-1 : ~Inlined(n) BY <1>2, <1>3, <2>2 DEF Lines
  <2> QED BY <1>2, <2>1, <2>3 DEF Lines
<1> QED BY <1>4, <1>5

(* The test blocks.  Comments, braces and items of a file t. *)
LiveIn(t, n) == \A b \in 1..n-1 : t[b] = "begin" => \E e \in b+1..n-1 : t[e] = "end"
Marks(t, a, b, kind) == {n \in a..b : LiveIn(t, n) /\ t[n] = kind}
MarkCount(t, a, b, kind) == Cardinality(Marks(t, a, b, kind))
Braces(t, a, b) == MarkCount(t, a, b, "open") - MarkCount(t, a, b, "close")
AttrsIn(t) == {n \in 1..Len(t) : LiveIn(t, n) /\ t[n] = "attr"}
Opener(t, a, o) ==
    /\ o \in a+1..Len(t) /\ LiveIn(t, o) /\ t[o] = "open"
    /\ \A m \in a+1..o-1 : LiveIn(t, m) => t[m] \in {"attr", "begin", "end"}
PlainIn(t) ==
    /\ \A n \in 1..Len(t) : t[n] \notin {"attr_open", "quoted"}
    /\ \A a \in AttrsIn(t) : \E o \in a+1..Len(t) : Opener(t, a, o)
ClosedIn(t, o) == {k \in o..Len(t) : MarkCount(t, o, k, "open") = MarkCount(t, o, k, "close")}
FirstOpen(t, a) == CHOOSE o \in a..Len(t) : LiveIn(t, o) /\ t[o] = "open" /\ MarkCount(t, a, o - 1, "open") = 0
ItemOf(t, a) == {n \in 1..Len(t) : a <= n /\ \A k \in ClosedIn(t, FirstOpen(t, a)) : n <= k}

\* The comment flag is the one the lines above call for.
LEMMA LiveMore ==
    ASSUME NEW t, NEW n \in Nat, n >= 1 PROVE LiveIn(t, n + 1) <=> ~StillOpen(t[n], ~LiveIn(t, n))
<1>1. CASE LiveIn(t, n)
  <2>1. CASE t[n] = "begin"
    <3>1. ~LiveIn(t, n + 1) BY <2>1 DEF LiveIn
    <3> QED BY <1>1, <2>1, <3>1 DEF StillOpen
  <2>2. CASE t[n] # "begin"
    <3>1. ASSUME NEW b \in 1..n, t[b] = "begin" PROVE \E e \in b+1..n : t[e] = "end"
      <4>1. b \in 1..n-1 BY <2>2, <3>1
      <4>2. PICK e \in b+1..n-1 : t[e] = "end" BY <1>1, <3>1, <4>1 DEF LiveIn
      <4>3. e \in b+1..n OBVIOUS
      <4> QED BY <4>2, <4>3
    <3>2. LiveIn(t, n + 1) BY <3>1 DEF LiveIn
    <3> QED BY <1>1, <2>2, <3>2 DEF StillOpen
  <2> QED BY <2>1, <2>2
<1>2. CASE ~LiveIn(t, n)
  <2>1. PICK b \in 1..n-1 : t[b] = "begin" /\ ~\E e \in b+1..n-1 : t[e] = "end" BY <1>2 DEF LiveIn
  <2>2. CASE t[n] = "end"
    <3>1. ASSUME NEW c \in 1..n, t[c] = "begin" PROVE \E e \in c+1..n : t[e] = "end"
      <4>1. n \in c+1..n BY <2>2, <3>1
      <4> QED BY <2>2, <4>1
    <3>2. LiveIn(t, n + 1) BY <3>1 DEF LiveIn
    <3> QED BY <1>2, <2>2, <3>2 DEF StillOpen
  <2>3. CASE t[n] # "end"
    <3>1. ~\E e \in b+1..n : t[e] = "end"
      <4>1. SUFFICES ASSUME NEW e \in b+1..n, t[e] = "end" PROVE FALSE OBVIOUS
      <4>2. e \in b+1..n-1 BY <2>3, <4>1
      <4> QED BY <2>1, <4>1, <4>2
    <3>2. b \in 1..n OBVIOUS
    <3>3. ~LiveIn(t, n + 1) BY <2>1, <3>1, <3>2 DEF LiveIn
    <3> QED BY <1>2, <2>3, <3>3 DEF StillOpen
  <2> QED BY <2>2, <2>3
<1> QED BY <1>1, <1>2

LEMMA MarksFinite ==
    ASSUME NEW t, NEW a \in Nat, NEW b \in Int, NEW kind PROVE IsFiniteSet(Marks(t, a, b, kind)) /\ MarkCount(t, a, b, kind) \in Nat
<1>1. IsFiniteSet(a..b) BY FS_Interval
<1>2. Marks(t, a, b, kind) \subseteq a..b BY DEF Marks
<1>3. IsFiniteSet(Marks(t, a, b, kind)) BY <1>1, <1>2, FS_Subset
<1> QED BY <1>3, FS_CardinalityType DEF MarkCount

LEMMA MarkCountMore ==
    ASSUME NEW t, NEW a \in Nat, NEW b \in Nat, a <= b + 1, NEW kind
    PROVE  MarkCount(t, a, b + 1, kind) = MarkCount(t, a, b, kind) + (IF LiveIn(t, b + 1) /\ t[b+1] = kind THEN 1 ELSE 0)
<1>1. PICK S, T : S = Marks(t, a, b, kind) /\ T = Marks(t, a, b + 1, kind) OBVIOUS
<1>2. IsFiniteSet(S) /\ Cardinality(S) \in Nat BY <1>1, MarksFinite DEF MarkCount
<1>3. CASE LiveIn(t, b + 1) /\ t[b+1] = kind
  <2>1. T = S \cup {b + 1} BY <1>1, <1>3 DEF Marks
  <2>2. b + 1 \notin S BY <1>1 DEF Marks
  <2>3. Cardinality(T) = Cardinality(S) + 1 BY <1>2, <2>1, <2>2, FS_AddElement
  <2> QED BY <1>1, <1>3, <2>3 DEF MarkCount
<1>4. CASE ~(LiveIn(t, b + 1) /\ t[b+1] = kind)
  <2>1. T = S BY <1>1, <1>4 DEF Marks
  <2> QED BY <1>1, <1>2, <1>4, <2>1 DEF MarkCount
<1> QED BY <1>3, <1>4

LEMMA MarkCountSplit ==
    ASSUME NEW t, NEW a \in Nat, NEW b \in Nat, NEW c \in Nat, a <= b + 1, b <= c, NEW kind
    PROVE  MarkCount(t, a, c, kind) = MarkCount(t, a, b, kind) + MarkCount(t, b + 1, c, kind)
<1>1. PICK S, T, R : S = Marks(t, a, b, kind) /\ T = Marks(t, b + 1, c, kind) /\ R = Marks(t, a, c, kind) OBVIOUS
<1>2. IsFiniteSet(S) /\ IsFiniteSet(T) /\ Cardinality(S) \in Nat /\ Cardinality(T) \in Nat BY <1>1, MarksFinite DEF MarkCount
<1>3. R = S \cup T BY <1>1 DEF Marks
<1>4. S \cap T = {} BY <1>1 DEF Marks
<1>5. Cardinality(S \cup T) = Cardinality(S) + Cardinality(T) - Cardinality(S \cap T) BY <1>2, FS_Union
<1>6. Cardinality(S \cap T) = 0 BY <1>4, FS_EmptySet
<1> QED BY <1>1, <1>2, <1>3, <1>5, <1>6 DEF MarkCount

LEMMA BracesInt == ASSUME NEW t, NEW a \in Nat, NEW b \in Int PROVE Braces(t, a, b) \in Int
<1>1. MarkCount(t, a, b, "open") \in Nat /\ MarkCount(t, a, b, "close") \in Nat BY MarksFinite
<1> QED BY <1>1 DEF Braces

\* What process_line makes of the depth is what the live braces make of it.
LEMMA BracesMore ==
    ASSUME NEW t, NEW a \in Nat, NEW b \in Nat, a <= b + 1, t[b+1] # "attr_open"
    PROVE  /\ Braces(t, a, b + 1) = ProcessLine(Braces(t, a, b), StripComments(t[b+1], ~LiveIn(t, b + 1)))
           /\ Braces(t, a, b + 1) >= Braces(t, a, b) - 1
           /\ Braces(t, a, b + 1) < Braces(t, a, b) => LiveIn(t, b + 1) /\ t[b+1] = "close"
           /\ LiveIn(t, b + 1) /\ t[b+1] = "open" => Braces(t, a, b + 1) = Braces(t, a, b) + 1
<1>1. MarkCount(t, a, b, "open") \in Nat /\ MarkCount(t, a, b, "close") \in Nat BY MarksFinite
<1>2. /\ MarkCount(t, a, b + 1, "open") = MarkCount(t, a, b, "open") + (IF LiveIn(t, b + 1) /\ t[b+1] = "open" THEN 1 ELSE 0)
      /\ MarkCount(t, a, b + 1, "close") = MarkCount(t, a, b, "close") + (IF LiveIn(t, b + 1) /\ t[b+1] = "close" THEN 1 ELSE 0)
  BY MarkCountMore
<1>3. PICK d \in Int, e \in Int : d = Braces(t, a, b) /\ e = Braces(t, a, b + 1) BY BracesInt
<1>4. e = d + (IF LiveIn(t, b + 1) /\ t[b+1] = "open" THEN 1 ELSE 0) - (IF LiveIn(t, b + 1) /\ t[b+1] = "close" THEN 1 ELSE 0)
  BY <1>1, <1>2, <1>3 DEF Braces
<1>5. e = ProcessLine(d, StripComments(t[b+1], ~LiveIn(t, b + 1)))
  <2>1. CASE LiveIn(t, b + 1) BY <1>4, <2>1 DEF ProcessLine, StripComments
  <2>2. CASE ~LiveIn(t, b + 1) BY <1>4, <2>2 DEF ProcessLine, StripComments
  <2> QED BY <2>1, <2>2
<1> QED BY <1>3, <1>4, <1>5

LEMMA BracesSplit ==
    ASSUME NEW t, NEW a \in Nat, NEW b \in Nat, NEW c \in Nat, a <= b + 1, b <= c
    PROVE  Braces(t, a, c) = Braces(t, a, b) + Braces(t, b + 1, c)
<1>1. /\ MarkCount(t, a, b, "open") \in Nat /\ MarkCount(t, a, b, "close") \in Nat
      /\ MarkCount(t, b + 1, c, "open") \in Nat /\ MarkCount(t, b + 1, c, "close") \in Nat
  BY MarksFinite
<1>2. /\ MarkCount(t, a, c, "open") = MarkCount(t, a, b, "open") + MarkCount(t, b + 1, c, "open")
      /\ MarkCount(t, a, c, "close") = MarkCount(t, a, b, "close") + MarkCount(t, b + 1, c, "close")
  BY MarkCountSplit
<1> QED BY <1>1, <1>2 DEF Braces

LEMMA ClosedBraces == ASSUME NEW t, Len(t) \in Nat, NEW o \in Nat PROVE ClosedIn(t, o) = {k \in o..Len(t) : Braces(t, o, k) = 0}
<1>1. ASSUME NEW k \in o..Len(t) PROVE MarkCount(t, o, k, "open") = MarkCount(t, o, k, "close") <=> Braces(t, o, k) = 0
  <2>1. k \in Int OBVIOUS
  <2>2. MarkCount(t, o, k, "open") \in Nat /\ MarkCount(t, o, k, "close") \in Nat BY <2>1, MarksFinite
  <2> QED BY <2>2 DEF Braces
<1> QED BY <1>1 DEF ClosedIn

\* The first brace after an attribute is that of its item.
LEMMA ItemIs ==
    ASSUME NEW t, Len(t) \in Nat, NEW a \in AttrsIn(t), NEW o \in Nat, Opener(t, a, o)
    PROVE  ItemOf(t, a) = {n \in 1..Len(t) : a <= n /\ \A k \in ClosedIn(t, o) : n <= k}
<1>1. a \in 1..Len(t) /\ LiveIn(t, a) /\ t[a] = "attr" BY DEF AttrsIn
<1>2. o \in a+1..Len(t) /\ LiveIn(t, o) /\ t[o] = "open" /\ \A m \in a+1..o-1 : LiveIn(t, m) => t[m] \in {"attr", "begin", "end"}
  BY DEF Opener
<1>3. MarkCount(t, a, o - 1, "open") = 0
  <2>1. Marks(t, a, o - 1, "open") = {}
    <3>1. SUFFICES ASSUME NEW m \in a..o-1, LiveIn(t, m), t[m] = "open" PROVE FALSE BY DEF Marks
    <3>2. m \in a+1..o-1 BY <1>1, <3>1
    <3> QED BY <1>2, <3>1, <3>2
  <2> QED BY <2>1, FS_EmptySet DEF MarkCount
<1>4. ASSUME NEW x \in a..Len(t), LiveIn(t, x), t[x] = "open", MarkCount(t, a, x - 1, "open") = 0 PROVE x = o
  <2>1. x # a /\ a \in Nat /\ x - 1 \in Int BY <1>1, <1>4
  <2>2. ~(x < o)
    <3>1. SUFFICES ASSUME x < o PROVE FALSE OBVIOUS
    <3>2. x \in a+1..o-1 BY <1>1, <2>1, <3>1
    <3> QED BY <1>2, <1>4, <3>2
  <2>3. Marks(t, a, x - 1, "open") = {}
    <3>1. IsFiniteSet(Marks(t, a, x - 1, "open")) BY <2>1, MarksFinite
    <3> QED BY <1>4, <3>1, FS_EmptySet DEF MarkCount
  <2>4. ~(o < x)
    <3>1. SUFFICES ASSUME o < x PROVE FALSE OBVIOUS
    <3>2. o \in a..x-1 BY <1>1, <1>2, <3>1
    <3> QED BY <1>2, <2>3, <3>2 DEF Marks
  <2> QED BY <1>1, <2>2, <2>4
<1>5. o \in a..Len(t) BY <1>1, <1>2
<1>6. FirstOpen(t, a) = o BY <1>2, <1>3, <1>4, <1>5 DEF FirstOpen
<1> QED BY <1>6 DEF ItemOf

\* A block from the attribute i, with its brace at o, to its last line e.
Block(t, i, o, e) ==
    /\ i \in AttrsIn(t) /\ Opener(t, i, o) /\ e \in o..Len(t)
    /\ \A m \in o..e-1 : Braces(t, o, m) > 0
    /\ Braces(t, o, e) = 0 \/ e = Len(t)

LEMMA BlockNats ==
    ASSUME NEW t, Len(t) \in Nat, NEW i, NEW o, NEW e, Block(t, i, o, e) PROVE i \in Nat /\ o \in Nat /\ e \in Nat /\ 1 <= i /\ i < o /\ o <= e /\ e <= Len(t)
<1>1. i \in 1..Len(t) BY DEF Block, AttrsIn
<1>2. o \in i+1..Len(t) BY DEF Block, Opener
<1>3. e \in o..Len(t) BY DEF Block
<1> QED BY <1>1, <1>2, <1>3

LEMMA BlockUpTo ==
    ASSUME NEW t, Len(t) \in Nat, NEW i, NEW o, NEW e, Block(t, i, o, e), NEW n \in 1..Len(t)
    PROVE  (\A k \in ClosedIn(t, o) : n <= k) <=> n <= e
<1>1. i \in Nat /\ o \in Nat /\ e \in Nat /\ 1 <= i /\ i < o /\ o <= e /\ e <= Len(t) BY BlockNats
<1>2. ClosedIn(t, o) = {k \in o..Len(t) : Braces(t, o, k) = 0} BY <1>1, ClosedBraces
<1>3. ASSUME NEW k \in ClosedIn(t, o) PROVE e <= k
  <2>1. k \in o..Len(t) /\ Braces(t, o, k) = 0 BY <1>2
  <2>2. k \notin o..e-1 BY <2>1 DEF Block
  <2> QED BY <1>1, <2>1, <2>2
<1>4. e \in ClosedIn(t, o) \/ e = Len(t)
  <2>1. e \in o..Len(t) BY <1>1
  <2> QED BY <1>2, <2>1 DEF Block
<1>5. \A k \in ClosedIn(t, o) : k \in Nat BY <1>1, <1>2
<1>6. ASSUME n <= e, NEW k \in ClosedIn(t, o) PROVE n <= k BY <1>1, <1>3, <1>5, <1>6
<1>7. ASSUME \A k \in ClosedIn(t, o) : n <= k PROVE n <= e BY <1>1, <1>4, <1>7
<1> QED BY <1>6, <1>7

LEMMA BlockItem ==
    ASSUME NEW t, Len(t) \in Nat, NEW i, NEW o, NEW e, Block(t, i, o, e) PROVE ItemOf(t, i) = i..e
<1>1. i \in Nat /\ o \in Nat /\ e \in Nat /\ 1 <= i /\ i < o /\ o <= e /\ e <= Len(t) BY BlockNats
<1>2. i \in AttrsIn(t) /\ Opener(t, i, o) BY DEF Block
<1>3. ItemOf(t, i) = {n \in 1..Len(t) : i <= n /\ \A k \in ClosedIn(t, o) : n <= k} BY <1>1, <1>2, ItemIs
<1>4. \A n \in 1..Len(t) : (\A k \in ClosedIn(t, o) : n <= k) <=> n <= e BY BlockUpTo
<1>5. ItemOf(t, i) = {n \in 1..Len(t) : i <= n /\ n <= e} BY <1>3, <1>4
<1> QED BY <1>1, <1>5

\* An item inside a block ends no later than the block.
LEMMA BlockNested ==
    ASSUME NEW t, Len(t) \in Nat, PlainIn(t), NEW i, NEW o, NEW e, Block(t, i, o, e), NEW a \in AttrsIn(t), i <= a, a <= e,
           NEW n \in ItemOf(t, a)
    PROVE  n \in i..e
<1>1. i \in Nat /\ o \in Nat /\ e \in Nat /\ 1 <= i /\ i < o /\ o <= e /\ e <= Len(t) BY BlockNats
<1>2. a \in 1..Len(t) /\ LiveIn(t, a) /\ t[a] = "attr" BY DEF AttrsIn
<1>3. PICK f \in a+1..Len(t) : Opener(t, a, f) BY DEF PlainIn
<1>4. f \in Nat /\ a \in Nat /\ a < f /\ f <= Len(t) BY <1>2, <1>3
<1>5. LiveIn(t, f) /\ t[f] = "open" /\ \A m \in a+1..f-1 : LiveIn(t, m) => t[m] \in {"attr", "begin", "end"} BY <1>3 DEF Opener
<1>6. LiveIn(t, o) /\ t[o] = "open" /\ \A m \in i+1..o-1 : LiveIn(t, m) => t[m] \in {"attr", "begin", "end"} BY DEF Opener, Block
<1>7. n \in 1..Len(t) /\ a <= n /\ \A k \in ClosedIn(t, f) : n <= k BY <1>3, <1>4, ItemIs
<1>8. SUFFICES n <= e BY <1>1, <1>2, <1>7, <1>8
<1>9. CASE e = Len(t) BY <1>7, <1>9
<1>10. CASE a < o
  <2>1. ~(o < f)
    <3>1. SUFFICES ASSUME o < f PROVE FALSE OBVIOUS
    <3>2. o \in a+1..f-1 BY <1>1, <1>4, <1>10, <3>1
    <3> QED BY <1>5, <1>6, <3>2
  <2>2. ~(f < o)
    <3>1. SUFFICES ASSUME f < o PROVE FALSE OBVIOUS
    <3>2. f \in i+1..o-1 BY <1>1, <1>4, <3>1
    <3> QED BY <1>5, <1>6, <3>2
  <2>3. f = o BY <1>1, <1>4, <2>1, <2>2
  <2> QED BY <1>7, <2>3, BlockUpTo
<1>11. CASE o < a /\ e # Len(t)
  <2>1. Braces(t, o, e) = 0 /\ \A m \in o..e-1 : Braces(t, o, m) > 0 BY <1>11 DEF Block
  <2>2. \A m \in 1..Len(t) : t[m] # "attr_open" BY DEF PlainIn
  <2>3. LiveIn(t, e) /\ t[e] = "close"
    <3>1. PICK d \in Nat : d = e - 1 /\ e = d + 1 /\ o <= d BY <1>1, <1>4, <1>11
    <3>2. Braces(t, o, d) > 0 BY <2>1, <3>1, <1>1
    <3>3. t[d+1] # "attr_open" BY <1>1, <2>2, <3>1
    <3>4. o <= d + 1 BY <1>1, <3>1
    <3>5. Braces(t, o, d + 1) < Braces(t, o, d) => LiveIn(t, d + 1) /\ t[d+1] = "close" BY <1>1, <3>1, <3>3, <3>4, BracesMore
    <3>6. Braces(t, o, d) \in Int BY <1>1, <3>1, BracesInt
    <3> QED BY <2>1, <3>1, <3>2, <3>5, <3>6
  <2>4. f < e
    <3>1. SUFFICES ASSUME ~(f < e) PROVE FALSE OBVIOUS
    <3>2. f # e BY <1>5, <2>3
    <3>3. a # e BY <1>2, <2>3
    <3>4. e \in a+1..f-1 BY <1>1, <1>4, <3>1, <3>2, <3>3
    <3> QED BY <1>5, <2>3, <3>4
  <2>5. PICK g \in Nat : g = f - 1 /\ f = g + 1 /\ o <= g /\ g \in o..e-1 BY <1>1, <1>4, <1>11, <2>4
  <2>6. PICK c \in Int : c = Braces(t, o, g) BY <1>1, <2>5, BracesInt
  <2>7. c > 0 BY <2>1, <2>5, <2>6
  <2>8. Braces(t, o, f) = c + 1
    <3>1. t[g+1] # "attr_open" /\ o <= g + 1 BY <1>1, <1>5, <2>5
    <3>2. LiveIn(t, g + 1) /\ t[g+1] = "open" => Braces(t, o, g + 1) = Braces(t, o, g) + 1 BY <1>1, <2>5, <3>1, BracesMore
    <3> QED BY <1>5, <2>5, <2>6, <3>2
  <2> DEFINE T == {k \in Nat : k \in f..e /\ Braces(t, o, k) <= c}
  <2>9. T \subseteq Nat /\ T # {}
    <3>1. e \in f..e /\ Braces(t, o, e) <= c BY <1>1, <1>4, <2>1, <2>4, <2>7
    <3> QED BY <1>1, <3>1
  <2>10. PICK k \in T : \A m \in T : k <= m
    <3> HIDE DEF T
    <3> QED BY <2>9, LeastNat
  <2>11. k \in Nat /\ k \in f..e /\ Braces(t, o, k) <= c OBVIOUS
  <2>12. k # f BY <2>6, <2>8, <2>11
  <2>13. PICK h \in Nat : h = k - 1 /\ k = h + 1 /\ h \in f..e /\ o <= h BY <1>1, <1>4, <2>5, <2>11, <2>12
  <2>14. ~(Braces(t, o, h) <= c)
    <3>1. ~(k <= h) BY <2>11, <2>13
    <3> QED BY <2>10, <2>13, <3>1
  <2>15. Braces(t, o, k) = c
    <3>1. t[h+1] # "attr_open" /\ o <= h + 1
      <4>1. h + 1 \in 1..Len(t) BY <1>1, <1>4, <2>11, <2>13
      <4> QED BY <1>1, <2>2, <2>13, <4>1
    <3>2. Braces(t, o, h + 1) >= Braces(t, o, h) - 1 BY <1>1, <2>13, <3>1, BracesMore
    <3>3. Braces(t, o, h) \in Int /\ Braces(t, o, k) \in Int BY <1>1, <2>11, <2>13, BracesInt
    <3> QED BY <2>6, <2>11, <2>13, <2>14, <3>2, <3>3
  <2>16. Braces(t, f, k) = 0
    <3>1. g <= k /\ o <= g + 1 BY <1>1, <2>5, <2>11
    <3>2. Braces(t, o, k) = Braces(t, o, g) + Braces(t, g + 1, k)
      <4>1. o \in Nat /\ g \in Nat /\ k \in Nat BY <1>1, <2>11
      <4> HIDE DEF T
      <4> QED BY <3>1, <4>1, BracesSplit
    <3>3. Braces(t, f, k) \in Int BY <1>4, <2>11, BracesInt
    <3> QED BY <2>5, <2>6, <2>15, <3>2, <3>3
  <2>17. k \in ClosedIn(t, f)
    <3>1. ClosedIn(t, f) = {m \in f..Len(t) : Braces(t, f, m) = 0} BY <1>4, ClosedBraces
    <3>2. k \in f..Len(t) BY <1>1, <1>4, <2>11
    <3> QED BY <2>16, <3>1, <3>2
  <2>18. n <= k BY <1>7, <2>17
  <2> QED BY <1>1, <1>4, <1>7, <2>11, <2>18
<1>12. a # o BY <1>2, <1>6
<1> QED BY <1>1, <1>4, <1>9, <1>10, <1>11, <1>12

(* The scanner: the lines up to the one it has reached. *)
Spans == Seq(Nat \X Nat)
CodeType == [phase : {"scan", "seek", "walk"}, i : Nat, j : Nat, k : Nat, end : Nat, depth : Int,
             comment : BOOLEAN, inner : BOOLEAN, ranges : Spans]
Skipped(ranges, n) == \E r \in 1..Len(ranges) : ranges[r][1] <= n /\ n <= ranges[r][2]
RangesApart(t, ranges, i) ==
    \A r \in 1..Len(ranges) : /\ IsCfgTestAttribute(t[ranges[r][1]]) /\ ranges[r][2] < i
                              /\ r > 1 => ranges[r-1][2] < ranges[r][1]
Shaped(t, s) ==
    /\ s.i >= 1 /\ RangesApart(t, s.ranges, s.i)
    /\ s.phase # "scan" => s.i <= Len(t) /\ IsCfgTestAttribute(t[s.i])
    /\ s.phase = "seek" => s.j >= s.i + 1
    /\ s.phase = "walk" => s.k = s.end + 1 /\ s.end >= s.i
FoundSo(t, s) ==
    \A n \in 1..Len(t) : Skipped(s.ranges, n) <=> \E a \in AttrsIn(t) : a < s.i /\ n \in ItemOf(t, a)
Scanning(t, s) == s.phase = "scan" => (s.comment <=> ~LiveIn(t, s.i))
Seeking(t, s) ==
    s.phase = "seek" => /\ s.i \in AttrsIn(t) /\ s.depth = 0 /\ (s.inner <=> ~LiveIn(t, s.j))
                        /\ \E o \in s.i+1..Len(t) : Opener(t, s.i, o) /\ s.j <= o
Walking(t, s) ==
    s.phase = "walk" => /\ s.i \in AttrsIn(t) /\ Opener(t, s.i, s.j) /\ s.k > s.j /\ s.k <= Len(t) + 1
                        /\ s.inner <=> ~LiveIn(t, s.k)
                        /\ s.depth = Braces(t, s.j, s.k - 1) /\ s.depth >= 0
                        /\ \A m \in s.j..s.k-2 : Braces(t, s.j, m) > 0
TestsOf(t, s) ==
    /\ t \in Seq(CodeLine) /\ s \in CodeType /\ Shaped(t, s)
    /\ PlainIn(t) => FoundSo(t, s) /\ Scanning(t, s) /\ Seeking(t, s) /\ Walking(t, s)

LEMMA TestsStarts == ASSUME NEW t \in Seq(CodeLine) PROVE TestsOf(t, CodeStart)
<1>1. CodeStart \in CodeType BY DEF CodeStart, CodeType, Spans
<1>2. CodeStart.i = 1 /\ CodeStart.ranges = <<>> /\ CodeStart.phase = "scan" /\ ~CodeStart.comment BY DEF CodeStart
<1>3. Len(<<>>) = 0 OBVIOUS
<1>4. Shaped(t, CodeStart) BY <1>2, <1>3 DEF Shaped, RangesApart
<1>5. LiveIn(t, 1) BY DEF LiveIn
<1>6. FoundSo(t, CodeStart) BY <1>2, <1>3 DEF FoundSo, Skipped, AttrsIn
<1> QED BY <1>1, <1>2, <1>4, <1>5, <1>6 DEF TestsOf, Scanning, Seeking, Walking

LEMMA StrippedLine ==
    ASSUME NEW line, NEW open \in BOOLEAN
    PROVE  /\ IsCfgTestAttribute(StripComments(line, open)) <=> ~open /\ IsCfgTestAttribute(line)
           /\ StillOpen(line, open) \in BOOLEAN
           /\ \A d \in Int : ProcessLine(d, StripComments(line, open)) \in Int
<1>1. IsCfgTestAttribute(StripComments(line, open)) <=> ~open /\ IsCfgTestAttribute(line) BY DEF IsCfgTestAttribute, StripComments
<1>2. StillOpen(line, open) \in BOOLEAN BY DEF StillOpen
<1>3. ASSUME NEW d \in Int, NEW l PROVE ProcessLine(d, l) \in Int
  <2>1. CASE l \in {"attr_open", "open"} BY <2>1 DEF ProcessLine
  <2>2. CASE l = "close" BY <2>2 DEF ProcessLine
  <2>3. CASE l \notin {"attr_open", "open", "close"} BY <2>3 DEF ProcessLine
  <2> QED BY <2>1, <2>2, <2>3
<1> QED BY <1>1, <1>2, <1>3

LEMMA ScanLineKeeps ==
    ASSUME NEW t, t = text, TestsOf(t, scan), NEW v, v = scan', ScanLine PROVE TestsOf(t, v)
<1>1. PICK s : s = scan OBVIOUS
<1>2. t \in Seq(CodeLine) /\ s \in CodeType /\ Shaped(t, s) /\ Len(t) \in Nat BY <1>1 DEF TestsOf
<1>3. s.phase = "scan" /\ s.i \in Nat /\ s.i >= 1 /\ s.i <= Len(t) BY <1>1, <1>2, Zenon DEF ScanLine, Shaped, CodeType
<1>4. PICK line, open, deep : line = StripComments(t[s.i], s.comment) /\ open = StillOpen(t[s.i], s.comment) /\ deep = ProcessLine(0, line)
  OBVIOUS
<1>5. s.comment \in BOOLEAN BY <1>2 DEF CodeType
<1>6. open \in BOOLEAN /\ deep \in Int /\ (IsCfgTestAttribute(line) <=> ~s.comment /\ IsCfgTestAttribute(t[s.i]))
  BY <1>4, <1>5, StrippedLine
<1>7. v = IF ~IsCfgTestAttribute(line) THEN [s EXCEPT !.i = s.i + 1, !.comment = open]
          ELSE [s EXCEPT !.comment = open, !.inner = open, !.depth = deep, !.j = s.i + 1, !.end = s.i + 1, !.k = s.i + 2,
                         !.phase = IF deep > 0 THEN "walk" ELSE "seek"]
  BY <1>1, <1>2, <1>4 DEF ScanLine, CodeType
<1>8. RangesApart(t, s.ranges, s.i) BY <1>2 DEF Shaped
<1>9. CASE ~IsCfgTestAttribute(line)
  <2>1. v = [s EXCEPT !.i = s.i + 1, !.comment = open] BY <1>7, <1>9
  <2>2. v \in CodeType
    <3>1. s.i + 1 \in Nat BY <1>3
    <3> QED BY <1>2, <1>6, <2>1, <3>1 DEF CodeType
  <2>3. v.phase = "scan" /\ v.i = s.i + 1 /\ v.ranges = s.ranges /\ v.comment = open BY <1>2, <1>3, <2>1 DEF CodeType
  <2>4. Shaped(t, v)
    <3>1. s.ranges \in Seq(Nat \X Nat) BY <1>2 DEF CodeType, Spans
    <3>2. \A r \in 1..Len(s.ranges) : s.ranges[r][2] \in Nat BY <3>1
    <3>3. RangesApart(t, s.ranges, s.i + 1) BY <1>3, <1>8, <3>2 DEF RangesApart
    <3> QED BY <1>3, <2>3, <3>3 DEF Shaped
  <2>5. ASSUME PlainIn(t) PROVE FoundSo(t, v) /\ Scanning(t, v)
    <3>1. FoundSo(t, s) /\ (s.comment <=> ~LiveIn(t, s.i)) BY <1>1, <1>3, <2>5 DEF TestsOf, Scanning
    <3>2. LiveIn(t, s.i + 1) <=> ~StillOpen(t[s.i], ~LiveIn(t, s.i)) BY <1>3, LiveMore
    <3>3. s.comment = ~LiveIn(t, s.i) BY <1>5, <3>1 DEF LiveIn
    <3>4. Scanning(t, v) BY <1>4, <1>6, <2>3, <3>2, <3>3 DEF Scanning
    <3>5. s.i \notin AttrsIn(t) BY <1>6, <1>9, <3>1 DEF AttrsIn, IsCfgTestAttribute
    <3>6. \A a \in AttrsIn(t) : a < s.i + 1 <=> a < s.i
      <4> TAKE a \in AttrsIn(t)
      <4>1. a \in Nat /\ a # s.i BY <3>5 DEF AttrsIn
      <4> QED BY <1>3, <4>1
    <3>7. FoundSo(t, v) BY <2>3, <3>1, <3>6 DEF FoundSo
    <3> QED BY <3>4, <3>7
  <2> QED BY <1>2, <2>2, <2>3, <2>4, <2>5 DEF TestsOf, Seeking, Walking
<1>10. CASE IsCfgTestAttribute(line)
  <2>1. v = [s EXCEPT !.comment = open, !.inner = open, !.depth = deep, !.j = s.i + 1, !.end = s.i + 1, !.k = s.i + 2,
                      !.phase = IF deep > 0 THEN "walk" ELSE "seek"]
    BY <1>7, <1>10
  <2>2. v \in CodeType
    <3>1. s.i + 1 \in Nat /\ s.i + 2 \in Nat BY <1>3
    <3>2. (IF deep > 0 THEN "walk" ELSE "seek") \in {"scan", "seek", "walk"} OBVIOUS
    <3> QED BY <1>2, <1>6, <2>1, <3>1, <3>2 DEF CodeType
  <2>3. /\ v.phase = (IF deep > 0 THEN "walk" ELSE "seek") /\ v.i = s.i /\ v.ranges = s.ranges /\ v.inner = open
        /\ v.depth = deep /\ v.j = s.i + 1 /\ v.end = s.i + 1 /\ v.k = s.i + 2
    BY <1>2, <2>1 DEF CodeType
  <2>4. Shaped(t, v) BY <1>3, <1>6, <1>8, <1>10, <2>3 DEF Shaped
  <2>5. ASSUME PlainIn(t) PROVE FoundSo(t, v) /\ Seeking(t, v) /\ v.phase = "seek"
    <3>1. FoundSo(t, s) /\ (s.comment <=> ~LiveIn(t, s.i)) BY <1>1, <1>3, <2>5 DEF TestsOf, Scanning
    <3>2. LiveIn(t, s.i + 1) <=> ~StillOpen(t[s.i], ~LiveIn(t, s.i)) BY <1>3, LiveMore
    <3>3. s.comment = ~LiveIn(t, s.i) BY <1>5, <3>1 DEF LiveIn
    <3>4. t[s.i] = "attr" /\ LiveIn(t, s.i) BY <1>3, <1>6, <1>10, <2>5, <3>1 DEF IsCfgTestAttribute, PlainIn
    <3>5. s.i \in AttrsIn(t) BY <1>3, <3>4 DEF AttrsIn
    <3>6. deep = 0 BY <1>4, <3>1, <3>4 DEF ProcessLine, StripComments
    <3>7. PICK o \in s.i+1..Len(t) : Opener(t, s.i, o) BY <2>5, <3>5 DEF PlainIn
    <3>8. v.phase = "seek" BY <2>3, <3>6
    <3>9. v.j <= o BY <1>3, <2>3
    <3>10. v.inner <=> ~LiveIn(t, v.j) BY <1>4, <1>6, <2>3, <3>2, <3>3
    <3>11. Seeking(t, v) BY <2>3, <3>5, <3>6, <3>7, <3>9, <3>10 DEF Seeking
    <3>12. FoundSo(t, v) BY <2>3, <3>1 DEF FoundSo
    <3> QED BY <3>8, <3>11, <3>12
  <2> QED BY <1>2, <2>2, <2>4, <2>5 DEF TestsOf, Scanning, Walking
<1> QED BY <1>9, <1>10

LEMMA SeekOpenerKeeps ==
    ASSUME NEW t, t = text, TestsOf(t, scan), NEW v, v = scan', SeekOpener PROVE TestsOf(t, v)
<1>1. PICK s : s = scan OBVIOUS
<1>2. t \in Seq(CodeLine) /\ s \in CodeType /\ Shaped(t, s) /\ Len(t) \in Nat BY <1>1 DEF TestsOf
<1>3. s.phase = "seek" /\ s.j <= Len(t) BY <1>1 DEF SeekOpener
<1>4. s.i \in Nat /\ s.j \in Nat /\ s.i >= 1 /\ s.j >= s.i + 1 /\ s.i <= Len(t) /\ IsCfgTestAttribute(t[s.i]) /\ RangesApart(t, s.ranges, s.i)
  BY <1>2, <1>3 DEF Shaped, CodeType
<1>5. s.inner \in BOOLEAN /\ s.depth \in Int BY <1>2 DEF CodeType
<1>6. PICK open, deep : open = StillOpen(t[s.j], s.inner) /\ deep = ProcessLine(s.depth, StripComments(t[s.j], s.inner)) OBVIOUS
<1>7. open \in BOOLEAN /\ deep \in Int BY <1>5, <1>6, StrippedLine
<1>8. v = [s EXCEPT !.depth = deep, !.inner = open, !.j = IF deep > 0 THEN s.j ELSE s.j + 1, !.end = s.j, !.k = s.j + 1,
                    !.phase = IF deep > 0 THEN "walk" ELSE "seek"]
  BY <1>1, <1>2, <1>6 DEF SeekOpener, CodeType
<1>9. v \in CodeType
  <2>1. s.j + 1 \in Nat /\ s.j \in Nat /\ (IF deep > 0 THEN s.j ELSE s.j + 1) \in Nat BY <1>4
  <2>2. (IF deep > 0 THEN "walk" ELSE "seek") \in {"scan", "seek", "walk"} OBVIOUS
  <2> QED BY <1>2, <1>7, <1>8, <2>1, <2>2 DEF CodeType
<1>10. /\ v.phase = (IF deep > 0 THEN "walk" ELSE "seek") /\ v.i = s.i /\ v.ranges = s.ranges /\ v.inner = open
       /\ v.depth = deep /\ v.j = (IF deep > 0 THEN s.j ELSE s.j + 1) /\ v.end = s.j /\ v.k = s.j + 1
  BY <1>2, <1>8 DEF CodeType
<1>11. Shaped(t, v) BY <1>4, <1>7, <1>10 DEF Shaped
<1>12. ASSUME PlainIn(t) PROVE FoundSo(t, v) /\ Seeking(t, v) /\ Walking(t, v)
  <2>1. FoundSo(t, s) /\ s.i \in AttrsIn(t) /\ s.depth = 0 /\ (s.inner <=> ~LiveIn(t, s.j))
    BY <1>1, <1>3, <1>12 DEF TestsOf, Seeking
  <2>2. PICK o \in s.i+1..Len(t) : Opener(t, s.i, o) /\ s.j <= o BY <1>1, <1>3, <1>12 DEF TestsOf, Seeking
  <2>3. s.inner = ~LiveIn(t, s.j) BY <1>5, <2>1 DEF LiveIn
  <2>4. LiveIn(t, s.j + 1) <=> ~StillOpen(t[s.j], ~LiveIn(t, s.j))
    <3>1. s.j \in Nat /\ s.j >= 1 BY <1>4
    <3> QED BY <3>1, LiveMore
  <2>5. open <=> ~LiveIn(t, s.j + 1) BY <1>6, <1>7, <2>3, <2>4
  <2>6. FoundSo(t, v) BY <1>10, <2>1 DEF FoundSo
  <2>7. t[s.j] # "attr_open" BY <1>3, <1>4, <1>12 DEF PlainIn
  <2>8. CASE s.j = o
    <3>1. LiveIn(t, s.j) /\ t[s.j] = "open" BY <2>2, <2>8 DEF Opener
    <3>2. deep = 1 BY <1>6, <2>1, <3>1 DEF ProcessLine, StripComments
    <3>3. v.phase = "walk" /\ v.j = s.j /\ v.k = s.j + 1 /\ v.depth = 1 /\ v.i = s.i BY <1>10, <3>2
    <3>4. Braces(t, s.j, s.j) = 1
      <4>1. PICK b \in Nat : s.j = b + 1 BY <1>4
      <4>2. s.j <= b + 1 BY <1>4, <4>1
      <4>3. Braces(t, s.j, b + 1) = Braces(t, s.j, b) + 1 BY <1>4, <2>7, <3>1, <4>1, <4>2, BracesMore
      <4>4. Marks(t, s.j, b, "open") = {} /\ Marks(t, s.j, b, "close") = {} BY <4>1 DEF Marks
      <4>5. MarkCount(t, s.j, b, "open") = 0 /\ MarkCount(t, s.j, b, "close") = 0 BY <4>4, FS_EmptySet DEF MarkCount
      <4>6. Braces(t, s.j, b) = 0 BY <4>5 DEF Braces
      <4> QED BY <4>1, <4>3, <4>6
    <3>5. v.k - 1 = s.j /\ v.k > v.j /\ v.k <= Len(t) + 1 /\ v.j..v.k-2 = {} BY <1>3, <1>4, <1>2, <3>3
    <3>6. v.depth = Braces(t, v.j, v.k - 1) /\ v.depth >= 0 BY <3>3, <3>4, <3>5
    <3>7. v.inner <=> ~LiveIn(t, v.k) BY <1>10, <2>5
    <3>8. Opener(t, v.i, v.j) /\ v.i \in AttrsIn(t) BY <2>1, <2>2, <2>8, <3>3
    <3>9. Walking(t, v) BY <3>5, <3>6, <3>7, <3>8 DEF Walking
    <3> QED BY <2>6, <3>3, <3>9 DEF Seeking
  <2>9. CASE s.j # o
    <3>1. s.j \in s.i+1..o-1 BY <1>4, <2>2, <2>9
    <3>2. LiveIn(t, s.j) => t[s.j] \in {"attr", "begin", "end"} BY <2>2, <3>1 DEF Opener
    <3>3. deep = 0
      <4>1. CASE LiveIn(t, s.j)
        <5>1. StripComments(t[s.j], s.inner) \in {"attr", "begin", "end"} BY <2>1, <3>2, <4>1 DEF StripComments
        <5> QED BY <1>6, <2>1, <5>1 DEF ProcessLine
      <4>2. CASE ~LiveIn(t, s.j)
        <5>1. StripComments(t[s.j], s.inner) = "blank" BY <2>1, <4>2 DEF StripComments
        <5> QED BY <1>6, <2>1, <5>1 DEF ProcessLine
      <4> QED BY <4>1, <4>2
    <3>4. v.phase = "seek" /\ v.j = s.j + 1 /\ v.depth = 0 /\ v.i = s.i /\ v.inner = open BY <1>10, <3>3
    <3>5. v.j <= o BY <3>1, <3>4
    <3>6. Seeking(t, v) BY <2>1, <2>2, <2>5, <3>4, <3>5 DEF Seeking
    <3> QED BY <2>6, <3>4, <3>6 DEF Walking
  <2> QED BY <2>8, <2>9
<1>13. v.phase # "scan" BY <1>10
<1> QED BY <1>2, <1>9, <1>11, <1>12, <1>13 DEF TestsOf, Scanning

LEMMA SkipAttributeKeeps ==
    ASSUME NEW t, t = text, TestsOf(t, scan), NEW v, v = scan', SkipAttribute PROVE TestsOf(t, v)
<1>1. PICK s : s = scan OBVIOUS
<1>2. t \in Seq(CodeLine) /\ s \in CodeType /\ Shaped(t, s) /\ Len(t) \in Nat BY <1>1 DEF TestsOf
<1>3. s.phase = "seek" /\ s.j > Len(t) BY <1>1 DEF SkipAttribute
<1>4. s.i \in Nat /\ s.j \in Nat /\ s.i >= 1 /\ RangesApart(t, s.ranges, s.i) BY <1>2 DEF Shaped, CodeType
<1>5. v = [s EXCEPT !.phase = "scan", !.i = s.i + 1] BY <1>1, <1>2 DEF SkipAttribute, CodeType
<1>6. v \in CodeType
  <2>1. s.i + 1 \in Nat BY <1>4
  <2> QED BY <1>2, <1>5, <2>1 DEF CodeType
<1>7. v.phase = "scan" /\ v.i = s.i + 1 /\ v.ranges = s.ranges BY <1>2, <1>5 DEF CodeType
<1>8. Shaped(t, v)
  <2>1. s.ranges \in Seq(Nat \X Nat) BY <1>2 DEF CodeType, Spans
  <2>2. \A r \in 1..Len(s.ranges) : s.ranges[r][2] \in Nat BY <2>1
  <2>3. RangesApart(t, s.ranges, s.i + 1) BY <1>4, <2>2 DEF RangesApart
  <2> QED BY <1>4, <1>7, <2>3 DEF Shaped
\* In a plain file the opener is found.
<1>9. ~PlainIn(t)
  <2>1. SUFFICES ASSUME PlainIn(t) PROVE FALSE OBVIOUS
  <2>2. PICK o \in s.i+1..Len(t) : s.j <= o BY <1>1, <1>3, <2>1 DEF TestsOf, Seeking
  <2> QED BY <1>2, <1>3, <1>4, <2>2
<1> QED BY <1>2, <1>6, <1>8, <1>9 DEF TestsOf

LEMMA WalkBlockKeeps ==
    ASSUME NEW t, t = text, TestsOf(t, scan), NEW v, v = scan', WalkBlock PROVE TestsOf(t, v)
<1>1. PICK s : s = scan OBVIOUS
<1>2. t \in Seq(CodeLine) /\ s \in CodeType /\ Shaped(t, s) /\ Len(t) \in Nat BY <1>1 DEF TestsOf
<1>3. s.phase = "walk" /\ s.depth > 0 /\ s.k <= Len(t) BY <1>1 DEF WalkBlock
<1>4. /\ s.i \in Nat /\ s.k \in Nat /\ s.j \in Nat /\ s.end \in Nat /\ s.i >= 1 /\ s.k = s.end + 1 /\ s.end >= s.i
      /\ s.i <= Len(t) /\ IsCfgTestAttribute(t[s.i]) /\ RangesApart(t, s.ranges, s.i)
  BY <1>2, <1>3 DEF Shaped, CodeType
<1>5. s.inner \in BOOLEAN /\ s.depth \in Int BY <1>2 DEF CodeType
<1>6. PICK open, deep : open = StillOpen(t[s.k], s.inner) /\ deep = ProcessLine(s.depth, StripComments(t[s.k], s.inner)) OBVIOUS
<1>7. open \in BOOLEAN /\ deep \in Int BY <1>5, <1>6, StrippedLine
<1>8. v = [s EXCEPT !.depth = deep, !.inner = open, !.end = s.k, !.k = s.k + 1] BY <1>1, <1>2, <1>6 DEF WalkBlock, CodeType
<1>9. v \in CodeType
  <2>1. s.k + 1 \in Nat /\ s.k \in Nat BY <1>4
  <2> QED BY <1>2, <1>7, <1>8, <2>1 DEF CodeType
<1>10. /\ v.phase = "walk" /\ v.i = s.i /\ v.ranges = s.ranges /\ v.inner = open
       /\ v.depth = deep /\ v.j = s.j /\ v.end = s.k /\ v.k = s.k + 1
  BY <1>2, <1>3, <1>8 DEF CodeType
<1>11. Shaped(t, v) BY <1>4, <1>10 DEF Shaped
<1>12. ASSUME PlainIn(t) PROVE FoundSo(t, v) /\ Walking(t, v)
  <2>1. FoundSo(t, s) BY <1>1, <1>12 DEF TestsOf
  <2>2. /\ s.i \in AttrsIn(t) /\ Opener(t, s.i, s.j) /\ s.k > s.j /\ (s.inner <=> ~LiveIn(t, s.k))
        /\ s.depth = Braces(t, s.j, s.k - 1) /\ \A m \in s.j..s.k-2 : Braces(t, s.j, m) > 0
    BY <1>1, <1>3, <1>12 DEF TestsOf, Walking
  <2>3. FoundSo(t, v) BY <1>10, <2>1 DEF FoundSo
  <2>4. s.inner = ~LiveIn(t, s.k) BY <1>5, <2>2 DEF LiveIn
  <2>5. LiveIn(t, s.k + 1) <=> ~StillOpen(t[s.k], ~LiveIn(t, s.k))
    <3>1. s.k \in Nat /\ s.k >= 1 BY <1>4
    <3> QED BY <3>1, LiveMore
  <2>6. v.inner <=> ~LiveIn(t, v.k) BY <1>6, <1>7, <1>10, <2>4, <2>5
  <2>7. PICK b \in Nat : b = s.k - 1 /\ s.k = b + 1 BY <1>4
  <2>8. t[b+1] # "attr_open" BY <1>3, <1>4, <1>12, <2>7 DEF PlainIn
  <2>9. s.j <= b + 1 BY <1>4, <2>2, <2>7
  <2>10. /\ Braces(t, s.j, b + 1) = ProcessLine(Braces(t, s.j, b), StripComments(t[b+1], ~LiveIn(t, b + 1)))
         /\ Braces(t, s.j, b + 1) >= Braces(t, s.j, b) - 1
    BY <1>4, <2>8, <2>9, BracesMore
  <2>11. deep = Braces(t, s.j, s.k) BY <1>6, <2>2, <2>4, <2>7, <2>10
  <2>12. deep >= 0 BY <1>3, <1>5, <1>7, <2>2, <2>7, <2>10, <2>11
  <2>13. v.k - 1 = s.k /\ v.k - 2 = s.k - 1 /\ v.k > v.j /\ v.k <= Len(t) + 1 BY <1>2, <1>3, <1>4, <1>10, <2>2
  <2>14. \A m \in v.j..v.k-2 : Braces(t, v.j, m) > 0
    <3> TAKE m \in v.j..v.k-2
    <3>1. m \in s.j..s.k-1 BY <1>10, <2>13
    <3>2. CASE m = s.k - 1 BY <1>3, <1>10, <2>2, <3>2
    <3>3. CASE m # s.k - 1
      <4>1. m \in s.j..s.k-2 BY <1>4, <3>1, <3>3
      <4> QED BY <1>10, <2>2, <4>1
    <3> QED BY <3>2, <3>3
  <2>15. v.depth = Braces(t, v.j, v.k - 1) /\ v.depth >= 0 BY <1>10, <2>11, <2>12, <2>13
  <2>16. v.i \in AttrsIn(t) /\ Opener(t, v.i, v.j) BY <1>10, <2>2
  <2>17. Walking(t, v) BY <2>6, <2>13, <2>14, <2>15, <2>16 DEF Walking
  <2> QED BY <2>3, <2>17
<1> QED BY <1>2, <1>9, <1>10, <1>11, <1>12 DEF TestsOf, Scanning, Seeking

LEMMA EndBlockKeeps ==
    ASSUME NEW t, t = text, TestsOf(t, scan), NEW v, v = scan', EndBlock PROVE TestsOf(t, v)
<1>1. PICK s : s = scan OBVIOUS
<1>2. t \in Seq(CodeLine) /\ s \in CodeType /\ Shaped(t, s) /\ Len(t) \in Nat BY <1>1 DEF TestsOf
<1>3. s.phase = "walk" /\ (s.depth <= 0 \/ s.k > Len(t)) BY <1>1 DEF EndBlock
<1>4. /\ s.i \in Nat /\ s.k \in Nat /\ s.j \in Nat /\ s.end \in Nat /\ s.i >= 1 /\ s.k = s.end + 1 /\ s.end >= s.i
      /\ s.i <= Len(t) /\ IsCfgTestAttribute(t[s.i]) /\ RangesApart(t, s.ranges, s.i) /\ s.ranges \in Seq(Nat \X Nat)
  BY <1>2, <1>3 DEF Shaped, CodeType, Spans
<1>5. PICK next \in Nat : next = NextLine(s) /\ next >= s.k /\ (s.k > s.j => next = s.k) BY <1>4 DEF NextLine
<1>6. PICK rs : rs = Append(s.ranges, <<s.i, s.end>>) OBVIOUS
<1>7. v = [s EXCEPT !.ranges = rs, !.i = next, !.comment = s.inner, !.phase = "scan"] BY <1>1, <1>2, <1>5, <1>6 DEF EndBlock, CodeType
<1>8. /\ rs \in Seq(Nat \X Nat) /\ Len(s.ranges) \in Nat /\ Len(rs) = Len(s.ranges) + 1 /\ rs[Len(rs)] = <<s.i, s.end>>
      /\ \A r \in 1..Len(s.ranges) : rs[r] = s.ranges[r]
  <2>1. <<s.i, s.end>> \in Nat \X Nat BY <1>4
  <2> QED BY <1>4, <1>6, <2>1, ReadMore
<1>9. v \in CodeType
  <2>1. rs \in Spans BY <1>8 DEF Spans
  <2> QED BY <1>2, <1>5, <1>7, <2>1 DEF CodeType
<1>10. v.phase = "scan" /\ v.i = next /\ v.ranges = rs /\ v.comment = s.inner BY <1>2, <1>7 DEF CodeType
<1>11. Shaped(t, v)
  <2>1. RangesApart(t, rs, next)
    <3>1. SUFFICES ASSUME NEW r \in 1..Len(rs)
                   PROVE  IsCfgTestAttribute(t[rs[r][1]]) /\ rs[r][2] < next /\ (r > 1 => rs[r-1][2] < rs[r][1])
      BY DEF RangesApart
    <3>2. CASE r = Len(rs)
      <4>1. rs[r][1] = s.i /\ rs[r][2] = s.end BY <1>8, <3>2
      <4>2. IsCfgTestAttribute(t[rs[r][1]]) /\ rs[r][2] < next BY <1>4, <1>5, <4>1
      <4>3. ASSUME r > 1 PROVE rs[r-1][2] < rs[r][1]
        <5>0. r \in Nat /\ r = Len(s.ranges) + 1 /\ Len(s.ranges) \in Nat BY <1>8, <3>2
        <5>1. r - 1 \in 1..Len(s.ranges) BY <4>3, <5>0
        <5>2. rs[r-1] = s.ranges[r-1] BY <1>8, <5>1
        <5>3. s.ranges[r-1][2] < s.i BY <1>4, <5>1 DEF RangesApart
        <5> QED BY <4>1, <5>2, <5>3
      <4> QED BY <4>2, <4>3
    <3>3. CASE r # Len(rs)
      <4>1. r \in 1..Len(s.ranges) BY <1>8, <3>3
      <4>2. rs[r] = s.ranges[r] BY <1>8, <4>1
      <4>3. IsCfgTestAttribute(t[s.ranges[r][1]]) /\ s.ranges[r][2] < s.i /\ (r > 1 => s.ranges[r-1][2] < s.ranges[r][1])
        BY <1>4, <4>1 DEF RangesApart
      <4>4. ASSUME r > 1 PROVE rs[r-1] = s.ranges[r-1]
        <5>0. r \in Nat /\ r <= Len(s.ranges) /\ Len(s.ranges) \in Nat BY <1>8, <4>1
        <5>1. r - 1 \in 1..Len(s.ranges) BY <4>4, <5>0
        <5> QED BY <1>8, <5>1
      <4>5. s.ranges[r][2] \in Nat
        <5>1. s.ranges[r] \in Nat \X Nat BY <1>4, <4>1
        <5> QED BY <5>1
      <4>6. s.ranges[r][2] < next
        <5>1. \A x \in Nat : x < s.i => x < next BY <1>4, <1>5
        <5> QED BY <4>3, <4>5, <5>1
      <4> QED BY <4>2, <4>3, <4>4, <4>6
    <3> QED BY <3>2, <3>3
  <2>2. next >= 1 BY <1>4, <1>5
  <2> QED BY <1>10, <2>1, <2>2 DEF Shaped
<1>12. ASSUME PlainIn(t) PROVE FoundSo(t, v) /\ Scanning(t, v)
  <2>1. FoundSo(t, s) BY <1>1, <1>12 DEF TestsOf
  <2>2. /\ s.i \in AttrsIn(t) /\ Opener(t, s.i, s.j) /\ s.k > s.j /\ s.k <= Len(t) + 1 /\ (s.inner <=> ~LiveIn(t, s.k))
        /\ s.depth = Braces(t, s.j, s.k - 1) /\ s.depth >= 0 /\ \A m \in s.j..s.k-2 : Braces(t, s.j, m) > 0
    BY <1>1, <1>3, <1>12 DEF TestsOf, Walking
  <2>3. next = s.k /\ s.k - 1 = s.end /\ s.k - 2 = s.end - 1 BY <1>4, <1>5, <2>2
  <2>4. Scanning(t, v) BY <1>10, <2>2, <2>3 DEF Scanning
  <2>5. Block(t, s.i, s.j, s.end)
    <3>1. s.end \in s.j..Len(t) BY <1>2, <1>4, <2>2
    <3>2. s.depth \in Int BY <1>2 DEF CodeType
    <3>3. Braces(t, s.j, s.end) = 0 \/ s.end = Len(t)
      <4>1. CASE s.depth <= 0 BY <2>2, <2>3, <3>2, <4>1
      <4>2. CASE s.k > Len(t) BY <1>2, <1>4, <2>2, <4>2
      <4> QED BY <1>3, <4>1, <4>2
    <3> QED BY <2>2, <2>3, <3>1, <3>3 DEF Block
  <2>6. ItemOf(t, s.i) = s.i..s.end BY <1>2, <2>5, BlockItem
  <2>7. FoundSo(t, v)
    <3>1. SUFFICES ASSUME NEW n \in 1..Len(t)
                   PROVE  Skipped(rs, n) <=> \E a \in AttrsIn(t) : a < next /\ n \in ItemOf(t, a)
      BY <1>10 DEF FoundSo
    <3>2. Skipped(s.ranges, n) <=> \E a \in AttrsIn(t) : a < s.i /\ n \in ItemOf(t, a) BY <2>1 DEF FoundSo
    <3>3. Skipped(rs, n) <=> Skipped(s.ranges, n) \/ n \in s.i..s.end
      <4>1. rs[Len(rs)][1] = s.i /\ rs[Len(rs)][2] = s.end BY <1>8
      <4>2. ASSUME Skipped(rs, n) PROVE Skipped(s.ranges, n) \/ n \in s.i..s.end
        <5>1. PICK r \in 1..Len(rs) : rs[r][1] <= n /\ n <= rs[r][2] BY <4>2 DEF Skipped
        <5>2. CASE r = Len(rs) BY <1>4, <4>1, <5>1, <5>2
        <5>3. CASE r # Len(rs)
          <6>1. r \in 1..Len(s.ranges) BY <1>8, <5>3
          <6> QED BY <1>8, <5>1, <6>1 DEF Skipped
        <5> QED BY <5>2, <5>3
      <4>3. ASSUME Skipped(s.ranges, n) PROVE Skipped(rs, n)
        <5>1. PICK r \in 1..Len(s.ranges) : s.ranges[r][1] <= n /\ n <= s.ranges[r][2] BY <4>3 DEF Skipped
        <5>2. r \in 1..Len(rs) /\ rs[r] = s.ranges[r] BY <1>8
        <5> QED BY <5>1, <5>2 DEF Skipped
      <4>4. ASSUME n \in s.i..s.end PROVE Skipped(rs, n)
        <5>1. Len(rs) \in 1..Len(rs) BY <1>8
        <5> QED BY <1>4, <4>1, <4>4, <5>1 DEF Skipped
      <4> QED BY <4>2, <4>3, <4>4
    <3>4. ASSUME NEW a \in AttrsIn(t), a < next, n \in ItemOf(t, a) PROVE Skipped(rs, n)
      <4>1. a \in Nat BY DEF AttrsIn
      <4>2. CASE a < s.i BY <3>2, <3>3, <3>4, <4>2
      <4>3. CASE ~(a < s.i)
        <5>1. s.i <= a /\ a <= s.end BY <1>4, <2>3, <3>4, <4>1, <4>3
        <5>2. n \in s.i..s.end BY <1>2, <1>12, <2>5, <3>4, <5>1, BlockNested
        <5> QED BY <3>3, <5>2
      <4> QED BY <4>2, <4>3
    <3>5. ASSUME Skipped(rs, n) PROVE \E a \in AttrsIn(t) : a < next /\ n \in ItemOf(t, a)
      <4>1. CASE n \in s.i..s.end
        <5>1. s.i < next BY <1>4, <1>5
        <5> QED BY <2>2, <2>6, <4>1, <5>1
      <4>2. CASE Skipped(s.ranges, n)
        <5>1. PICK a \in AttrsIn(t) : a < s.i /\ n \in ItemOf(t, a) BY <3>2, <4>2
        <5>2. a \in Nat BY DEF AttrsIn
        <5>3. a < next BY <1>4, <1>5, <5>1, <5>2
        <5> QED BY <5>1, <5>3
      <4> QED BY <3>3, <3>5, <4>1, <4>2
    <3> QED BY <3>4, <3>5
  <2> QED BY <2>4, <2>7
<1> QED BY <1>2, <1>9, <1>10, <1>11, <1>12 DEF TestsOf, Seeking, Walking

LEMMA TestsHold == ASSUME scanner = "tests", TestsOf(text, scan) PROVE OnlyTestsSkipped
<1>1. PICK t, s : t = text /\ s = scan OBVIOUS
<1>2. t \in Seq(CodeLine) /\ s \in CodeType /\ Shaped(t, s) /\ Len(t) \in Nat BY <1>1 DEF TestsOf
<1>3. \A r \in 1..Len(s.ranges) : IsCfgTestAttribute(t[s.ranges[r][1]]) /\ (r > 1 => s.ranges[r-1][2] < s.ranges[r][1])
  BY <1>2 DEF Shaped, RangesApart
<1>4. ASSUME s.phase = "scan", s.i > Len(t), Plain PROVE {n \in Lines : IsLineInTestBlock(n)} = UNION {TestItem(a) : a \in Attributes}
  <2>1. \A n : Live(n) <=> LiveIn(t, n) BY <1>1 DEF Live, LiveIn
  <2>2. Attributes = AttrsIn(t) BY <1>1, <2>1 DEF Attributes, AttrsIn, Lines
  <2>3. PlainIn(t) BY <1>1, <1>4, <2>1, <2>2 DEF Plain, PlainIn, Opener, Lines
  <2>4. \A a : TestItem(a) = ItemOf(t, a)
    BY <1>1 DEF TestItem, ItemOf, FirstOpen, ClosedIn, MarkCount, Marks, LiveIn, Count, Live, Lines
  <2>5. FoundSo(t, s) BY <1>1, <2>3 DEF TestsOf
  <2>6. \A n \in Lines : IsLineInTestBlock(n) <=> Skipped(s.ranges, n) BY <1>1 DEF IsLineInTestBlock, Skipped
  <2>7. \A a \in AttrsIn(t) : a < s.i
    <3> TAKE a \in AttrsIn(t)
    <3>1. a \in 1..Len(t) BY DEF AttrsIn
    <3>2. s.i \in Nat BY <1>2 DEF CodeType
    <3> QED BY <1>2, <1>4, <3>1, <3>2
  <2>8. \A n \in Lines : IsLineInTestBlock(n) <=> \E a \in AttrsIn(t) : n \in ItemOf(t, a) BY <1>1, <2>5, <2>6, <2>7 DEF FoundSo, Lines
  <2>9. \A a : ItemOf(t, a) \subseteq Lines BY <1>1 DEF ItemOf, Lines
  <2>10. UNION {TestItem(a) : a \in Attributes} = UNION {ItemOf(t, a) : a \in AttrsIn(t)} BY <2>2, <2>4
  <2> QED BY <2>8, <2>9, <2>10
<1> QED BY <1>1, <1>3, <1>4 DEF OnlyTestsSkipped

-----------------------------------------------------------------------------
ScannersInv ==
    /\ scanner \in {"table", "todo", "mirror", "tests", "glob"}
    /\ scanner = "table"  => TableOf(text, scan)
    /\ scanner = "todo"   => TodoOf(text, scan)
    /\ scanner = "mirror" => MirrorOf(text, scan)
    /\ scanner = "tests"  => TestsOf(text, scan)
    /\ scanner = "glob"   => GlobInv

LEMMA ScannersStarts == ASSUME ScannersInit PROVE ScannersInv
<1>1. CASE scanner = "table" /\ text = <<>> /\ scan = TableStart BY <1>1, TableStarts DEF ScannersInv
<1>2. CASE scanner = "todo" /\ text = <<>> /\ scan = TodoStart BY <1>2, TodoStarts DEF ScannersInv
<1>3. CASE scanner = "mirror" /\ text = <<>> /\ scan = MirrorStart BY <1>3, MirrorStarts DEF ScannersInv
<1>4. CASE scanner = "tests" /\ text \in Files(MaxFile, CodeLine) /\ scan = CodeStart
  <2>1. PICK n \in 0..MaxFile : text \in [1..n -> CodeLine] BY <1>4 DEF Files
  <2>2. n \in Nat OBVIOUS
  <2>3. text \in Seq(CodeLine) BY <2>1, <2>2
  <2> QED BY <1>4, <2>3, TestsStarts DEF ScannersInv
<1>5. CASE scanner = "glob" /\ text \in Names(NameChar) \X Names(GlobChar) /\ scan = GlobStart BY <1>5, GlobStarts DEF ScannersInv
<1> QED BY <1>1, <1>2, <1>3, <1>4, <1>5 DEF ScannersInit

LEMMA ScannersSteps == ASSUME ScannersInv, [ScannersNext]_scannersVars PROVE ScannersInv'
<1>1. CASE UNCHANGED scannersVars BY <1>1 DEF ScannersInv, scannersVars, GlobInv, Path, Glob
<1>2. CASE scanner' = scanner /\ ParseTableUnderHeading
  <2>1. PICK line \in TableLine : text' = Append(text, line) /\ scan' = TableRead(scan, line, Len(text) + 1)
    BY <1>2 DEF ParseTableUnderHeading, Read
  <2>2. scanner = "table" /\ TableOf(text, scan) BY <1>2 DEF ParseTableUnderHeading, ScannersInv
  <2>3. TableOf(text', scan') BY <2>1, <2>2, TableMore
  <2> QED BY <1>2, <2>2, <2>3 DEF ScannersInv
<1>3. CASE scanner' = scanner /\ CheckDeferrals
  <2>1. PICK line \in TodoLine : text' = Append(text, line) /\ scan' = TodoRead(scan, line, Len(text) + 1)
    BY <1>3 DEF CheckDeferrals, Read
  <2>2. scanner = "todo" /\ TodoOf(text, scan) BY <1>3 DEF CheckDeferrals, ScannersInv
  <2>3. TodoOf(text', scan') BY <2>1, <2>2, TodoMore
  <2> QED BY <1>3, <2>2, <2>3 DEF ScannersInv
<1>4. CASE scanner' = scanner /\ SliceMirror
  <2>1. PICK line \in MirrorLine : text' = Append(text, line) /\ scan' = SliceMarkdownSection(scan, line, Len(text) + 1)
    BY <1>4 DEF SliceMirror, Read
  <2>2. scanner = "mirror" /\ MirrorOf(text, scan) BY <1>4 DEF SliceMirror, ScannersInv
  <2>3. MirrorOf(text', scan') BY <2>1, <2>2, MirrorMore
  <2> QED BY <1>4, <2>2, <2>3 DEF ScannersInv
<1>5. CASE scanner' = scanner /\ text' = text /\ scanner = "tests" /\ ComputeTestBlockRanges
  <2>1. TestsOf(text, scan) BY <1>5 DEF ScannersInv
  <2>2. CASE ScanLine BY <2>1, <2>2, ScanLineKeeps, <1>5 DEF ScannersInv
  <2>3. CASE SeekOpener BY <2>1, <2>3, SeekOpenerKeeps, <1>5 DEF ScannersInv
  <2>4. CASE SkipAttribute BY <2>1, <2>4, SkipAttributeKeeps, <1>5 DEF ScannersInv
  <2>5. CASE WalkBlock BY <2>1, <2>5, WalkBlockKeeps, <1>5 DEF ScannersInv
  <2>6. CASE EndBlock BY <2>1, <2>6, EndBlockKeeps, <1>5 DEF ScannersInv
  <2> QED BY <1>5, <2>2, <2>3, <2>4, <2>5, <2>6 DEF ComputeTestBlockRanges
<1>6. CASE scanner' = scanner /\ text' = text /\ scanner = "glob" /\ (PathMatchesGlob \/ WildcardMatch \/ WildcardTail)
  <2>1. GlobInv BY <1>6 DEF ScannersInv
  <2>2. GlobInv' BY <1>6, <2>1, GlobSteps
  <2> QED BY <1>6, <2>2 DEF ScannersInv
<1> QED BY <1>1, <1>2, <1>3, <1>4, <1>5, <1>6 DEF ScannersNext

LEMMA ScannersHold == ASSUME ScannersInv PROVE ScannersCorrect
<1>1. ScannersTypeOK
  <2>1. CASE scanner = "table"
    <3>1. DOMAIN scan = DOMAIN TableStart BY <2>1 DEF ScannersInv, TableOf, TableStart
    <3> QED BY <3>1 DEF ScannersTypeOK, ScannersInv
  <2>2. CASE scanner = "todo"
    <3>1. DOMAIN scan = DOMAIN TodoStart BY <2>2 DEF ScannersInv, TodoOf, TodoStart
    <3> QED BY <3>1 DEF ScannersTypeOK, ScannersInv
  <2>3. CASE scanner = "mirror"
    <3>1. DOMAIN scan = DOMAIN MirrorStart BY <2>3 DEF ScannersInv, MirrorOf, MirrorStart
    <3> QED BY <3>1 DEF ScannersTypeOK, ScannersInv
  <2>4. CASE scanner = "tests"
    <3>1. DOMAIN scan = DOMAIN CodeStart BY <2>4 DEF ScannersInv, TestsOf, CodeType, CodeStart
    <3> QED BY <3>1 DEF ScannersTypeOK, ScannersInv
  <2>5. CASE scanner = "glob"
    <3>1. DOMAIN scan = DOMAIN GlobStart BY <2>5 DEF ScannersInv, GlobInv, GlobStart
    <3> QED BY <3>1 DEF ScannersTypeOK, ScannersInv
  <2> QED BY <2>1, <2>2, <2>3, <2>4, <2>5 DEF ScannersInv
<1>2. PlanIsTable BY TableHolds DEF ScannersInv, PlanIsTable
<1>3. DebtFound BY TodoHolds DEF ScannersInv, DebtFound
<1>4. MirrorIsList BY MirrorHolds DEF ScannersInv, MirrorIsList
<1>5. OnlyTestsSkipped
  <2>1. CASE scanner = "tests" BY <2>1, TestsHold DEF ScannersInv
  <2>2. CASE scanner # "tests" BY <2>2 DEF OnlyTestsSkipped
  <2> QED BY <2>1, <2>2
<1>6. GlobIsMeaning
  <2>1. CASE scanner = "glob" BY <2>1, GlobHolds DEF ScannersInv
  <2>2. CASE scanner # "glob" BY <2>2 DEF GlobIsMeaning
  <2> QED BY <2>1, <2>2
<1> QED BY <1>1, <1>2, <1>3, <1>4, <1>5, <1>6 DEF ScannersCorrect

\* Each scanner finds in a file what its comments say it finds, no more and no less.  A change
\* that lands was judged by what it changes: main stays free of leaks and, while no verdict is
\* used stale, consistent; plans are kept, removed tests are replaced, and a pass at the desk
\* holds in CI.  For files, paths and globs of any length and for any finite repository.
THEOREM GuardsSoundProved == Spec => []GuardsSound
<1> DEFINE Inv == (part = "scanners" => ScannersInv) /\ (part = "guards" => GuardsInv)
<1>1. Init => Inv BY ScannersStarts, GuardsStarts, GuardsAssumption DEF Init
<1>2. Inv /\ [Next]_partVars => Inv'
  <2>1. ASSUME Inv, [Next]_partVars, part' = "scanners" PROVE ScannersInv'
    <3>1. part = "scanners" /\ ScannersInv BY <2>1 DEF Next, partVars
    <3>2. [ScannersNext]_scannersVars BY <2>1, <3>1 DEF Next, partVars
    <3> QED BY <3>1, <3>2, ScannersSteps
  <2>2. ASSUME Inv, [Next]_partVars, part' = "guards" PROVE GuardsInv'
    <3>1. part = "guards" /\ GuardsInv BY <2>2 DEF Next, partVars
    <3>2. [GuardsNext]_guardsVars BY <2>2, <3>1 DEF Next, partVars
    <3> QED BY <3>1, <3>2, GuardsSteps, GuardsAssumption
  <2> QED BY <2>1, <2>2
<1>3. Inv => GuardsSound BY ScannersHold, GuardsHold, GuardsAssumption DEF GuardsSound
<1> QED BY <1>1, <1>2, <1>3, PTL DEF Spec
=============================================================================
