------------------------------- MODULE Guards -------------------------------
(***************************************************************************)
(* dt-guard's verdicts on a change, from the first edit to the merge.      *)
(*                                                                         *)
(* A branch starts at a commit of the trunk; files are edited, moved and   *)
(* committed; the guards compare the tree with the branch's base (the      *)
(* scans), look at the whole tree (the cross checks) or at the last commit *)
(* (the plan of the change); a branch on which all of them say OK may      *)
(* land, onto a trunk that other changes may have moved since.             *)
(*                                                                         *)
(* Abstractions:                                                           *)
(*  - a path stands for those that the code's predicates on paths treat    *)
(*    alike; a source file is one line, a line the set of what the regular *)
(*    expressions and substring tests of the guards find in it;            *)
(*  - the content of main.md is the set of rows of its table, that of an   *)
(*    INDEX.md the paths it points to;                                     *)
(*  - git is external: it lists the names that differ, and by default it   *)
(*    pairs a deleted with an added file as a rename, of which it lists    *)
(*    the new name only, when they are the same or at least half alike.    *)
(***************************************************************************)
EXTENDS Naturals, Sequences, FiniteSets

CONSTANTS
    Repo,          \* the paths of the repository
    Absent,        \* the content of a file that is not there
    Contents,      \* [Repo -> contents that an edit may give the file]
    Rows,          \* [names of rows of a plan -> [entry, class, owner]]
    Alike,         \* pairs of contents that git takes for one file before and after an edit
    Owners,        \* the ownership manifest: [guarded entries -> sets of specialists]
    MaxEdits,      \* bound: edits of the branch and landings of others
    MaxCommits     \* bound: commits of a branch

Rust == {"lib.rs", "lib_test.rs", "guard.rs"}
Typescript == {"view.ts", "view.tsx", "view.test.ts", "more.test.ts"}
TestFile == {"lib_test.rs", "view.test.ts", "more.test.ts"}
TsTest == TestFile \cap Typescript
MainMd == "main.md"
IndexMd == "INDEX.md"
PackageJson == "package.json"
Stray == "TODO.md"
Crates == "crates/**"        \* a glob: every Rust file

ASSUME GuardsAssumption ==
    /\ {"lib.rs", MainMd, IndexMd, Stray} \subseteq Repo /\ IsFiniteSet(Repo)
    /\ Repo \subseteq Rust \cup Typescript \cup {MainMd, IndexMd, PackageJson, Stray, "docs/TODO.md"}
    /\ \A p \in Repo : {} \in Contents[p] /\ Absent \notin Contents[p]
    /\ MaxEdits \in Nat /\ MaxCommits \in Nat \ {0}

VARIABLES
    trunk,       \* the tree of main
    base,        \* the trunk where the branch started
    prior,       \* the parent of that commit
    log,         \* the trees of the branch's commits
    work,        \* the files on disk
    tracked,     \* the files git knows
    green,       \* every guard said OK on the merge with the trunk of then
    moved,       \* history: the trunk has moved since
    edits,       \* how many so far
    blind,       \* history: an OK was given although a git command had failed
    landed       \* history: the last landing, and whether one followed a move of the trunk
guardsVars == <<trunk, base, prior, log, work, tracked, green, moved, edits, blind, landed>>

Tip == IF log = <<>> THEN base ELSE log[Len(log)]
TipParent == IF log = <<>> THEN prior ELSE IF Len(log) = 1 THEN base ELSE log[Len(log) - 1]
Present(tree) == {p \in Repo : tree[p] # Absent}
-----------------------------------------------------------------------------
(* What git lists between the trees a and b, of which it knows some files. *)
Deleted(a, b) == Present(a) \ Present(b)
Added(a, b, known) == (Present(b) \ Present(a)) \cap known
SameFile(c, d) == c = d \/ <<c, d>> \in Alike
\* A deleted file pairs with one added file, edited on the way or not.
Pairs(a, b, known) == {r \in Deleted(a, b) \X Added(a, b, known) : SameFile(a[r[1]], b[r[2]])}
Apart(rs) == \A r, t \in rs : r[1] = t[1] <=> r[2] = t[2]
Renames(a, b, known) ==
    CHOOSE rs \in SUBSET Pairs(a, b, known) :
        Apart(rs) /\ \A r \in Pairs(a, b, known) \ rs : ~Apart(rs \cup {r})
RenamedFrom(a, b, known) == {r[1] : r \in Renames(a, b, known)}
RenamedTo(a, b, known) == {r[2] : r \in Renames(a, b, known)}

\* git diff --name-only
NameOnly(a, b, known) ==
    {p \in Repo : a[p] # b[p] /\ (a[p] = Absent => p \in known)} \ RenamedFrom(a, b, known)
GetDeletedFiles(a, b, known) == Deleted(a, b) \ RenamedFrom(a, b, known)
GetAddedFiles(a, b, known) == Added(a, b, known) \ RenamedTo(a, b, known)
GetUntrackedFiles(b, known) == Present(b) \ known

\* Bug: files that git does not know yet are left out.
OnlyModifiedFiles(a, b, known) == NameOnly(a, b, known)
GetAllChangedFiles(a, b, known) == NameOnly(a, b, known) \cup GetUntrackedFiles(b, known)

Unless(down, command, files) == IF command \in down THEN {} ELSE files
\* Bug: only the tracked files of a dirty tree.
TrackedEditPaths(down) ==
    IF work # Tip /\ "status" \notin down
    THEN Unless(down, "diff", NameOnly(Tip, work, tracked))
    ELSE Unless(down, "diff", NameOnly(TipParent, Tip, Repo))
\* The scope of the change in hand: what is not committed, else the last commit.  A
\* failing command lists nothing; a failing status looks like a clean tree.
GetActiveEditPaths(down) ==
    IF work # Tip /\ "status" \notin down
    THEN Unless(down, "diff", NameOnly(Tip, work, tracked))
         \cup Unless(down, "others", GetUntrackedFiles(work, tracked))
    ELSE Unless(down, "diff", NameOnly(TipParent, Tip, Repo))
-----------------------------------------------------------------------------
(* The scans.  A rule is a condition on a line; some only warn.            *)
Fire(rules) == {r \in DOMAIN rules : rules[r]}
Warning == {"pii_in_error_message", "debug_fmt_heuristic", "exports_missing"}

RustNoHardcodedSecrets(l) ==
    Fire([secret_assignment       |-> "assign" \in l /\ "env" \notin l,
          hygiene_pattern         |-> "hygiene" \in l,
          conn_string_credentials |-> "connection" \in l,
          authorization_header    |-> "authorization" \in l])

RustNoPiiInLogs(l) ==
    IF "pii" \notin l THEN {}
    ELSE Fire([pii_in_log_macro     |-> "log" \in l,
               pii_in_named_field   |-> l \cap {"tracing", "instrument"} # {} /\ "=" \in l,
               pii_in_instrument    |-> {"instrument", "fields"} \subseteq l /\ "skip" \notin l,
               pii_in_error_message |-> {"error", "{"} \subseteq l])

RustNoSecretsInLogs(l) ==
    Fire([instrument_no_skip      |-> {"instrument", "secret"} \subseteq l
                                        /\ l \cap {"skip", "skip_all"} = {},
          secret_in_log_macro     |-> {"log", "interpolated"} \subseteq l,
          expose_secret_in_log    |-> {"log", "expose"} \subseteq l,
          secret_in_tracing_field |-> /\ l \cap {"tracing", "instrument"} # {}
                                      /\ {"=", "%", "secret"} \subseteq l,
          secret_in_error_message |-> {"error", "{", "secret"} \subseteq l,
          debug_fmt_heuristic     |-> "debug" \in l /\ "derive" \notin l])

\* The attribute's window of four lines, the signature's of nine.
RustInstrumentSkipAll(l) ==
    IF "instrument" \notin l \/ "skip_all" \in l THEN {}
    ELSE Fire([skip_not_all                |-> "skip" \in l,
               sensitive_param_no_skip_all |-> "secret" \in l])

ApiVersionCheck(l) ==
    Fire([api_route_unversioned |-> "unversioned" \in l,
          ops_route_versioned   |-> "ops_versioned" \in l])

TsNoSecrets(l) == RustNoHardcodedSecrets(l) \cup Fire([jwt_literal |-> "jwt" \in l])

TsNoPiiInLogs(l) ==
    IF "pii" \notin l THEN {}
    ELSE Fire([pii_in_log_sink          |-> "log" \in l,
               pii_in_structured_object |-> {"log", "field"} \subseteq l,
               pii_in_error_message     |-> "error" \in l])

TsNameGuardDtClient(l) == Fire([metric_name |-> "metric" \in l /\ "dt_client" \notin l])

TsExportsMapClosed(l) ==
    IF "private" \in l THEN {}
    ELSE IF "exports" \notin l THEN {"exports_missing"}
    ELSE Fire([exports_key_forbidden   |-> "test_key" \in l,
               exports_value_forbidden |-> "test_value" \in l])

ScanGuard == {"rust_secrets", "rust_pii", "rust_log_secrets", "instrument", "api_version",
              "ts_secrets", "ts_pii", "ts_names", "exports"}

Rules(g, l) ==
    CASE g = "rust_secrets"     -> RustNoHardcodedSecrets(l)
      [] g = "rust_pii"         -> RustNoPiiInLogs(l)
      [] g = "rust_log_secrets" -> RustNoSecretsInLogs(l)
      [] g = "instrument"       -> RustInstrumentSkipAll(l)
      [] g = "api_version"      -> ApiVersionCheck(l)
      [] g = "ts_secrets"       -> TsNoSecrets(l)
      [] g = "ts_pii"           -> TsNoPiiInLogs(l)
      [] g = "ts_names"         -> TsNameGuardDtClient(l)
      [] g = "exports"          -> TsExportsMapClosed(l)

\* The lines a guard passes over: comments, test blocks and its own markers.
IsCommentLine(l) == "comment" \in l
IsAllowedLine(g, l) ==
    \/ g \in {"rust_pii", "ts_pii"} /\ l \cap {"redacted", "pii_safe"} # {}
    \/ g = "rust_pii" /\ {"instrument", "skip"} \subseteq l
    \/ g = "rust_log_secrets" /\ l \cap {"redacted", "skip_all", "ignore"} # {}
SkipsLine(g, l) ==
    \/ IsCommentLine(l) /\ g \notin {"ts_pii", "ts_names", "exports"}
    \/ IsAllowedLine(g, l)
    \/ "in_test" \in l /\ g \in {"rust_secrets", "rust_pii", "rust_log_secrets", "instrument"}

IsScanExempt(p) == p \in TestFile \cup {"guard.rs"}
\* The files a guard reads: its extensions, without what it leaves to others.
InScope(g, p) ==
    CASE g = "api_version" -> p \in Rust \ TestFile
      [] g \in {"rust_secrets", "rust_pii", "rust_log_secrets", "instrument"}
                           -> p \in Rust /\ ~IsScanExempt(p)
      [] g = "ts_pii"      -> p \in Typescript \ {"view.tsx"} /\ ~IsScanExempt(p)
      [] g \in {"ts_secrets", "ts_names"} -> p \in Typescript /\ ~IsScanExempt(p)
      [] g = "exports"     -> p = PackageJson

Hits(g, tree, p) == IF SkipsLine(g, tree[p]) THEN {} ELSE Rules(g, tree[p]) \ Warning

\* run: the changed files that are in scope and still there; an error is a FAIL.
Scan(g, a, b, known, down) ==
    /\ down \cap {"base", "diff", "others"} = {}
    /\ \A p \in GetAllChangedFiles(a, b, known) \cap Present(b) : InScope(g, p) => Hits(g, b, p) = {}
-----------------------------------------------------------------------------
(* The cross checks read the whole tree.                                   *)
KnowledgeIndex(tree) == tree[IndexMd] # Absent => tree[IndexMd] \subseteq Present(tree)
\* A failing ls-files lists no TODO.md.
TodoTracking(tree, known, down) ==
    tree[Stray] = Absent \/ (IF Stray \in known THEN "tracked" ELSE "others") \in down
-----------------------------------------------------------------------------
(* A deleted test needs one more in its package.                           *)
TsNoTestRemoval(a, b, known, down) ==
    /\ down \cap {"base", "diff"} = {}
    /\ GetDeletedFiles(a, b, known) \cap TsTest # {} => GetAddedFiles(a, b, known) \cap TsTest # {}
-----------------------------------------------------------------------------
(* The plan of a change, the rows of the table in its main.md.             *)
IsSymmetricExclusion(p) == p \in {MainMd, IndexMd, "docs/TODO.md"}
PathMatches(entry, p) == entry = p \/ (entry = Crates /\ p \in Rust)
PlanPaths(rows) == {e \in {Rows[r].entry : r \in rows} : ~IsSymmetricExclusion(e)}

\* Bug: a glob that matches nothing is dropped.
ExpandSome(entry, diff) ==
    IF entry = Crates THEN {p \in diff : PathMatches(entry, p)} ELSE {entry}
\* A glob stands for what it matches, one that matches nothing for itself.
Expand(entry, diff) ==
    LET matched == {p \in diff : PathMatches(entry, p)}
    IN  IF entry = Crates /\ matched # {} THEN matched ELSE {entry}

CheckScope(diff, plan) == diff = UNION {Expand(e, diff) : e \in plan}

CrossBoundaryScope(diff) ==
    MainMd \in diff /\ work[MainMd] # Absent =>
        CheckScope({p \in diff : ~IsSymmetricExclusion(p)}, PlanPaths(work[MainMd]))

IsGsa(entry) == entry \in DOMAIN Owners
\* Bug: any owner will do.
SomeOwner(r) == r.class = "Mine" \/ (IsGsa(r.entry) => r.class # "Mechanical" /\ r.owner # "")
CheckRow(r) ==
    r.class = "Mine" \/ (IsGsa(r.entry) => r.class # "Mechanical" /\ r.owner \in Owners[r.entry])

\* A failing git lists no main.md, and none to check is OK.
CrossBoundaryClassification(a, b, known, down) ==
    LET files == (IF down \cap {"base", "diff"} # {} THEN {} ELSE NameOnly(a, b, known))
                 \cup Unless(down, "others", GetUntrackedFiles(b, known))
    IN  MainMd \in files \cap Present(b) => \A r \in b[MainMd] : CheckRow(Rows[r])
-----------------------------------------------------------------------------
(* The branch.                                                             *)
TreeGuard == {"knowledge_index", "todo_tracking"}
Guard == ScanGuard \cup TreeGuard \cup {"removal", "scope", "classification"}

\* What a guard says of the tree b against a, and of the change in hand.
GuardVerdict(g, a, b, known, diff, down) ==
    CASE g \in ScanGuard      -> Scan(g, a, b, known, down)
      [] g = "knowledge_index" -> KnowledgeIndex(b)
      [] g = "todo_tracking"   -> TodoTracking(b, known, down)
      [] g = "removal"         -> TsNoTestRemoval(a, b, known, down)
      [] g = "scope"           -> CrossBoundaryScope(diff)
      [] g = "classification"  -> CrossBoundaryClassification(a, b, known, down)

GuardsInit ==
    /\ trunk \in [Repo -> {{}, Absent}]
    /\ "lib.rs" \in Present(trunk) /\ Present(trunk) \subseteq {"lib.rs", "view.test.ts", IndexMd}
    /\ base = trunk /\ prior = trunk /\ work = trunk /\ log = <<>>
    /\ tracked = Present(trunk) /\ green = FALSE /\ moved = FALSE /\ edits = 0 /\ blind = FALSE
    /\ landed = [from |-> trunk, to |-> trunk, commits |-> 0, stale |-> FALSE]

Change(tree) ==
    /\ edits < MaxEdits /\ tree # work
    /\ work' = tree /\ edits' = edits + 1 /\ green' = FALSE
    /\ UNCHANGED <<trunk, base, prior, log, tracked, moved, blind, landed>>
Edit(p, c) == Change([work EXCEPT ![p] = c])
Move(p, q, c) ==
    /\ work[p] # Absent /\ SameFile(work[p], c) /\ work[q] = Absent
    /\ Change([work EXCEPT ![q] = c, ![p] = Absent])

GitAdd ==
    /\ tracked' = tracked \cup Present(work) /\ tracked' # tracked
    /\ UNCHANGED <<trunk, base, prior, log, work, green, moved, edits, blind, landed>>

Commit ==
    /\ work # Tip /\ Len(log) < MaxCommits
    /\ log' = Append(log, work) /\ tracked' = Present(work)
    /\ UNCHANGED <<trunk, base, prior, work, green, moved, edits, blind, landed>>

\* Another change lands; the guards have passed it.
OthersLand(p, c) ==
    LET tree == [trunk EXCEPT ![p] = c] IN
    /\ edits < MaxEdits /\ c # trunk[p] /\ p # MainMd
    /\ \A g \in Guard \ {"scope"} : GuardVerdict(g, trunk, tree, Repo, {}, {})
    /\ trunk' = tree /\ moved' = TRUE /\ edits' = edits + 1
    /\ UNCHANGED <<base, prior, log, work, tracked, green, blind, landed>>

\* The merge of the branch with the trunk, file by file.
Mergeable == \A p \in Repo : Tip[p] # base[p] => trunk[p] \in {base[p], Tip[p]}
Merged == [p \in Repo |-> IF Tip[p] # base[p] THEN Tip[p] ELSE trunk[p]]

\* CI checks out the merge, whose base is the trunk and whose second parent is the branch.
RunGuards(down) ==
    /\ log # <<>> /\ work = Tip /\ Mergeable /\ ~green
    /\ green' = \A g \in Guard : GuardVerdict(g, trunk, Merged, Repo, GetActiveEditPaths(down), down)
    /\ moved' = FALSE
    /\ blind' = (blind \/ (down # {} /\ green'))
    /\ UNCHANGED <<trunk, base, prior, log, work, tracked, edits, landed>>

Land ==
    /\ green /\ work = Tip /\ Mergeable
    /\ trunk' = Merged /\ base' = Merged /\ prior' = trunk /\ work' = Merged
    /\ log' = <<>> /\ tracked' = Present(Merged) /\ green' = FALSE /\ moved' = FALSE
    /\ landed' = [from |-> base, to |-> Tip, commits |-> Len(log), stale |-> landed.stale \/ moved]
    /\ UNCHANGED <<edits, blind>>

Faults == {{}, {"status"}, {"diff"}, {"others"}, {"base"}, {"tracked"}}
GuardsNext ==
    \/ \E p \in Repo : \E c \in Contents[p] \cup {Absent} : Edit(p, c)
    \/ \E p, q \in Repo : \E c \in Contents[q] : Move(p, q, c)
    \/ GitAdd
    \/ Commit
    \/ \E p \in Repo : \E c \in Contents[p] \cup {Absent} : OthersLand(p, c)
    \/ \E down \in Faults : RunGuards(down)
    \/ Land
-----------------------------------------------------------------------------
GuardsTypeOK ==
    /\ \A t \in {trunk, base, prior, work, landed.from, landed.to} \cup {log[n] : n \in 1..Len(log)} :
          DOMAIN t = Repo /\ \A p \in Repo : t[p] \in Contents[p] \cup {Absent}
    /\ Len(log) \in 0..MaxCommits /\ edits \in 0..MaxEdits /\ tracked \subseteq Repo
    /\ {green, moved, blind, landed.stale} \subseteq BOOLEAN /\ landed.commits \in 0..MaxCommits

\* What must not be in a source file outside tests, comments and marked lines.
Leaks(p, l) ==
    \/ "assign" \in l /\ "env" \notin l
    \/ {"log", "pii"} \subseteq l /\ p # "view.tsx" /\ l \cap {"redacted", "pii_safe"} = {}
                              /\ ~({"instrument", "skip"} \subseteq l)
    \/ p \in Rust /\ {"log", "expose"} \subseteq l /\ l \cap {"redacted", "skip_all", "ignore"} = {}
    \/ p \in Rust /\ {"instrument", "skip"} \subseteq l /\ "skip_all" \notin l

Clean(p, l) == IsScanExempt(p) \/ l \cap {"comment", "in_test"} # {} \/ ~Leaks(p, l)

\* Nothing leaks on main, whatever order edits, moves, commits and other landings came in.
LandedClean == \A p \in Present(trunk) \cap (Rust \cup Typescript) : Clean(p, trunk[p])

\* The indexes of main point to files that are there, and there is no second TODO.md,
\* unless a verdict was used after the trunk had moved or with a git that failed.
TrunkConsistent ==
    landed.stale \/ (KnowledgeIndex(trunk) /\ (blind \/ trunk[Stray] = Absent))

Changed(a, b) == {p \in Repo : a[p] # b[p]}
NoRename(a, b) == \A p \in Deleted(a, b), q \in Present(b) \ Present(a) : ~SameFile(a[p], b[q])
\* The plan in b names what changed from a and nothing else, and an owner of each guarded
\* entry; a glob is no guarded entry, whatever it matches.
AsPlanned(a, b) ==
    LET plan == {Rows[r] : r \in b[MainMd]} IN
    /\ \A p \in Changed(a, b) : IsSymmetricExclusion(p) \/ \E r \in plan : PathMatches(r.entry, p)
    /\ \A r \in plan : IsSymmetricExclusion(r.entry) \/ \E p \in Changed(a, b) : PathMatches(r.entry, p)
    /\ \A r \in plan : (r.class # "Mine" /\ IsGsa(r.entry)) => r.owner \in Owners[r.entry]
Planned(a, b) == MainMd \in Changed(a, b) /\ b[MainMd] # Absent /\ NoRename(a, b)
\* A change of one commit that landed with a plan and moved no file changed what the plan
\* says and nothing else, and the guarded files that the plan lists by name have their
\* owners named.  Those it lists by a glob need none.
PlanKept == (landed.commits = 1 /\ ~blind /\ Planned(landed.from, landed.to)) => AsPlanned(landed.from, landed.to)

Replaced(a, b) ==
    \A p \in Deleted(a, b) \cap TsTest : \E q \in Present(b) \ Present(a) : q \in TsTest \/ SameFile(a[p], b[q])
\* A landing that took a test away has brought one, or a file that git takes for it under
\* another name, edited or not and a test or not.
TestsKept == Replaced(landed.from, landed.to)

\* What the guards say at the desk they say once the same files are committed, if none
\* was moved.
PassCarries ==
    (log = <<>> /\ trunk = base /\ NoRename(base, work)) =>
        \A g \in Guard \ {"removal"} :
            GuardVerdict(g, base, work, tracked, GetActiveEditPaths({}), {})
                <=> GuardVerdict(g, base, work, Repo, IF work = base THEN GetActiveEditPaths({})
                                                     ELSE NameOnly(base, work, Repo), {})

\* A change that lands has been judged by what it changes: main stays free of leaks and
\* consistent, plans are kept, tests replaced, and a pass at the desk holds in CI.
GuardsCorrect == GuardsTypeOK /\ LandedClean /\ TrunkConsistent /\ PlanKept /\ TestsKept /\ PassCarries
=============================================================================
