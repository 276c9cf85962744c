------------------------------ MODULE Scanners ------------------------------
(***************************************************************************)
(* The line scanners of dt-guard, the checker that gates every change:     *)
(*  - parse_table_under_heading, which reads the plan of a change from the *)
(*    table of its main.md;                                                *)
(*  - the section of todo_tracking::check_main_md;                         *)
(*  - gsa_sync::slice_markdown_section;                                    *)
(*  - compute_test_block_ranges, which finds the lines that the secret and *)
(*    PII guards skip;                                                     *)
(*  - path_matches_glob.                                                   *)
(* A scanner is a loop over lines (or characters) with a few flags.  Each  *)
(* is compared with a definition of its result that has no loop.           *)
(*                                                                         *)
(* Abstractions: a line is its kind, what the predicates of the code on it *)
(* tell apart; a path is a sequence of characters of a small alphabet.     *)
(***************************************************************************)
EXTENDS Integers, Sequences, FiniteSets

CONSTANTS
    MaxRead,     \* bound: lines of a file that is read once, line by line
    MaxFile,     \* bound: lines of a Rust file
    MaxName      \* bound: characters of a path and of a glob

ASSUME ScannersAssumption == {MaxRead, MaxFile, MaxName} \subseteq Nat

VARIABLES
    scanner,     \* which of them runs
    text,        \* the lines read so far, or the file, or <<path, glob>>
    scan         \* the locals of its loop
scannersVars == <<scanner, text, scan>>

\* What a predicate on lines says of the n-th line of the text.
Lines == 1..Len(text)
Among(a, b, kinds) == \E n \in a..b : text[n] \in kinds
-----------------------------------------------------------------------------
(* The table under a heading.  "void" is a row of empty cells, "hole" a    *)
(* template placeholder.                                                   *)
TableLine == {"heading", "h2", "separator", "void", "row", "hole", "prose", "blank"}
TableStart == [section |-> FALSE, table |-> FALSE, header |-> FALSE,
               over |-> FALSE, rows |-> {}]

IsSeparatorRow(line) == line \in {"separator", "void"}
IsTemplatePlaceholderRow(line) == line = "hole"

\* Bug: the heading does not start afresh.
SectionKept(s) == [s EXCEPT !.section = TRUE]
EnterSection(s) == [s EXCEPT !.section = TRUE, !.table = FALSE, !.header = FALSE]

TableRead(s, line, n) ==
    IF s.over THEN s
    ELSE IF line = "heading" THEN EnterSection(s)
    ELSE IF ~s.section \/ line = "blank" THEN s
    ELSE IF line = "h2" THEN [s EXCEPT !.over = TRUE]
    ELSE IF line = "prose" THEN [s EXCEPT !.table = FALSE]
    ELSE IF IsSeparatorRow(line) THEN [s EXCEPT !.table = TRUE, !.header = TRUE]
    ELSE IF ~s.header \/ ~s.table THEN s
    ELSE [s EXCEPT !.rows = @ \cup {n}]

ParsePlanRows == {n \in scan.rows : ~IsTemplatePlaceholderRow(text[n])}
-----------------------------------------------------------------------------
(* The section on deferred work: two body lines in a row are a finding.    *)
(* "glued" is a dash without a blank after it, "example" template prose.   *)
TodoLine == {"section", "h2", "fence", "blank", "bullet", "glued", "example", "body"}
TodoStart == [section |-> FALSE, fence |-> FALSE, run |-> 0, over |-> FALSE, hit |-> 0]

IsBody(line) == line \in {"body", "glued"}

\* Bug: a fence does not end a run of body lines.
FenceIgnored(s) == [s EXCEPT !.fence = ~@]
ToggleFence(s) == [s EXCEPT !.fence = ~@, !.run = 0]

TodoRead(s, line, n) ==
    IF s.over THEN s
    ELSE IF ~s.section THEN [s EXCEPT !.section = line = "section"]
    ELSE IF line \in {"h2", "section"} THEN [s EXCEPT !.over = TRUE]
    ELSE IF line = "fence" THEN ToggleFence(s)
    ELSE IF s.fence THEN s
    ELSE IF ~IsBody(line) THEN [s EXCEPT !.run = 0]
    ELSE IF s.run = 1 THEN [s EXCEPT !.over = TRUE, !.hit = n]
    ELSE [s EXCEPT !.run = 1]
-----------------------------------------------------------------------------
(* The list of guarded areas that follows the anchor comment of a mirror.  *)
MirrorLine == {"anchor", "item", "blank", "prose"}
MirrorStart == [armed |-> FALSE, list |-> FALSE, over |-> FALSE, items |-> {}]

\* Bug: a blank line ends the list.
ListEndsEarly(s, line) == s.list
ListEnds(s, line) == s.list /\ line # "blank"

SliceMarkdownSection(s, line, n) ==
    IF s.over THEN s
    ELSE IF ~s.armed THEN [s EXCEPT !.armed = line = "anchor"]
    ELSE IF line = "item" THEN [s EXCEPT !.list = TRUE, !.items = @ \cup {n}]
    ELSE IF ListEnds(s, line) THEN [s EXCEPT !.over = TRUE]
    ELSE s
-----------------------------------------------------------------------------
(* The blocks of a Rust file that are compiled for tests only.  "attr" is  *)
(* the attribute alone on its line, "attr_open" has the block's brace on   *)
(* the same line, "quoted" is a line with an odd number of quotes before   *)
(* its brace (a lifetime), "begin" and "end" are those of a block comment. *)
(* Strings are not followed over lines: a brace on a line inside one is    *)
(* counted like one of the code, and the line is "open" or "close".        *)
CodeLine == {"attr", "attr_open", "open", "close", "code", "quoted", "begin", "end"}
CodeStart == [phase |-> "scan", i |-> 1, j |-> 0, k |-> 0, end |-> 0, depth |-> 0,
              comment |-> FALSE, inner |-> FALSE, ranges |-> <<>>]

\* What strip_comments leaves of a line, and whether the comment stays open.
StripComments(line, open) == IF open THEN "blank" ELSE line
StillOpen(line, open) == IF open THEN line # "end" ELSE line = "begin"

IsCfgTestAttribute(line) == line \in {"attr", "attr_open"}

\* The braces process_line counts: it takes a quote for the start of a string.
ProcessLine(depth, line) ==
    CASE line \in {"attr_open", "open"} -> depth + 1
      [] line = "close"                 -> depth - 1
      [] OTHER                          -> depth

ScanLine ==
    LET s    == scan
        line == StripComments(text[s.i], s.comment)
        open == StillOpen(text[s.i], s.comment)
        deep == ProcessLine(0, line)
    IN  /\ s.phase = "scan" /\ s.i <= Len(text)
        /\ scan' = IF ~IsCfgTestAttribute(line)
                   THEN [s EXCEPT !.i = @ + 1, !.comment = open]
                   ELSE [s EXCEPT !.comment = open, !.inner = open, !.depth = deep,
                                  !.j = s.i + 1, !.end = s.i + 1, !.k = s.i + 2,
                                  !.phase = IF deep > 0 THEN "walk" ELSE "seek"]

\* The lines up to the one that opens the block.
SeekOpener ==
    LET s    == scan
        deep == ProcessLine(s.depth, StripComments(text[s.j], s.inner))
    IN  /\ s.phase = "seek" /\ s.j <= Len(text)
        /\ scan' = [s EXCEPT !.depth = deep, !.inner = StillOpen(text[s.j], @),
                             !.j = IF deep > 0 THEN @ ELSE @ + 1,
                             !.end = s.j, !.k = s.j + 1,
                             !.phase = IF deep > 0 THEN "walk" ELSE "seek"]

SkipAttribute ==
    /\ scan.phase = "seek" /\ scan.j > Len(text)
    /\ scan' = [scan EXCEPT !.phase = "scan", !.i = @ + 1]

WalkBlock ==
    LET s == scan IN
    /\ s.phase = "walk" /\ s.depth > 0 /\ s.k <= Len(text)
    /\ scan' = [s EXCEPT !.depth = ProcessLine(@, StripComments(text[s.k], s.inner)),
                         !.inner = StillOpen(text[s.k], @),
                         !.end = s.k, !.k = @ + 1]

\* Bug: the search goes on inside the block.
AfterAttribute(s) == s.i + 1
\* Where the search for the next attribute goes on.
NextLine(s) == IF s.k > s.j + 1 THEN s.k ELSE s.j + 1

EndBlock ==
    LET s == scan IN
    /\ s.phase = "walk" /\ (s.depth <= 0 \/ s.k > Len(text))
    /\ scan' = [s EXCEPT !.ranges = Append(@, <<s.i, s.end>>), !.i = NextLine(s),
                         !.comment = s.inner, !.phase = "scan"]

ComputeTestBlockRanges == ScanLine \/ SeekOpener \/ SkipAttribute \/ WalkBlock \/ EndBlock

IsLineInTestBlock(n) == \E r \in 1..Len(scan.ranges) :
                            scan.ranges[r][1] <= n /\ n <= scan.ranges[r][2]
-----------------------------------------------------------------------------
(* Matching a path with a glob of the plan or of the ownership manifest.   *)
NameChar == {"a", "b", "/"}
GlobChar == {"a", "/", "*", "?"}
Names(S) == UNION {[1..n -> S] : n \in 0..MaxName}
GlobStart == [phase |-> "glob", p |-> 1, g |-> 1, sp |-> 0, sg |-> 0, match |-> FALSE]

Path == text[1]
Glob == text[2]
Wild(g) == \E n \in 1..Len(g) : g[n] \in {"*", "?"}
IsTree(g) == Len(g) >= 3 /\ SubSeq(g, Len(g) - 2, Len(g)) = <<"/", "*", "*">>
UnderTree(p, dir) == p = dir \/ (Len(p) > Len(dir) /\ SubSeq(p, 1, Len(dir) + 1) = Append(dir, "/"))
Match(b) == scan' = [scan EXCEPT !.phase = "done", !.match = b]

PathMatchesGlob ==
    /\ scan.phase = "glob"
    /\ \/ Path = Glob /\ Match(TRUE)
       \/ /\ Path # Glob /\ IsTree(Glob)
          /\ Match(UnderTree(Path, SubSeq(Glob, 1, Len(Glob) - 3)))
       \/ /\ Path # Glob /\ ~IsTree(Glob) /\ Wild(Glob)
          /\ scan' = [scan EXCEPT !.phase = "wild"]
       \/ Path # Glob /\ ~IsTree(Glob) /\ ~Wild(Glob) /\ Match(FALSE)

\* Bug: an asterisk may stretch over a slash.
StretchesFar(s) == s.sg # 0
\* The last asterisk may take one character more, unless that is a slash.
Stretches(s) == s.sg # 0 /\ Path[s.sp] # "/"

WildcardMatch ==
    LET s == scan IN
    /\ s.phase = "wild" /\ s.p <= Len(Path)
    /\ LET inside == s.g <= Len(Glob)
           same == inside /\ (Glob[s.g] = Path[s.p] \/ (Glob[s.g] = "?" /\ Path[s.p] # "/"))
       IN  IF same THEN scan' = [s EXCEPT !.p = @ + 1, !.g = @ + 1]
           ELSE IF inside /\ Glob[s.g] = "*"
                THEN scan' = [s EXCEPT !.sg = s.g, !.sp = s.p, !.g = @ + 1]
           ELSE IF Stretches(s)
                THEN scan' = [s EXCEPT !.g = s.sg + 1, !.sp = @ + 1, !.p = s.sp + 1]
           ELSE Match(FALSE)

WildcardTail ==
    LET s == scan IN
    /\ s.phase = "wild" /\ s.p > Len(Path)
    /\ Match(\A n \in s.g..Len(Glob) : Glob[n] = "*")
-----------------------------------------------------------------------------
Files(n, kinds) == UNION {[1..m -> kinds] : m \in 0..n}

ScannersInit ==
    \/ scanner = "table"  /\ text = <<>> /\ scan = TableStart
    \/ scanner = "todo"   /\ text = <<>> /\ scan = TodoStart
    \/ scanner = "mirror" /\ text = <<>> /\ scan = MirrorStart
    \/ scanner = "tests"  /\ text \in Files(MaxFile, CodeLine) /\ scan = CodeStart
    \/ scanner = "glob"   /\ text \in Names(NameChar) \X Names(GlobChar) /\ scan = GlobStart

\* The scanners that read their file once, a line at a time.
Read(kinds, Step(_, _, _)) ==
    /\ Len(text) < MaxRead
    /\ \E line \in kinds : /\ text' = Append(text, line)
                           /\ scan' = Step(scan, line, Len(text) + 1)

ParseTableUnderHeading == scanner = "table"  /\ Read(TableLine, TableRead)
CheckDeferrals         == scanner = "todo"   /\ Read(TodoLine, TodoRead)
SliceMirror            == scanner = "mirror" /\ Read(MirrorLine, SliceMarkdownSection)

ScannersNext ==
    /\ UNCHANGED scanner
    /\ \/ ParseTableUnderHeading
       \/ CheckDeferrals
       \/ SliceMirror
       \/ UNCHANGED text /\ scanner = "tests" /\ ComputeTestBlockRanges
       \/ UNCHANGED text /\ scanner = "glob" /\ (PathMatchesGlob \/ WildcardMatch \/ WildcardTail)
-----------------------------------------------------------------------------
(* What they should find.                                                  *)

\* A row of the plan: under the heading and before the next section, with a
\* separator above it and no prose or new heading in between.
InPlan(n) ==
    /\ text[n] = "row"
    /\ \E h \in 1..n : /\ text[h] = "heading"
                       /\ \A m \in 1..h-1 : text[m] # "heading"
                       /\ ~Among(h, n, {"h2"})
                       /\ \E j \in h..n : /\ IsSeparatorRow(text[j])
                                          /\ ~Among(j, n, {"prose", "heading"})

\* Two body lines in a row in the first section on deferred work, not in a fence.
Inlined(n) ==
    /\ n > 1 /\ IsBody(text[n]) /\ IsBody(text[n-1])
    /\ \E s \in 1..n-1 : /\ text[s] = "section"
                         /\ ~Among(1, s - 1, {"section"}) /\ ~Among(s + 1, n, {"section", "h2"})
                         /\ Cardinality({m \in s..n : text[m] = "fence"}) % 2 = 0

\* An item of the first list after the anchor.
Listed(n) ==
    /\ text[n] = "item"
    /\ \E a \in 1..n : /\ text[a] = "anchor" /\ ~Among(1, a - 1, {"anchor"})
                       /\ \A m \in a+1..n : text[m] = "item" => ~Among(m, n, {"prose", "anchor"})

\* A line outside every block comment.
Live(n) ==
    \A b \in 1..n-1 : text[b] = "begin" => \E e \in b+1..n-1 : text[e] = "end"

Attributes == {n \in Lines : Live(n) /\ text[n] = "attr"}
Count(a, b, kind) == Cardinality({n \in a..b : Live(n) /\ text[n] = kind})

\* The lines that belong to the item with the attribute at line a.
TestItem(a) ==
    LET first  == CHOOSE o \in a..Len(text) : /\ Live(o) /\ text[o] = "open"
                                              /\ Count(a, o - 1, "open") = 0
        closed == {k \in first..Len(text) : Count(first, k, "open") = Count(first, k, "close")}
    IN  {n \in Lines : a <= n /\ \A k \in closed : n <= k}

\* Files as rustfmt lays them out, each attribute on a block: the attribute alone on
\* its line and next, but for further attributes and comments, the line that opens it,
\* with no lifetime before a brace and no brace in a string of several lines.  In others a
\* brace that is missed or counted too often moves the end of the block.
Plain ==
    /\ \A n \in Lines : text[n] \notin {"attr_open", "quoted"}
    /\ \A a \in Attributes : \E o \in a+1..Len(text) :
          /\ Live(o) /\ text[o] = "open"
          /\ \A m \in a+1..o-1 : Live(m) => text[m] \in {"attr", "begin", "end"}

\* Segments match one by one: `*` stands for any part of a segment, `?` for one character
\* of it, any other for itself.  A cut says where in the path each of them begins.
StandsFor(p, c, from, to) ==
    IF c = "*" THEN from <= to /\ \A i \in from..to-1 : p[i] # "/"
    ELSE to = from + 1 /\ (IF c = "?" THEN p[from] # "/" ELSE p[from] = c)
Cuts(p, g) ==
    {f \in [1..Len(g)+1 -> 1..Len(p)+1] :
        /\ f[1] = 1 /\ f[Len(g)+1] = Len(p) + 1
        /\ \A j \in 1..Len(g) : StandsFor(p, g[j], f[j], f[j+1])}
Means(p, g) == Cuts(p, g) # {}
-----------------------------------------------------------------------------
ScannersTypeOK ==
    /\ scanner \in {"table", "todo", "mirror", "tests", "glob"}
    /\ DOMAIN scan \in {DOMAIN TableStart, DOMAIN TodoStart, DOMAIN MirrorStart,
                        DOMAIN CodeStart, DOMAIN GlobStart}

\* The plan read from a main.md is that of its table: no row of another section,
\* of a table that prose has ended, or above the separator (cross_boundary_scope.rs
\* parse_plan_paths).
PlanIsTable == scanner = "table" => ParsePlanRows = {n \in Lines : InPlan(n)}

\* Inlined debt is found, at its second line, and nothing else is (todo_tracking.rs).
DebtFound ==
    scanner = "todo" =>
        \/ scan.hit = 0 /\ \A n \in Lines : ~Inlined(n)
        \/ /\ scan.hit \in Lines /\ Inlined(scan.hit)
           /\ \A n \in 1..scan.hit-1 : ~Inlined(n)

\* A mirror's list is read to its end and no further (gsa_sync.rs).
MirrorIsList == scanner = "mirror" => scan.items = {n \in Lines : Listed(n)}

\* In a file laid out by rustfmt the lines that the guards skip are those of the test
\* items, and in every file the ranges start at an attribute and never overlap
\* (test_code_filter.rs).
OnlyTestsSkipped ==
    scanner = "tests" =>
        /\ \A r \in 1..Len(scan.ranges) :
              /\ IsCfgTestAttribute(text[scan.ranges[r][1]])
              /\ r > 1 => scan.ranges[r-1][2] < scan.ranges[r][1]
        /\ (scan.phase = "scan" /\ scan.i > Len(text) /\ Plain) =>
              {n \in Lines : IsLineInTestBlock(n)} = UNION {TestItem(a) : a \in Attributes}

\* The two pointers with one asterisk to go back to decide what the segments mean
\* (manifest_match.rs).
GlobIsMeaning ==
    (scanner = "glob" /\ scan.phase = "done") =>
        scan.match = IF IsTree(Glob) /\ Path # Glob
                     THEN UnderTree(Path, SubSeq(Glob, 1, Len(Glob) - 3))
                     ELSE Means(Path, Glob)

\* dt-guard's scanners find what they are documented to find.
ScannersCorrect ==
    ScannersTypeOK /\ PlanIsTable /\ DebtFound /\ MirrorIsList /\ OnlyTestsSkipped /\ GlobIsMeaning
=============================================================================
