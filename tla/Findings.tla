------------------------------ MODULE Findings ------------------------------
(* What of the agent's output is posted (internal/reviewer: diffmap.go,      *)
(* output.go, triage.go). A patch is the sequence of its raw lines, as a     *)
(* split at the newlines gives them: one that ends with a newline has a last *)
(* raw that is empty.                                                        *)
EXTENDS Integers, FiniteSets, Sequences, SequencesExt, RepoConfig, Only

OutputSchemaVersion == 1
Empty == [tag |-> ""]

(* The lines of the new side that a patch shows. Before the first header     *)
(* nothing has a line; a header without a new side leaves the count alone.   *)
ReadRaw(s, raw) ==
    CASE raw.tag = "@@" /\ raw.new.start <= 0 -> s
      [] raw.tag = "@@" /\ raw.new.start > 0 -> [lines |-> s.lines, current |-> raw.new.start]
      [] raw.tag # "@@" /\ (s.current = 0 \/ raw.tag \in {"-", "no newline"}) -> s
      [] OTHER -> [lines |-> s.lines \cup {s.current}, current |-> s.current + 1]

CommentableLines(patch) == FoldLeft(ReadRaw, [lines |-> {}, current |-> 0], patch).lines

\* Of two entries for one path the later one counts; a file without a patch has no lines.
Positions(files) ==
    LET shown == {i \in DOMAIN files : files[i].patch # <<>>}
        Of(path) == Max({i \in shown : files[i].path = path})
    IN  [path \in {files[i].path : i \in shown} |-> CommentableLines(files[Of(path)].patch)]
LineAllowed(positions, path, line) == path \in DOMAIN positions /\ line \in positions[path]

-----------------------------------------------------------------------------
(* The documents the agent writes. A document that is no JSON has no version. *)
Wellformed(comment) ==
    /\ comment.path # <<>> /\ comment.body # ""
    /\ comment.line > 0
    /\ comment.end # 0 => comment.end >= comment.line
    /\ Known(comment.severity)

ParseOutput(document) ==
    /\ document.version = OutputSchemaVersion
    /\ document.summary # ""
    /\ \A i \in DOMAIN document.comments : Wellformed(document.comments[i])

ParseTriage(document) ==
    /\ document.version = OutputSchemaVersion
    /\ \E i \in DOMAIN document.paths : document.paths[i] # <<>>

-----------------------------------------------------------------------------
(* Comment by comment: a comment is dropped for the first reason there is,   *)
(* and a repeated one counts as said once. An end outside the diff is given  *)
(* up, the comment is not.                                                   *)
Shorten(c, positions) ==
    IF c.end > c.line /\ ~LineAllowed(positions, c.path, c.end) THEN [c EXCEPT !.end = 0] ELSE c

SiftComment(s, c, positions, minSeverity) ==
    LET key == <<c.path, c.line, c.title>>
    IN  CASE ~AtLeast(c.severity, minSeverity) ->
                 [s EXCEPT !.belowSeverity = @ + 1]
          [] AtLeast(c.severity, minSeverity) /\ ~LineAllowed(positions, c.path, c.line) ->
                 [s EXCEPT !.outOfDiff = @ + 1]
          [] OTHER ->
                 IF key \in s.seen THEN [s EXCEPT !.duplicate = @ + 1]
                 ELSE [s EXCEPT !.seen = @ \cup {key}, !.kept = Append(@, Shorten(c, positions))]

Unsifted == [kept |-> <<>>, seen |-> {}, belowSeverity |-> 0, outOfDiff |-> 0, duplicate |-> 0]
Sift(comments, positions, minSeverity) ==
    LET sift(s, c) == SiftComment(s, c, positions, minSeverity)
    IN  FoldLeft(sift, Unsifted, comments)

\* The order of a stable sort: every finding after those that come before it.
Before(found, i, j) ==
    \/ Rank(found[i].severity) < Rank(found[j].severity)
    \/ Rank(found[i].severity) = Rank(found[j].severity) /\ i < j
MostSeriousFirst(found) ==
    LET place(i) == 1 + Cardinality({j \in DOMAIN found : Before(found, j, i)})
    IN  [p \in DOMAIN found |-> found[CHOOSE i \in DOMAIN found : place(i) = p]]

\* Mutant: the cap takes the first findings, the most serious of these first.
CapThenSort(output, positions, limits) ==
    LET sifted == Sift(output.comments, positions, limits.minSeverity)
        cap    == IF limits.maxComments < 0 THEN 0 ELSE limits.maxComments
        first  == SubSeq(sifted.kept, 1, Min({cap, Len(sifted.kept)}))
    IN  [findings |-> MostSeriousFirst(first), outOfDiff |-> sifted.outOfDiff,
         belowSeverity |-> sifted.belowSeverity, duplicate |-> sifted.duplicate,
         excess |-> Len(sifted.kept) - Len(first)]

Sanitize(output, positions, limits) ==
    LET sifted == Sift(output.comments, positions, limits.minSeverity)
        cap    == IF limits.maxComments < 0 THEN 0 ELSE limits.maxComments
        sorted == MostSeriousFirst(sifted.kept)
        posted == SubSeq(sorted, 1, Min({cap, Len(sorted)}))
    IN  [findings |-> posted, outOfDiff |-> sifted.outOfDiff,
         belowSeverity |-> sifted.belowSeverity, duplicate |-> sifted.duplicate,
         excess |-> Len(sorted) - Len(posted)]
Dropped(s) == s.outOfDiff + s.belowSeverity + s.duplicate + s.excess

-----------------------------------------------------------------------------
(* What a review reads of a change that is too large (worker/triage.go).     *)
LinesOf(files) == FoldLeft(LAMBDA n, f : n + f.additions + f.deletions, 0, files)

TooLarge(diff, maxLines) == maxLines > 0 /\ (LinesOf(diff.files) > maxLines \/ diff.truncated)

SelectFiles(diff, paths) ==
    LET files  == Range(diff.files)
        wanted == {f \in files : \/ f.path \in paths
                                 \/ f.previous # <<>> /\ f.previous \in paths}
        left   == Only(diff.files, files \ wanted)
    IN  [diff    |-> [diff EXCEPT !.files = Only(@, wanted)],
         skipped |-> [i \in DOMAIN left |-> left[i].path]]

\* A selection that names nothing of the change is no selection.
Narrowed(diff, paths) ==
    LET selected == SelectFiles(diff, paths)
    IN  IF selected.diff.files = <<>> THEN [diff |-> diff, skipped |-> <<>>] ELSE selected

FilterPaths(diff, ignore) ==
    [diff EXCEPT !.files = Only(@, {f \in Range(@) : ~Matched(ignore, f.path)})]
=============================================================================
