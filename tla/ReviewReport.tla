---------------------------- MODULE ReviewReport ----------------------------
(* One review, from the pull request to what is said of it                   *)
(* (worker/review.go: review, incremental, post; worker/triage.go): which    *)
(* files are fetched, left out, set aside or read, and which findings reach  *)
(* the pull request. Whether a review may run at all is ReviewJob's subject; *)
(* the agent is whatever writes the documents of the pull request's record.  *)
EXTENDS ForgeDiff, Findings, ReviewRequest

CONSTANTS Pulls,        \* the pull requests, their platforms and the deployments that review them
          MaxDiffLines  \* a longer change goes through triage

-----------------------------------------------------------------------------
(* What a platform and an agent may send. A patch is a unified diff: a hunk  *)
(* says where it starts and how many lines of the new side it shows, and     *)
(* starts after the one before it; ended is that it ends with a newline.     *)
Heads(patch) == {p \in DOMAIN patch : patch[p].tag = "@@"}
Body(patch, h, tag) == {p \in DOMAIN patch : /\ p > h /\ patch[p].tag \in {" ", tag}
                                             /\ \A g \in Heads(patch) : g > h => p < g}
WellFormed(patch, ended) ==
    /\ patch \in Seq(Range(patch)) /\ 1 \in Heads(patch)
    /\ \A p \in DOMAIN patch : \/ patch[p].tag \in {"@@", " ", "+", "-", "no newline"}
                               \/ ended /\ p = Len(patch) /\ patch[p].tag = ""
    /\ ended => patch[Len(patch)].tag = ""
    /\ \A h \in Heads(patch) : /\ patch[h].new.start \in Nat
                               /\ patch[h].new.count = Cardinality(Body(patch, h, "+"))
    /\ \A g, h \in Heads(patch) : g < h => patch[g].new.start < patch[h].new.start

IsComment(c) ==
    /\ c = [path |-> c.path, line |-> c.line, end |-> c.end, severity |-> c.severity, title |-> c.title,
            body |-> c.body]
    /\ c.line \in Int /\ c.end \in Int

Content(object) == IF object = <<>> THEN <<>> ELSE object[1]
ObjectsOf(p, which, ch) ==
    {<<>>, ch.object, ch.originalObject}
        \cup (IF MustLookUp(ch) THEN {p.objects[which][PathBefore(ch)]} ELSE {})
ContentsOf(p, which) ==
    {<<>>} \cup UNION {{Content(o) : o \in ObjectsOf(p, which, ch)} : ch \in Range(Kept(p.listing[which]))}

FileOf(p, entry) == CASE p.platform = "github" -> GitHubFile(entry)
                      [] p.platform = "gitlab" -> GitLabFile(entry)
                      [] p.platform = "azure"  -> AzureFile(entry)
Entries(p, which) == {i \in DOMAIN p.listing[which] : p.platform = "azure" => IsFile(p.listing[which][i])}

(* A listing names a file once; a comparison lists at least what was pushed. *)
IsPull(p) ==
    /\ p.platform \in {"github", "gitlab", "azure"}
    /\ \A which \in {"diff", "compare"} : p.listing[which] \in Seq(Range(p.listing[which]))
    /\ \A i, j \in Entries(p, "diff") :
          FileOf(p, p.listing["diff"][i]).path = FileOf(p, p.listing["diff"][j]).path => i = j
    /\ p.pushed \subseteq {FileOf(p, p.listing["compare"][i]).path : i \in Entries(p, "compare")}
    /\ IF p.platform = "azure"
       THEN \A which \in {"diff", "compare"} : \A text \in ContentsOf(p, which) : text \in Seq(Range(text))
       ELSE \A i \in Entries(p, "diff") :
               LET patch == FileOf(p, p.listing["diff"][i]).patch
               IN  patch = <<>> \/ WellFormed(patch, p.platform # "github")
    /\ p.deployment.maxComments \in Int
    /\ p.file.form = "mapping" /\ p.file.config.review # Unset =>
          p.file.config.review.maxComments \in Int \cup {Unset}
    /\ \A document \in p.documents :
          /\ document.comments \in Seq(Range(document.comments))
          /\ \A i \in DOMAIN document.comments : IsComment(document.comments[i])

ASSUME PullsAssumption == \A p \in Pulls : IsPull(p)

-----------------------------------------------------------------------------
VARIABLES pc,       \* where the review is
          full,     \* the pull request's diff, without the ignored files
          shown,    \* the diff the agent reviews
          since,    \* it is only what was pushed since the last review
          skipped,  \* the paths triage set aside
          passes,   \* what the agent was asked to run: [mode, engine, model, focus]
          talk,     \* the engine whose conversation is remembered
          attempt,  \* the runs of the review's agent
          result,   \* what the agent wrote
          report,   \* what is left of its findings
          posted,   \* the findings said at their lines
          refused,  \* how many the platform did not place
          summary   \* the summary comment: the paths, findings and notes in it

report_vars == <<full, shown, since, skipped, passes, talk, attempt, result, report, posted, refused, summary>>
vars == <<pull, reading, fill, mishaps, pc, report_vars>>

Nothing == [files |-> <<>>, truncated |-> FALSE]
NoReport == [findings |-> <<>>, outOfDiff |-> 0, belowSeverity |-> 0, duplicate |-> 0, excess |-> 0]
NoResult == [version |-> 0, summary |-> "", comments |-> <<>>]
NoSummary == [skipped |-> <<>>, findings |-> {}, notes |-> {}]

Deployment == pull.deployment
Resolved == SettingsFor(Deployment, pull.conventions, pull.file)
Settings == Resolved.settings
Request == Requested(Deployment, pull.command, Settings.model)
Azure == pull.platform = "azure"

Init ==
    /\ pull \in {p \in Pulls : RequireADK(p.deployment) /\ RequireCommandEngines(p.deployment)}
    /\ FillInit /\ reading = "diff"
    /\ pc = "settings"
    /\ full = Nothing /\ shown = Nothing /\ since = FALSE /\ skipped = <<>>
    /\ passes = {} /\ talk = Own /\ attempt = 0 /\ result = NoResult /\ report = NoReport
    /\ posted = {} /\ refused = 0 /\ summary = NoSummary

Fail == pc' = "failed"
Keep == UNCHANGED <<pull, reading, fill>>

\* A draft is left alone unless a command asked.
ReadSettings ==
    /\ pc = "settings"
    /\ pc' = IF \/ ~ReviewsKind(Settings, pull.kind)
                \/ pull.draft /\ Settings.skipDraft /\ pull.kind # "command"
             THEN "not asked" ELSE "diff"
    /\ Keep /\ UNCHANGED <<mishaps, report_vars>>

-----------------------------------------------------------------------------
(* The whole diff, without the files the repository leaves out.              *)
Got(diff) ==
    LET kept == FilterPaths(diff, Settings.ignore)
    IN  /\ full' = kept
        /\ shown' = kept
        /\ pc' = IF kept.files = <<>> THEN "nothing" ELSE "since"
        /\ UNCHANGED <<since, skipped, passes, talk, attempt, result, report, posted, refused, summary>>

PlatformDiff ==
    IF pull.platform = "github" THEN Paged(Mapped(pull.listing["diff"], GitHubFile))
                                ELSE Paged(Mapped(pull.listing["diff"], GitLabFile))

FetchDiff ==
    /\ pc = "diff"
    /\ IF Azure
       THEN StartFill("diff") /\ pc' = "filling" /\ UNCHANGED report_vars
       ELSE Got(PlatformDiff) /\ UNCHANGED <<reading, fill>>
    /\ UNCHANGED <<pull, mishaps>>

FailDiff ==
    /\ pc = "diff" /\ Mishap /\ Fail
    /\ Keep /\ UNCHANGED report_vars

Fill ==
    /\ pc = "filling" /\ Filling
    /\ UNCHANGED <<pull, reading, pc, report_vars>>

-----------------------------------------------------------------------------
(* What was pushed since the last review, if the platform can tell. It is    *)
(* not filtered.                                                             *)
Since(partial) ==
    /\ pc' = "triage"
    /\ IF partial.files = <<>> THEN UNCHANGED <<shown, since>>
       ELSE shown' = partial /\ since' = TRUE
    /\ UNCHANGED <<full, skipped, passes, talk, attempt, result, report, posted, refused, summary>>

ReadsEverything == pull.full \/ pull.since \in {"never", "head"}

PlatformComparison ==
    IF pull.platform = "github" THEN Paged(Mapped(pull.listing["compare"], GitHubFile))
                                ELSE GitLabComparison(pull.listing["compare"], pull.timeout)

Incremental ==
    /\ pc = "since"
    /\ IF ReadsEverything \/ pull.since = "gone"
       THEN pc' = "triage" /\ UNCHANGED <<reading, fill, report_vars>>
       ELSE IF Azure
       THEN StartFill("compare") /\ pc' = "filling" /\ UNCHANGED report_vars
       ELSE Since(PlatformComparison) /\ UNCHANGED <<reading, fill>>
    /\ UNCHANGED <<pull, mishaps>>

FailCompare ==
    /\ pc = "since" /\ ~ReadsEverything /\ Mishap
    /\ pc' = "triage"
    /\ Keep /\ UNCHANGED report_vars

\* Azure's diff or comparison is there; a broken comparison is no comparison.
EndFill ==
    /\ pc = "filling" /\ Filled
    /\ \/ broken /\ reading = "diff" /\ Fail /\ UNCHANGED report_vars
       \/ broken /\ reading = "compare" /\ pc' = "triage" /\ UNCHANGED report_vars
       \/ ~broken /\ reading = "diff" /\ Got(FilledDiff)
       \/ ~broken /\ reading = "compare" /\ Since(FilledDiff)
    /\ files' = <<>> /\ next' = 1 /\ budget' = MaxBytes /\ over' = FALSE /\ broken' = FALSE
    /\ UNCHANGED <<pull, reading, worker, mishaps>>

-----------------------------------------------------------------------------
(* A first pass says what of a large change to read; without a usable answer *)
(* all of it is read.                                                        *)
Runs(pass) == CanRun(pass.engine, pass.model)

Triage ==
    /\ pc = "triage"
    /\ pc' = "agent"
    /\ IF ~TooLarge(shown, MaxDiffLines) THEN UNCHANGED <<shown, skipped, passes>>
       ELSE LET pass == [mode   |-> "triage", focus |-> <<>>,
                         engine |-> TriageEngine(Deployment, Request),
                         model  |-> TriageModel(Deployment, Request)]
            IN  /\ passes' = passes \cup {pass}
                /\ \E document \in pull.triages :
                       LET paths == IF Runs(pass) /\ ParseTriage(document) THEN Range(document.paths) ELSE {}
                           read  == Narrowed(shown, paths)
                       IN  shown' = read.diff /\ skipped' = read.skipped
    /\ Keep /\ UNCHANGED <<mishaps, full, since, talk, attempt, result, report, posted, refused, summary>>

\* An answer that breaks the contract is asked for once more. The conversation
\* is remembered unless it is on an engine the command asked for.
ReviewPass == [mode |-> "review", focus |-> FocusOf(pull.command, Settings.focus),
               engine |-> EngineFor(Deployment, Request), model |-> Request.model]

RunAgent ==
    /\ pc = "agent" /\ Runs(ReviewPass)
    /\ attempt' = attempt + 1
    /\ passes' = passes \cup {ReviewPass}
    /\ \E document \in pull.documents :
        /\ result' = document
        /\ IF ParseOutput(document)
           THEN /\ report' = Sanitize(document, Positions(full.files), Settings)
                /\ talk' = IF Request.engine = Own THEN ReviewPass.engine ELSE talk
                /\ pc' = "summary"
           ELSE /\ pc' = IF attempt = 0 THEN "agent" ELSE "failed"
                /\ UNCHANGED <<report, talk>>
    /\ Keep /\ UNCHANGED <<mishaps, full, shown, since, skipped, posted, refused, summary>>

\* The engine does not run the model: nothing checks it for the deployment's own.
RefuseModel ==
    /\ pc = "agent" /\ ~Runs(ReviewPass) /\ Fail
    /\ passes' = passes \cup {ReviewPass}
    /\ Keep /\ UNCHANGED <<mishaps, full, shown, since, skipped, talk, attempt, result, report, posted, refused, summary>>

FailAgent ==
    /\ pc = "agent" /\ Mishap /\ Fail
    /\ Keep /\ UNCHANGED report_vars

-----------------------------------------------------------------------------
(* The summary comment replaces the one before it.                           *)
Named(findings) ==
    [skipped |-> skipped, findings |-> Range(findings), notes |-> Resolved.notes \cup Request.notes]

UpsertSummary ==
    /\ pc = "summary"
    /\ summary' = Named(<<>>)
    /\ pc' = IF report.findings = <<>> THEN "done" ELSE "review"
    /\ Keep /\ UNCHANGED <<mishaps, full, shown, since, skipped, passes, talk, attempt, result, report, posted, refused>>

\* The fallback: the same summary, and the findings as text.
UpsertFindings ==
    /\ pc = "fallback"
    /\ summary' = Named(report.findings)
    /\ pc' = "done"
    /\ Keep /\ UNCHANGED <<mishaps, full, shown, since, skipped, passes, talk, attempt, result, report, posted, refused>>

FailSummary ==
    /\ pc \in {"summary", "fallback"} /\ Mishap /\ Fail
    /\ Keep /\ UNCHANGED report_vars

(* GitHub takes all of a review or none of it. *)
CreateReviewAtOnce ==
    /\ pc = "review" /\ pull.platform = "github"
    /\ \/ posted' = Range(report.findings) /\ pc' = "done" /\ UNCHANGED mishaps
       \/ pc' \in {"fallback", "failed"} /\ Mishap /\ UNCHANGED posted
    /\ Keep /\ UNCHANGED <<full, shown, since, skipped, passes, talk, attempt, result, report, refused, summary>>

(* GitLab and Azure take the findings one by one: the next is the one after  *)
(* those that were placed or refused.                                        *)
Answered == Cardinality(posted) + refused
OneByOne == pc = "review" /\ ~(pull.platform = "github") /\ Answered < Len(report.findings)

PlaceComment ==
    /\ OneByOne
    /\ posted' = posted \cup {report.findings[Answered + 1]}
    /\ Keep /\ UNCHANGED <<pc, mishaps, full, shown, since, skipped, passes, talk, attempt, result, report, refused, summary>>

\* GitLab gives a refused place up, Azure any finding it could not post.
RefuseComment ==
    /\ OneByOne /\ Mishap
    /\ refused' = refused + 1
    /\ Keep /\ UNCHANGED <<pc, full, shown, since, skipped, passes, talk, attempt, result, report, posted, summary>>

\* Another answer of GitLab's ends the review; before the first finding, what
\* it says of the merge request may turn all of them down.
FailReview ==
    /\ OneByOne /\ ~Azure /\ Mishap
    /\ pc' \in {"failed"} \cup (IF Answered = 0 THEN {"fallback"} ELSE {})
    /\ Keep /\ UNCHANGED report_vars

\* Mutant: that every place was refused is not noticed.
EndReviewQuietly ==
    /\ pc = "review" /\ pull.platform # "github" /\ Answered = Len(report.findings)
    /\ pc' = IF Azure /\ refused > 0 THEN "failed" ELSE "done"
    /\ Keep /\ UNCHANGED <<mishaps, report_vars>>

EndReview ==
    /\ pc = "review" /\ pull.platform # "github" /\ Answered = Len(report.findings)
    /\ pc' = CASE Azure  -> IF refused > 0 THEN "failed" ELSE "done"
               [] ~Azure -> IF posted = {} THEN "fallback" ELSE "done"
    /\ Keep /\ UNCHANGED <<mishaps, report_vars>>

Next ==
    \/ ReadSettings \/ FetchDiff \/ FailDiff \/ Fill \/ EndFill
    \/ Incremental \/ FailCompare \/ Triage \/ RunAgent \/ RefuseModel \/ FailAgent
    \/ UpsertSummary \/ UpsertFindings \/ FailSummary
    \/ CreateReviewAtOnce \/ PlaceComment \/ RefuseComment \/ FailReview \/ EndReview

Spec == Init /\ [][Next]_vars

-----------------------------------------------------------------------------
(* What a line of a side of a file is, read off two files: the reference the *)
(* patches are compared with.                                                *)
Lcs(old, cur) ==
    LET l[i \in 0 .. Len(old), j \in 0 .. Len(cur)] ==
            IF i = 0 \/ j = 0 THEN 0
            ELSE IF old[i] = cur[j] THEN l[i - 1, j - 1] + 1
            ELSE Max({l[i - 1, j], l[i, j - 1]})
    IN  l[Len(old), Len(cur)]

(* The patch is one of old, and old with the patch applied is cur: every hunk *)
(* says where it is on both sides, how long, and what is there.              *)
Applied(patch, old, cur) ==
    LET LineAt(p) == [text |-> patch[p].text,
                      nl |-> ~(p < Len(patch) /\ patch[p + 1].tag = "no newline")]
        Side(h, tag) == LET own == SetToSortSeq(Body(patch, h, tag), <)
                        IN  [i \in DOMAIN own |-> LineAt(own[i])]
        Old(m, n) == SubSeq(old, m, Min({n, Len(old)}))
        Begin(r) == IF r.count = 0 THEN r.start ELSE r.start - 1
        hunks == SetToSortSeq(Heads(patch), <)
        done[n \in 0 .. Len(hunks)] ==
            IF n = 0 THEN [used |-> 0, written |-> <<>>, right |-> TRUE]
            ELSE LET d   == done[n - 1]
                     h   == hunks[n]
                     at  == Begin(patch[h].old)
                     end == at + patch[h].old.count
                     gap == d.written \o Old(d.used + 1, at)
                 IN  [used    |-> end,
                      written |-> gap \o Side(h, "+"),
                      right   |-> /\ d.right /\ d.used <= at
                                  /\ end <= Len(old) /\ Side(h, "-") = Old(at + 1, end)
                                  /\ Len(Side(h, "+")) = patch[h].new.count
                                  /\ Begin(patch[h].new) = Len(gap)]
        end == done[Len(hunks)]
    IN  end.right /\ end.written \o Old(end.used + 1, Len(old)) = cur

(* The patch kibitz computes for a file of Azure's is the change of that     *)
(* file, with as few lines as there can be unless the search was given up; a *)
(* file is without one only if there is nothing to show of it or the diff is *)
(* marked as truncated (azuredevops/diff.go, internal/textdiff).             *)
PatchIsTheChange ==
    pc = "filling" /\ Filled /\ ~broken /\ mishaps = 0 =>
        \A i \in DOMAIN files :
            LET ch   == Changes[i]
                old  == Content(pull.objects[reading][PathBefore(ch)])
                cur  == Content(pull.objects["head"][ch.path])
                least == Len(old) + Len(cur) - 2 * Lcs(old, cur)
            IN  IF files[i].patch = <<>>
                THEN \/ old = cur \/ FilledDiff.truncated
                     \/ IsBinary(old) \/ IsBinary(cur)
                     \/ Len(old) > MaxLines \/ Len(cur) > MaxLines
                ELSE /\ Applied(files[i].patch, old, cur)
                     /\ least <= MaxEdits => files[i].additions + files[i].deletions = least

(* Where the pull request's diff shows a line of a file: in a hunk, or on    *)
(* the line after the last one where the patch ends with a newline, which is *)
(* taken for a line too.                                                     *)
Hunks(path) ==
    UNION {LET f == full.files[i] IN {f.patch[p].new : p \in Heads(f.patch)} :
              i \in {j \in DOMAIN full.files : full.files[j].path = path}}
Shows(path, line) ==
    \E h \in Hunks(path) :
        /\ h.start > 0 /\ h.start <= line
        /\ \/ line < h.start + h.count
           \/ /\ pull.platform # "github" /\ line = h.start + h.count
              /\ \A g \in Hunks(path) : g.start <= h.start

(* The findings that are posted are the agent's: each on a line the pull     *)
(* request's diff shows, of a file that is not ignored, as serious as was    *)
(* asked for, said once; no more than the deployment allows whatever the     *)
(* repository asks, none of those left out more serious than one that is     *)
(* posted; and every other one is counted (reviewer/output.go,               *)
(* worker/settings.go).                                                      *)
FindingsFit ==
    pc \in {"summary", "review", "fallback", "done"} =>
        LET F        == Range(report.findings)
            C        == result.comments
            Key(c)   == <<c.path, c.line, c.title>>
            fit      == {i \in DOMAIN C : /\ AtLeast(C[i].severity, Settings.minSeverity)
                                          /\ Shows(C[i].path, C[i].line)}
            Says(f, c) == /\ [c EXCEPT !.end = f.end] = f
                          /\ f.end = c.end \/ (f.end = 0 /\ ~Shows(c.path, c.end))
            first(k) == Min({i \in fit : Key(C[i]) = k})
            keys     == {Key(C[i]) : i \in fit}
            said     == {Key(f) : f \in F}
        IN  /\ Len(report.findings) = Min({Cardinality(keys), Max({0, Settings.maxComments})})
            /\ Cardinality(said) = Len(report.findings)
            /\ Deployment.maxComments > 0 => Len(report.findings) <= Deployment.maxComments
            /\ \A f \in F : /\ Key(f) \in keys /\ Says(f, C[first(Key(f))])
                             /\ ~Matched(Settings.ignore, f.path)
                             /\ \A k \in keys \ said : Rank(f.severity) <= Rank(C[first(k)].severity)
            /\ Len(report.findings) + Dropped(report) = Len(C)

(* When a review is over, every file of the pull request that it was given   *)
(* and that is not ignored was shown to the agent, was seen by the review    *)
(* before, or is named as not reviewed; and every finding was said at its    *)
(* line or in the summary, unless GitLab refused its place and took another  *)
(* (worker/review.go post, worker/triage.go).                                *)
Paths(diff) == {diff.files[i].path : i \in DOMAIN diff.files}
Seen == IF since THEN Paths(full) \ pull.pushed ELSE {}

SaidOrShown ==
    pc = "done" =>
        /\ shown.files # <<>>
        /\ Paths(full) \subseteq Paths(shown) \cup Range(summary.skipped) \cup Seen
                                  \cup (IF since /\ shown.truncated THEN pull.pushed ELSE {})
        /\ \/ Range(report.findings) \subseteq posted \cup summary.findings
           \/ pull.platform = "gitlab" /\ posted # {} /\ refused > 0

(* A pass on an engine that a command asked for is never given a model that  *)
(* engine cannot run, the triage pass and its model included; a model the    *)
(* deployment did not choose is one it lets a comment choose, or the         *)
(* repository's; what was asked for and not used is said in the summary; and *)
(* the conversation a later question continues is one the deployment's own   *)
(* engine can open (worker/settings.go commandModel and commandEngine,       *)
(* triage.go triageEngine, review.go:372).                                   *)
RequestHonoured ==
    LET asked(flag) == AskedOf(pull.command, flag)
        Refusal(flag, used) ==
            asked(flag) \in {<<>>, used} \/ <<flag, asked(flag), "refused">> \in summary.notes
    IN  /\ \A p \in passes :
              /\ p.engine # Deployment.engine => Runs(p) /\ p.engine \in Deployment.commandEngines
              /\ \/ p.model \in {Deployment.triageModel, Settings.model}
                 \/ MatchAny(Deployment.commandModels, p.model)
        /\ talk \in {Own, Deployment.engine}
        /\ pc = "done" => Refusal("--model", Request.model) /\ Refusal("--engine", <<ReviewPass.engine>>)

(* A finding whose place GitLab refuses is still said somewhere: "a finding  *)
(* kibitz cannot anchor is still worth saying" (gitlab/operations.go:174).   *)
FindingsSaid ==
    pc = "done" => Range(report.findings) \subseteq posted \cup summary.findings
=============================================================================
