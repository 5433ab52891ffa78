--------------------------- MODULE MCReviewReport ---------------------------
(* The pull requests the model checker reviews. *)
EXTENDS ReviewReport, TLC

L(t) == [text |-> t, nl |-> TRUE]
Texts(n) == [1 .. n -> {L("a"), L("b")}]
Open(f) == IF f = <<>> THEN f ELSE [f EXCEPT ![Len(f)].nl = FALSE]
Small == UNION {Texts(n) : n \in 0 .. 2}
Files == UNION {Texts(n) : n \in 0 .. 5} \cup {Open(f) : f \in UNION {Texts(n) : n \in 1 .. 3}}
Odd == {<<L(NUL)>>, [i \in 1 .. 6 |-> L("a")], <<L("a"), L("b")>>}
Pairs == (Files \X Files) \cup (Odd \X Odd)

a == <<"a">>  b == <<"b">>  v == <<"v", "/", "c">>
Rooted(path) == <<"/">> \o path

MCDeployment ==
    [implement |-> FALSE, skipDraft |-> TRUE, language |-> "ja", model |-> <<"m">>, minSeverity |-> "low",
     maxComments |-> 3, guidelines |-> <<>>, servers |-> {}, triageModel |-> <<>>, engine |-> "opencode",
     commandEngines |-> {"adk", "pi"}, commandModels |-> <<Vertex \o <<"gemini-", "*">>, <<"sonnet">>>>]
Cheap == [MCDeployment EXCEPT !.triageModel = <<"haiku">>]
OnAdk == [MCDeployment EXCEPT !.engine = "adk", !.model = <<"gemini-", "pro">>, !.commandEngines = {"pi"},
                              !.commandModels = <<<<"gemini-", "*">>>>]
TooMuch == [OnAdk EXCEPT !.commandModels = <<<<"*">>>>]  \* does not start

NoReview == [enabled |-> Unset, triggers |-> {}, skipDraft |-> Unset, ignore |-> <<>>, focus |-> <<>>,
             language |-> Unset, minSeverity |-> Unset, maxComments |-> Unset, model |-> Unset]
Says(review) ==
    [form |-> "mapping",
     config |-> [version |-> 1, unknown |-> {}, guidelines |-> FALSE, answer |-> Unset, mcp |-> {"x"},
                 implement |-> Unset, review |-> review]]
Missing == [form |-> "missing"]
Everything == Says([NoReview EXCEPT !.ignore = <<<<"*", "*">>>>])

NoListing == [diff |-> <<>>, compare |-> <<>>]
NoObjects == [diff |-> <<>>, compare |-> <<>>, head |-> <<>>]
Base == [platform |-> "github", kind |-> "pr_opened", draft |-> FALSE, full |-> FALSE, since |-> "never",
         pushed |-> {}, file |-> Missing, conventions |-> <<[path |-> "AGENTS.md", state |-> "long"]>>, listing |-> NoListing, timeout |-> FALSE,
         objects |-> NoObjects, triages |-> {}, documents |-> {}, deployment |-> MCDeployment, command |-> Unset]

-----------------------------------------------------------------------------
(* One file of Azure's, with nothing left to review: its patch is the point. *)
Edit == [kinds |-> {"edit"}, path |-> Rooted(a), original |-> <<>>, folder |-> FALSE,
         object |-> <<>>, originalObject |-> <<>>]
OneFile(ch, before, after) ==
    [Base EXCEPT
       !.platform = "azure", !.file = Everything,
       !.listing = [NoListing EXCEPT !.diff = <<ch>>],
       !.objects = [diff |-> Rooted(a) :> before @@ Rooted(b) :> before, compare |-> <<>>,
                    head |-> Rooted(a) :> after]]

Edits == {OneFile([Edit EXCEPT !.object = <<p[2]>>, !.originalObject = <<p[1]>>], <<p[1]>>, <<p[2]>>)
             : p \in Pairs}
OtherKinds ==
    UNION {{OneFile([Edit EXCEPT !.kinds = {"add"}, !.object = <<p[2]>>], <<>>, <<p[2]>>),
            OneFile([Edit EXCEPT !.kinds = {"delete"}, !.object = <<p[1]>>], <<p[1]>>, <<>>),
            OneFile([Edit EXCEPT !.kinds = {"undelete"}, !.object = <<p[2]>>], <<>>, <<p[2]>>),
            OneFile([Edit EXCEPT !.object = <<p[2]>>], <<p[1]>>, <<p[2]>>),
            OneFile([Edit EXCEPT !.kinds = {"edit", "rename"}, !.original = Rooted(b), !.object = <<p[2]>>],
                    <<p[1]>>, <<p[2]>>)}
              : p \in Small \X Small}

-----------------------------------------------------------------------------
(* Reviews from end to end. *)
Old == <<L("a"), L("a"), L("b")>>
New == <<L("a"), L("b"), L("b"), L("a")>>
Long == [i \in 1 .. 5 |-> L("b")]
Line(tag, text) == [tag |-> tag, text |-> text]
Hunk(start, count, at, long, lines) ==
    <<[tag |-> "@@", old |-> [start |-> start, count |-> count],
       new |-> [start |-> at, count |-> long]]>> \o lines
Changed == Hunk(1, 3, 1, 4, <<Line(" ", "a"), Line("-", "a"), Line("+", "b"), Line(" ", "b"), Line("+", "a")>>)
Grown   == Hunk(1, 3, 1, 5, <<Line("-", "a"), Line("-", "a"), Line(" ", "b"), Line("+", "b"),
                              Line("+", "b"), Line("+", "b"), Line("+", "b")>>)
Created == Hunk(0, 0, 1, 3, <<Line("+", "a"), Line("+", "a"), Line("+", "b")>>)
Undone  == Hunk(1, 5, 1, 3, <<Line("+", "a"), Line("+", "a"), Line(" ", "b"), Line("-", "b"),
                              Line("-", "b"), Line("-", "b"), Line("-", "b")>>)
Again   == Hunk(1, 4, 1, 5, <<Line("-", "a"), Line(" ", "b"), Line(" ", "b"), Line("-", "a"),
                              Line("+", "b"), Line("+", "b"), Line("+", "b")>>)

GitHubEntry(path, old, cur, patch) ==
    [filename |-> path, previous_filename |-> <<>>, patch |-> patch,
     additions |-> CountChanges(patch, "+", "++"), deletions |-> CountChanges(patch, "-", "--")]
GitLabEntry(path, old, cur, patch) ==
    [old_path |-> path, new_path |-> path, diff |-> Raws(patch), renamed |-> FALSE, deleted |-> FALSE]
AzureEntry(path, old, cur, patch) ==
    [Edit EXCEPT !.path = Rooted(path), !.object = <<cur>>, !.originalObject = <<old>>]
Folder == [Edit EXCEPT !.kinds = {"add"}, !.path = Rooted(<<"v">>), !.folder = TRUE]

Found(path, line, end, severity, title) ==
    [path |-> path, line |-> line, end |-> end, severity |-> severity, title |-> title, body |-> "why"]
Document(comments) == [version |-> 1, summary |-> "s", comments |-> comments]
Comments ==
    <<Found(a, 2, 9, "medium", "x"), Found(a, 2, 0, "high", "x"), Found(a, 2, 3, "low", "y"),
      Found(a, 5, 0, "high", "x"), Found(b, 1, 2, "critical", "x"), Found(v, 1, 0, "critical", "x"),
      Found(a, 3, 0, "info", "x"), Found(b, 2, 0, "low", "z"), Found(a, 9, 0, "high", "far")>>
Garbled == [Document(<<>>) EXCEPT !.version = 2]
MCDocuments == {Document(Comments), Document(<<>>), Garbled}
Picks(paths) == [version |-> 1, summary |-> "", paths |-> paths]
MCTriages == {Picks(<<a>>), Picks(<<<<"n">>>>), Picks(<<>>)}

Review(platform, Entry(_, _, _, _)) ==
    [Base EXCEPT !.platform = platform, !.documents = MCDocuments, !.triages = MCTriages,
                 !.listing.diff = <<Entry(a, Old, New, Changed), Entry(v, Old, Long, Grown), Entry(b, <<>>, Old, Created)>>,
                 !.listing.compare = <<Entry(b, Long, Old, Undone), Entry(v, New, Long, Again)>>,
                 !.pushed = {b, v},
                 !.objects = [diff    |-> Rooted(a) :> <<Old>> @@ Rooted(v) :> <<Old>> @@ Rooted(b) :> <<<<>>>>,
                              compare |-> Rooted(v) :> <<New>> @@ Rooted(b) :> <<Long>>,
                              head    |-> Rooted(a) :> <<New>> @@ Rooted(v) :> <<Long>> @@ Rooted(b) :> <<Old>>]]
GitHub == Review("github", GitHubEntry)
GitLab == Review("gitlab", GitLabEntry)

Azure3 == [Review("azure", AzureEntry) EXCEPT !.listing.diff = <<Folder>> \o @]
Renamed == [GitLab EXCEPT !.listing.diff[1].old_path = b, !.listing.diff[1].renamed = TRUE]
Wide(pr) == [pr EXCEPT !.listing.diff = @ \o <<[@[1] EXCEPT !.filename = <<"w">>]>>]

\* What the repository asks: less, more than it may have, and what it may not.
Strict == Says([NoReview EXCEPT !.ignore = <<<<"v", "/">>, <<"*", "*", "/", "z", "?">>>>,
                                !.minSeverity = "medium", !.maxComments = 1])
Greedy == Says([NoReview EXCEPT !.maxComments = 9, !.minSeverity = "info", !.skipDraft = FALSE])
Wrong  == Says([NoReview EXCEPT !.minSeverity = "grave", !.enabled = FALSE])
Off    == Says([NoReview EXCEPT !.enabled = FALSE])
OnOpen == Says([NoReview EXCEPT !.triggers = {"pr_opened"}, !.ignore = <<<<"?">>>>])
Newer  == [Greedy EXCEPT !.config.version = 2]

Reviews ==
    LET Asks(pr, file) == [pr EXCEPT !.file = file]
        Later(pr) == [pr EXCEPT !.since = "known", !.kind = "pr_updated"]
    IN  {GitHub, GitLab, Azure3, Renamed, Wide(GitHub),
         [GitHub EXCEPT !.draft = TRUE], [Asks(GitHub, Greedy) EXCEPT !.draft = TRUE],
         Later(GitHub), Later(GitLab), Later(Azure3), [Later(GitLab) EXCEPT !.timeout = TRUE],
         [Later(GitHub) EXCEPT !.since = "gone"], [Later(GitHub) EXCEPT !.since = "head"],
         [Later(GitLab) EXCEPT !.full = TRUE, !.kind = "command", !.draft = TRUE],
         [Later(GitHub) EXCEPT !.listing.compare = <<>>, !.pushed = {}],
         [Later(Azure3) EXCEPT !.listing.compare = <<>>, !.pushed = {}],
         Asks(GitHub, Strict), Asks(Later(GitLab), Strict), Asks(Azure3, Strict),
         Asks(GitLab, Greedy), Asks(GitHub, Wrong), Asks(GitHub, Off), Asks(GitHub, Newer),
         Asks(GitLab, OnOpen), Asks(Later(GitHub), OnOpen)}

\* Commands with words to them.
Command(deployment, args) ==
    [Wide(GitHub) EXCEPT !.kind = "command", !.deployment = deployment,
                         !.command = [name |-> "review", args |-> args]]
Pro == Vertex \o <<"gemini-", "pro">>
Flag(flag, value) == <<flag, "=">> \o value
Commands ==
    {Command(Cheap, <<<<"--engine">>, <<"adk">>, Flag("--model", Pro)>>),
     Command(MCDeployment, <<<<"--model">>, Pro, Flag("--engine", <<"adk">>)>>),
     Command(MCDeployment, <<<<"--engine">>, <<"adk">>, <<"--focus">>, <<"security", ",", "speed">>>>),
     Command(Cheap, <<Flag("--model", <<"opus">>), <<"--engine">>, <<"pi">>>>),
     Command(MCDeployment, <<<<"--model">>, <<"--engine">>, <<"pi">>, Flag("--engine", <<"cursor">>)>>),
     Command(MCDeployment, <<Flag("--model", Pro), Flag("--model", <<"sonnet">>), <<"--model">>>>),
     Command(OnAdk, <<Flag("--model", <<"gemini-", "x", "/", "y">>)>>),
     Command(OnAdk, <<<<"--engine">>, <<"pi">>>>), Command(TooMuch, <<>>)}

MCPulls == Edits \cup OtherKinds \cup Reviews \cup Commands
Fetchers == Permutations(Workers)
=============================================================================
