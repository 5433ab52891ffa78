----------------------------- MODULE MCReceiver -----------------------------
(* Deliveries of three platforms: usual ones, and each of them with one thing *)
(* different. What is true of a delivery is written beside it.                *)
EXTENDS Receiver

Name(a, b) == <<a, "/", b>>
Line(words) == [i \in DOMAIN words |-> Word(words[i])]
Asking(c) == Line(<<"/kibitz", c>>)
Fence == Line(<<"ticks3">>)

(* How to show a fenced example: one more backtick around it.                *)
ShortFence == [text |-> <<Line(<<"ticks4">>), Fence, Asking("review"), Fence, Line(<<"ticks4">>)>>,
               asks |-> "nothing"]

(* What a person who reads the text would say it asks for. *)
Texts == {
    [text |-> <<Asking("review")>>, asks |-> "review"],
    [text |-> <<<<>>, Asking("implement")>>, asks |-> "implement"],
    [text |-> <<Line(<<"thanks">>)>>, asks |-> "nothing"],
    [text |-> <<Line(<<"use", "tick", "/kibitz", "review", "tick">>)>>, asks |-> "nothing"],
    [text |-> <<Line(<<"ticks2", "tick", "/kibitz", "ticks2", "tick">>)>>, asks |-> "nothing"],
    [text |-> <<Line(<<"tick", "/kibitz", "review">>)>>, asks |-> "question"],
    [text |-> <<Fence, Asking("review"), Fence>>, asks |-> "nothing"],
    [text |-> <<Fence, Asking("review"), Fence, Asking("review")>>, asks |-> "question"],
    [text |-> <<Line(<<"tildes3">>), Fence, Asking("review")>>, asks |-> "nothing"],
    [text |-> <<Line(<<">", "ticks3">>), Asking("review")>>, asks |-> "question"],
    [text |-> <<Line(<<">>", "ticks3">>), Line(<<">>", "/kibitz", "review">>)>>, asks |-> "nothing"],
    [text |-> <<Line(<<"ticks4">>), Asking("review"), Line(<<"ticks4">>)>>, asks |-> "nothing"],
    [text |-> <<Fence, Asking("review"), Line(<<"ticks4">>), Asking("review")>>, asks |-> "question"],
    ShortFence,
    [text |-> <<Line(<<"ticks3", "x", "ticks3">>), Fence, Asking("review")>>, asks |-> "nothing"],
    [text |-> <<Fence, Line(<<">", "ticks3">>), Asking("review")>>, asks |-> "nothing"],
    [text |-> <<Line(<<"tick", "x", "tick">>), Asking("review")>>, asks |-> "question"],
    [text |-> <<Line(<<"hello">>), Asking("implement")>>, asks |-> "question"],
    [text |-> <<<<Touching("/kibitz", "", "mark"), Word("why")>>>>, asks |-> "question"],
    [text |-> <<<<Touching("/kibitz", "name", ""), Word("review")>>>>, asks |-> "nothing"],
    [text |-> <<Asking("dance")>>, asks |-> "question"]}

Review == [text |-> <<Asking("review")>>, asks |-> "review"]
Title == <<Line(<<"fix", "[review]">>)>>

Truth == [genuine |-> TRUE, writer |-> "ann", asks |-> "nothing", old |-> 1,
          http |-> "whole", garbled |-> FALSE]
With(r, t) == [r EXCEPT !.body = t.text, !.asks = t.asks]

-----------------------------------------------------------------------------
HubPull == [platform |-> "github", signedWith |-> "new", name |-> "pull_request",
            delivery |-> "h1", action |-> "opened", merged |-> FALSE, number |-> 4,
            repo |-> Name("o", "r"), headRepo |-> Name("o", "r"), sender |-> "ann",
            author |-> "ann", app |-> "", body |-> <<>>, title |-> Title, onPull |-> TRUE,
            commentId |-> "c1", inReplyTo |-> "", path |-> "", age |-> <<1>>,
            change |-> <<"github", Name("o", "r"), "pull", 4>>] @@ Truth
HubComment == With([HubPull EXCEPT !.name = "issue_comment", !.action = "created"], Review)
HubInline == [HubComment EXCEPT !.name = "pull_request_review_comment", !.path = "a.go"]
HubIssue == [With(HubComment, [text |-> <<Asking("implement")>>, asks |-> "implement"])
                EXCEPT !.onPull = FALSE, !.change = <<"github", Name("o", "r"), "issue", 4>>]

HubDeliveries ==
    {[HubPull EXCEPT !.action = a, !.merged = m] :
        a \in {"opened", "synchronize", "closed", "ready_for_review", "labeled"}, m \in BOOLEAN}
    \union {With(HubComment, t) : t \in Texts} \union {With(HubIssue, t) : t \in Texts}
    \union UNION {{d, [d EXCEPT !.signedWith = "", !.genuine = FALSE],
                   [d EXCEPT !.signedWith = "old"],
                   [d EXCEPT !.signedWith = "stranger", !.genuine = FALSE],
                   [d EXCEPT !.sender = "kibitz[bot]", !.author = "kibitz[bot]",
                             !.writer = "kibitz[bot]"],
                   [d EXCEPT !.sender = "eve", !.author = "eve", !.writer = "eve"],
                   [d EXCEPT !.sender = "bob", !.author = "bob", !.writer = "bob"],
                   [d EXCEPT !.age = <<9>>, !.old = 9], [d EXCEPT !.delivery = ""],
                   [d EXCEPT !.repo = Name("x", "r"), !.change[2] = Name("x", "r")],
                   [d EXCEPT !.title = <<>>], [d EXCEPT !.garbled = TRUE]} :
                  d \in {HubPull, HubComment, HubInline, HubIssue}}
    \union {[HubComment EXCEPT !.app = "77", !.author = "carl", !.writer = "kibitz[bot]"],
            [HubComment EXCEPT !.action = "edited", !.asks = "nothing"], [HubInline EXCEPT !.inReplyTo = "c0"],
            [HubPull EXCEPT !.name = "push"], [HubPull EXCEPT !.number = 0],
            [HubPull EXCEPT !.http = "get"], [HubPull EXCEPT !.http = "huge"],
            [HubPull EXCEPT !.http = "broken"]}

-----------------------------------------------------------------------------
LabMerge == [platform |-> "gitlab", token |-> "t", signedWith |-> {}, skew |-> <<0>>,
             webhookId |-> "l1", idempotencyKey |-> "", eventId |-> "",
             name |-> "Merge Request Hook", action |-> "open", oldRev |-> "",
             draft |-> Nil, reviewers |-> Nil, sourceProject |-> 1, targetProject |-> 1,
             number |-> 4, repo |-> Name("o", "r"), sender |-> "ann", body |-> <<>>,
             title |-> Title, on |-> "MergeRequest", system |-> FALSE, commentId |-> "n1",
             discussion |-> "", paths |-> <<>>, age |-> <<1>>,
             change |-> <<"gitlab", Name("o", "r"), "pull", 4>>] @@ Truth
LabNote == With([LabMerge EXCEPT !.name = "Note Hook", !.action = ""], Review)
Signed(r, key) == [r EXCEPT !.token = "", !.signedWith = {key}]

LabDeliveries ==
    {[LabMerge EXCEPT !.action = a, !.oldRev = rev, !.draft = d, !.reviewers = n] :
        a \in {"open", "update"}, rev \in {"", "abc"}, d \in {Nil, <<TRUE, FALSE>>},
        n \in {Nil, <<{}, {"bob"}>>}}
    \union {[LabMerge EXCEPT !.action = a] : a \in {"merge", "close", "approved"}}
    \union UNION {{d, Signed(d, "k"), [Signed(d, "other") EXCEPT !.genuine = FALSE],
                   [Signed(d, "other") EXCEPT !.token = "t"],
                   [Signed(d, "k") EXCEPT !.skew = <<9>>, !.genuine = FALSE],
                   [Signed(d, "k") EXCEPT !.skew = Nil, !.genuine = FALSE],
                   [d EXCEPT !.token = "", !.genuine = FALSE],
                   [d EXCEPT !.token = "wrong", !.genuine = FALSE],
                   [d EXCEPT !.webhookId = "", !.eventId = "u1"],
                   [d EXCEPT !.webhookId = ""],
                   [d EXCEPT !.sender = "kibitz", !.writer = "kibitz"],
                   [d EXCEPT !.sender = "bob", !.writer = "bob"],
                   [d EXCEPT !.repo = <<"o", "/", "r", "/", "issue">>,
                             !.change[2] = <<"o", "/", "r", "/", "issue">>]} :
                  d \in {LabMerge, LabNote}}
    \union {[LabNote EXCEPT !.on = "Issue"],
            [LabNote EXCEPT !.system = TRUE, !.asks = "nothing"],
            [LabNote EXCEPT !.action = "update", !.asks = "nothing"], [LabNote EXCEPT !.paths = <<"", "b.go">>],
            [LabMerge EXCEPT !.sourceProject = 2], [LabMerge EXCEPT !.name = "Push Hook"]}

-----------------------------------------------------------------------------
Home(org) == [host |-> "dev.azure.com", legacy |-> "", path |-> <<org>>]
Api(org) == [Home(org) EXCEPT !.path = <<org, "_apis">>]
Legacy(org) == [host |-> "visualstudio.com", legacy |-> org, path |-> <<"p", "_git">>]
NoOrg == [Home("") EXCEPT !.path = <<"_apis">>]

AzPull == [platform |-> "azure_devops", basic |-> <<"hook", "pw">>, header |-> "h",
           name |-> "created", delivery |-> "z1", nested |-> FALSE, number |-> 4,
           status |-> "active", containers |-> <<Home("o")>>, urls |-> <<Api("o")>>,
           project |-> "p", repository |-> "r", createdBy |-> "ann", author |-> "ann",
           body |-> <<>>, title |-> Title, fromFork |-> FALSE, commentId |-> "",
           commentType |-> "text", written |-> Nil, updated |-> Nil, thread |-> "5", age |-> <<1>>,
           repo |-> <<>>, change |-> <<"azure_devops", <<"o", "/", "p", "/", "r">>, "pull", 4>>]
          @@ Truth
AzComment == With([AzPull EXCEPT !.name = "commented", !.nested = TRUE, !.commentId = "2",
                                 !.containers = <<Azure!NoURL>>, !.written = <<1>>], Review)

AzDeliveries ==
    {[AzPull EXCEPT !.name = n, !.status = s] :
        n \in {"created", "updated", "merged", "pushed"},
        s \in {"active", "completed", "abandoned"}}
    \union UNION {{d, [d EXCEPT !.basic = <<>>, !.genuine = FALSE],
                   [d EXCEPT !.basic = <<"hook", "bad">>, !.genuine = FALSE],
                   [d EXCEPT !.header = "", !.genuine = FALSE],
                   [d EXCEPT !.header = "no", !.genuine = FALSE],
                   [d EXCEPT !.urls = <<Legacy("o")>>], [d EXCEPT !.urls = <<NoOrg, Api("o")>>],
                   [d EXCEPT !.containers = <<>>],
                   [d EXCEPT !.createdBy = "kibitz", !.author = "kibitz", !.writer = "kibitz"],
                   [d EXCEPT !.createdBy = "eve", !.author = "eve", !.writer = "eve"],
                   [d EXCEPT !.project = "q", !.change[2] = <<"o", "/", "q", "/", "r">>]} :
                  d \in {AzPull, AzComment}}
    \union {[AzPull EXCEPT !.number = 0], [AzPull EXCEPT !.urls = <<>>],
            [AzComment EXCEPT !.urls = <<>>, !.change[2] = <<"p", "/", "r">>],
            [AzComment EXCEPT !.commentType = "system", !.asks = "nothing"],
            [AzComment EXCEPT !.written = <<2>>, !.updated = <<1>>, !.asks = "nothing"],
            [AzComment EXCEPT !.written = <<9>>, !.old = 9], [AzComment EXCEPT !.thread = ""]}

-----------------------------------------------------------------------------
(* What may meet at the other slot. *)
Again == [HubComment EXCEPT !.delivery = "h2"]
OtherIssue == [HubIssue EXCEPT !.delivery = "h3"]
OtherPull == [AzPull EXCEPT !.delivery = "z2"]
Companions == {Again, OtherIssue, OtherPull}
Few == {HubComment, [HubComment EXCEPT !.sender = "eve", !.author = "eve", !.writer = "eve"]}

MCScenarios ==
    <<[backend |-> "pubsub", faults |-> 0, deliveries |-> <<HubDeliveries, Companions>>],
      [backend |-> "pubsub", faults |-> 0,
       deliveries |-> <<LabDeliveries \union AzDeliveries, Companions>>],
      [backend |-> "pubsub", faults |-> 2, deliveries |-> <<Few, {Again, HubPull, HubIssue}>>],
      [backend |-> "memory", faults |-> 2, deliveries |-> <<{HubComment}, {HubPull}>>]>>

MCConfig ==
    [github |-> {"old", "new"}, tokens |-> {"t"}, keys |-> {"k"}, maxSkew |-> 5,
     azure |-> [passwords |-> {"pw"}, headerValues |-> {"h"}, user |-> "hook"],
     ourselves |-> {"kibitz", "kibitz[bot]"},
     mayAsk |-> ({"github", "gitlab", "azure_devops"} \X {"ann"})
               \union {<<"gitlab", "bob">>, <<"github", "carl">>},
     policy |-> [appID |-> "77", botLogins |-> {"kibitz", "kibitz[bot]"},
                 commenters |-> {[platform |-> "", login |-> "ann"],
                                 [platform |-> "github", login |-> "carl"],
                                 [platform |-> "gitlab", login |-> "bob"]},
                 keywords |-> {"[review]"}, mention |-> "/kibitz",
                 allowedRepos |-> <<<<"z">>, <<"o", "/", "*">>>>, maxEventAge |-> 5]]
=============================================================================
