--------------------------- MODULE ReceiverProofs ---------------------------
(* The webhook server for every number of requests, deliveries, receivers and *)
(* faults. TypeInv is the shape of the state; StoryInv ties what is queued,   *)
(* answered and shown to the delivery a request is about; FaultInv is the     *)
(* account of the attempts that faults cost; QueueInv is of the queue alone.  *)
EXTENDS Receiver, SequenceTheorems, WellFoundedInduction, TLAPS

QueueInv ==
    /\ DOMAIN loops = Receivers
    /\ NobodySleepsOnWork

-----------------------------------------------------------------------------
(* What a platform's handler makes of a delivery is a record with the fields  *)
(* of an event; no handler reads a command, and issues are GitHub's.          *)
Record(e) ==
    e \in [platform : {e.platform}, delivery : {e.delivery}, kind : {e.kind}, repo : {e.repo},
           actor : {e.actor}, app : {e.app}, pull : {e.pull}, issue : {e.issue},
           comment : {e.comment}, command : {e.command}, text : {e.text}, fork : {e.fork},
           age : {e.age}]

Raw(r, e) ==
    /\ Record(e)
    /\ e.platform = r.platform
    /\ e.command = Nil
    /\ e.kind \in PullKinds \union {"comment.created", "issue.comment"}
    /\ (e.kind = "issue.comment") => e.platform = "github"
    /\ e.kind \in PullKinds => e.comment = Nil
    /\ e.pull \in {Nil, <<e.pull[1]>>} /\ e.issue \in {Nil, <<e.issue[1]>>}

LEMMA OneValid ==
    ASSUME NEW e
    PROVE  /\ GitHub!Valid(e) => Valid(e)
           /\ GitLab!Valid(e) => Valid(e)
           /\ Azure!Valid(e) => Valid(e)
<1> USE DEF Valid, Known, IssueKinds, PullKinds, CommentKinds, CommandKinds, Nil
<1>1. GitHub!Valid(e) => Valid(e)
  BY DEF GitHub!Valid, GitHub!Known, GitHub!IssueKinds, GitHub!PullKinds, GitHub!CommentKinds, GitHub!CommandKinds, GitHub!Nil
<1>2. GitLab!Valid(e) => Valid(e)
  BY DEF GitLab!Valid, GitLab!Known, GitLab!IssueKinds, GitLab!PullKinds, GitLab!CommentKinds, GitLab!CommandKinds, GitLab!Nil
<1>3. Azure!Valid(e) => Valid(e)
  BY DEF Azure!Valid, Azure!Known, Azure!IssueKinds, Azure!PullKinds, Azure!CommentKinds, Azure!CommandKinds, Azure!Nil
<1> QED BY <1>1, <1>2, <1>3

LEMMA GitHubRaw ==
    ASSUME NEW r, r.platform = "github", GitHub!Normalize(r).is = "event"
    PROVE  Raw(r, GitHub!Normalize(r).event) /\ Valid(GitHub!Normalize(r).event)
<1> DEFINE Made(e) == GitHub!Normalize(r) = GitHub!Normalized(e)
<1>1. ASSUME NEW e, Made(e), Raw(r, e)
      PROVE  Raw(r, GitHub!Normalize(r).event) /\ Valid(GitHub!Normalize(r).event)
  BY <1>1, OneValid DEF GitHub!Normalized, GitHub!Malformed
<1>2. CASE r.name = "pull_request"
  <2> DEFINE kind == GitHub!pullRequestKind(r.action, r.merged)
             e == [GitHub!NewEvent(r, r.delivery, r.sender, kind) EXCEPT
                     !.pull = <<r.number>>, !.text = r.title,
                     !.fork = r.headRepo # GitHub!Nil /\ r.headRepo # r.repo]
  <2>1. Made(e) /\ kind # ""
    BY <1>2 DEF GitHub!Normalize, GitHub!normalizePullRequest, GitHub!Ignored, GitHub!Malformed
  <2>2. kind \in PullKinds
    BY <2>1 DEF GitHub!pullRequestKind, PullKinds
  <2>3. Raw(r, e)
    <3> HIDE DEF kind
    <3> QED BY <2>2 DEF Raw, Record, GitHub!NewEvent, GitHub!Nil, Nil, PullKinds
  <2> HIDE DEF e, Made
  <2> QED BY <2>1, <2>3, <1>1
<1>3. CASE r.name = "issue_comment"
  <2> DEFINE said == GitHub!Comment(r.commentId, r.body, r.author, r.app, "", "")
             kind == IF r.onPull THEN "comment.created" ELSE "issue.comment"
             e == [GitHub!NewEvent(r, r.delivery, r.sender, kind) EXCEPT !.comment = <<said>>]
             pull == [e EXCEPT !.pull = <<r.number>>, !.text = r.title]
             issue == [e EXCEPT !.issue = <<r.number>>]
  <2>1. Made(pull) \/ Made(issue)
    BY <1>3 DEF GitHub!Normalize, GitHub!normalizeIssueComment, GitHub!Ignored, GitHub!Malformed
  <2>2. Raw(r, pull) /\ Raw(r, issue)
    <3> HIDE DEF said
    <3> QED BY DEF Raw, Record, GitHub!NewEvent, GitHub!Nil, Nil, PullKinds
  <2> HIDE DEF pull, issue, Made
  <2> QED BY <2>1, <2>2, <1>1
<1>4. CASE r.name = "pull_request_review_comment"
  <2> DEFINE thread == IF r.inReplyTo # "" THEN r.inReplyTo ELSE r.commentId
             said == GitHub!Comment(r.commentId, r.body, r.author, "", r.path, thread)
             e == [GitHub!NewEvent(r, r.delivery, r.sender, "comment.created") EXCEPT
                     !.pull = <<r.number>>, !.text = r.title, !.comment = <<said>>]
  <2>1. Made(e)
    BY <1>4 DEF GitHub!Normalize, GitHub!normalizeReviewComment, GitHub!Ignored, GitHub!Malformed
  <2>2. Raw(r, e)
    <3> HIDE DEF said
    <3> QED BY DEF Raw, Record, GitHub!NewEvent, GitHub!Nil, Nil, PullKinds
  <2> HIDE DEF e, Made
  <2> QED BY <2>1, <2>2, <1>1
<1> QED BY <1>2, <1>3, <1>4 DEF GitHub!Normalize, GitHub!Ignored

LEMMA GitLabRaw ==
    ASSUME NEW r, r.platform = "gitlab", GitLab!Normalize(r).is = "event"
    PROVE  Raw(r, GitLab!Normalize(r).event) /\ Valid(GitLab!Normalize(r).event)
<1> DEFINE Made(e) == GitLab!Normalize(r) = GitLab!Normalized(e)
<1>1. ASSUME NEW e, Made(e), Raw(r, e)
      PROVE  Raw(r, GitLab!Normalize(r).event) /\ Valid(GitLab!Normalize(r).event)
  BY <1>1, OneValid DEF GitLab!Normalized, GitLab!Malformed
<1>2. CASE r.name = "Merge Request Hook"
  <2> DEFINE kind == GitLab!mergeRequestKind(r)
             e == [GitLab!NewEvent(r, GitLab!deliveryID(r), r.sender, kind) EXCEPT
                     !.pull = <<r.number>>, !.text = r.title,
                     !.fork = r.sourceProject # 0 /\ r.targetProject # 0
                              /\ r.sourceProject # r.targetProject]
  <2>1. Made(e) /\ kind # ""
    BY <1>2 DEF GitLab!Normalize, GitLab!normalizeMergeRequest, GitLab!Ignored, GitLab!Malformed
  <2>2. kind \in PullKinds
    BY <2>1 DEF GitLab!mergeRequestKind, PullKinds
  <2>3. Raw(r, e)
    <3> HIDE DEF kind
    <3> QED BY <2>2 DEF Raw, Record, GitLab!NewEvent, GitLab!Nil, Nil, PullKinds
  <2> HIDE DEF e, Made
  <2> QED BY <2>1, <2>3, <1>1
<1>3. CASE r.name = "Note Hook"
  <2> DEFINE said == GitLab!Comment(r.commentId, r.body, r.sender, "", GitLab!FirstOf(r.paths),
                                    GitLab!FirstOf(<<r.discussion, r.commentId>>))
             e == [GitLab!NewEvent(r, GitLab!deliveryID(r), r.sender, "comment.created") EXCEPT
                     !.pull = <<r.number>>, !.text = r.title, !.comment = <<said>>]
  <2>1. Made(e)
    BY <1>3 DEF GitLab!Normalize, GitLab!normalizeNote, GitLab!Ignored, GitLab!Malformed
  <2>2. Raw(r, e)
    <3> HIDE DEF said
    <3> QED BY DEF Raw, Record, GitLab!NewEvent, GitLab!Nil, Nil, PullKinds
  <2> HIDE DEF e, Made
  <2> QED BY <2>1, <2>2, <1>1
<1> QED BY <1>2, <1>3 DEF GitLab!Normalize, GitLab!Ignored

LEMMA AzureRaw ==
    ASSUME NEW r, r.platform \notin {"github", "gitlab"}, Azure!Normalize(r).is = "event"
    PROVE  Raw(r, Azure!Normalize(r).event) /\ Valid(Azure!Normalize(r).event)
<1> DEFINE Made(e) == Azure!Normalize(r) = Azure!Normalized(e)
<1>1. ASSUME NEW e, Made(e), Raw(r, e)
      PROVE  Raw(r, Azure!Normalize(r).event) /\ Valid(Azure!Normalize(r).event)
  BY <1>1, OneValid DEF Azure!Normalized, Azure!Malformed
<1>2. CASE r.name \in {"created", "updated", "merged"}
  <2> DEFINE kind == Azure!pullRequestKind(r)
             e == Azure!newEvent(r, r.createdBy, kind)
  <2>1. Made(e) /\ kind # ""
    BY <1>2 DEF Azure!Normalize, Azure!normalizePullRequest, Azure!Ignored, Azure!Malformed
  <2>2. kind \in PullKinds
    BY <2>1 DEF Azure!pullRequestKind, PullKinds
  <2>3. Raw(r, e)
    <3> HIDE DEF kind
    <3> QED BY <2>2 DEF Raw, Record, Azure!newEvent, Azure!NewEvent, Azure!Nil, Nil, PullKinds
  <2> HIDE DEF e, Made
  <2> QED BY <2>1, <2>3, <1>1
<1>3. CASE r.name = "commented"
  <2> DEFINE thread == IF r.thread # "" THEN r.thread ELSE r.commentId
             said == Azure!Comment(r.commentId, r.body, r.author, "", "", thread)
             e == [Azure!newEvent(r, r.author, "comment.created") EXCEPT
                     !.comment = <<said>>, !.age = IF r.written = Azure!Nil THEN @ ELSE Head(r.written)]
  <2>1. Made(e)
    BY <1>3 DEF Azure!Normalize, Azure!normalizeComment, Azure!Ignored, Azure!Malformed
  <2>2. Raw(r, e)
    <3> HIDE DEF said
    <3> QED BY DEF Raw, Record, Azure!newEvent, Azure!NewEvent, Azure!Nil, Nil, PullKinds
  <2> HIDE DEF e, Made
  <2> QED BY <2>1, <2>2, <1>1
<1> QED BY <1>2, <1>3 DEF Azure!Normalize, Azure!Ignored, Azure!Malformed

LEMMA NormalizedIsRaw ==
    ASSUME NEW r, Normalize(r).is = "event"
    PROVE  Raw(r, Normalize(r).event) /\ Valid(Normalize(r).event)
<1>1. CASE r.platform = "github"
  BY <1>1, GitHubRaw DEF Normalize
<1>2. CASE r.platform = "gitlab"
  BY <1>2, GitLabRaw DEF Normalize
<1>3. CASE r.platform \notin {"github", "gitlab"}
  BY <1>3, AzureRaw DEF Normalize
<1> QED BY <1>1, <1>2, <1>3

-----------------------------------------------------------------------------
(* What the rules let through, and what they refuse aloud: every rule before  *)
(* the last has been passed.                                                  *)
AboutTheSame(a, b) ==
    /\ a.platform = b.platform /\ a.repo = b.repo /\ a.pull = b.pull /\ a.issue = b.issue
    /\ a.comment = b.comment

Passed(c, e) ==
    /\ ~isSelf(c, e.actor, e.app)
    /\ e.comment # Nil => ~isSelf(c, e.comment[1].author, e.comment[1].app)
    /\ MatchAny(c.allowedRepos, e.repo)
    /\ ~(c.maxEventAge > 0 /\ e.age > c.maxEventAge)

AskedFor(c, e, kind, command) ==
    /\ Asks(c, e) /\ mayAsk(c, e)
    /\ kind \in CommentKinds
    /\ command = CommandIn(c, e)

LEMMA WhatIsPublished ==
    ASSUME NEW c, NEW r, NEW e, Raw(r, e), Evaluate(c, e).publish
    PROVE  LET f == Evaluate(c, e).event
           IN  /\ Passed(c, e) /\ AboutTheSame(f, e)
               /\ \/ f.kind \in PullKinds
                  \/ AskedFor(c, e, f.kind, f.command)
<1> DEFINE f == Evaluate(c, e).event
<1>1. Passed(c, e)
  BY DEF Passed, Evaluate, Skip
<1>2. CASE e.kind = "issue.comment"
  <2>1. Evaluate(c, e) = EvaluateIssueComment(c, e)
    BY <1>1, <1>2 DEF Passed, Evaluate, Skip
  <2>2. /\ f = [e EXCEPT !.command = CommandIn(c, e), !.kind = "issue.command"]
        /\ Asks(c, e) /\ mayAsk(c, e)
    BY <2>1 DEF EvaluateIssueComment, Skip, Accept
  <2>3. /\ f.kind = "issue.command" /\ f.command = CommandIn(c, e)
        /\ AboutTheSame(f, e)
    <3> HIDE DEF f
    <3> QED BY <2>2 DEF Raw, Record, AboutTheSame
  <2> HIDE DEF f
  <2> QED BY <1>1, <2>2, <2>3 DEF AskedFor, CommentKinds, IssueKinds, f
<1>3. CASE e.kind = "comment.created"
  <2>1. Evaluate(c, e) = EvaluateComment(c, e)
    BY <1>1, <1>3 DEF Passed, Evaluate, Skip
  <2>2. CASE CommandIn(c, e) = Nil
    <3>1. f = e /\ Asks(c, e) /\ mayAsk(c, e)
      BY <2>1, <2>2 DEF EvaluateComment, Skip, Accept
    <3> HIDE DEF f
    <3> QED BY <1>1, <1>3, <2>2, <3>1 DEF AskedFor, CommentKinds, AboutTheSame, Raw, f
  <2>3. CASE CommandIn(c, e) # Nil
    <3>1. /\ f = [e EXCEPT !.command = CommandIn(c, e), !.kind = "command"]
          /\ Asks(c, e) /\ mayAsk(c, e)
      BY <2>1, <2>3 DEF EvaluateComment, Skip, Accept
    <3>2. /\ f.kind = "command" /\ f.command = CommandIn(c, e)
          /\ AboutTheSame(f, e)
      <4> HIDE DEF f
      <4> QED BY <3>1 DEF Raw, Record, AboutTheSame
    <3> HIDE DEF f
    <3> QED BY <1>1, <3>1, <3>2 DEF AskedFor, CommentKinds, f
  <2> QED BY <2>2, <2>3
<1>4. CASE e.kind \in PullKinds
  <2>1. e.kind \notin {"issue.comment", "comment.created"}
    BY <1>4 DEF PullKinds
  <2>2. f = e
    BY <1>1, <2>1 DEF Passed, Evaluate, Skip, Accept
  <2> HIDE DEF f
  <2> QED BY <1>1, <1>4, <2>2 DEF AboutTheSame, f
<1> QED BY <1>2, <1>3, <1>4 DEF Raw

LEMMA WhatIsRefused ==
    ASSUME NEW c, NEW e, Refused(Evaluate(c, e))
    PROVE  Asks(c, e) /\ ~mayAsk(c, e) /\ ~Evaluate(c, e).publish
<1>1. CASE e.kind = "issue.comment"
  BY <1>1 DEF Refused, Evaluate, EvaluateIssueComment, Skip, Accept
<1>2. CASE e.kind = "comment.created"
  BY <1>2 DEF Refused, Evaluate, EvaluateComment, Skip, Accept
<1>3. CASE e.kind \notin {"issue.comment", "comment.created"}
  BY <1>3 DEF Refused, Evaluate, Skip, Accept
<1> QED BY <1>1, <1>2, <1>3

-----------------------------------------------------------------------------
(* What the handler decides of a delivery: to publish its event, to say that  *)
(* it is refused, or to answer and be done.                                   *)
EventRead(r) == Normalize(r).event
Decision(r) == Evaluate(Config.policy, EventRead(r))
WasRead(r) == Verify(r) = "ok" /\ Normalize(r).is = "event"

LEMMA NormalizeIs ==
    ASSUME NEW r
    PROVE  Normalize(r).is \in {"malformed", "ignored", "event"}
<1>1. CASE r.platform = "github"
  BY <1>1 DEF Normalize, GitHub!Normalize, GitHub!normalizePullRequest, GitHub!normalizeIssueComment,
              GitHub!normalizeReviewComment, GitHub!Normalized, GitHub!Ignored, GitHub!Malformed
<1>2. CASE r.platform = "gitlab"
  BY <1>2 DEF Normalize, GitLab!Normalize, GitLab!normalizeMergeRequest, GitLab!normalizeNote,
              GitLab!Normalized, GitLab!Ignored, GitLab!Malformed
<1>3. CASE r.platform \notin {"github", "gitlab"}
  BY <1>3 DEF Normalize, Azure!Normalize, Azure!normalizePullRequest, Azure!normalizeComment,
              Azure!Normalized, Azure!Ignored, Azure!Malformed
<1> QED BY <1>1, <1>2, <1>3

(* The three things a handler may decide on a delivery.                       *)
Publishes(r, d) ==
    /\ WasRead(r) /\ Decision(r).publish
    /\ d = [Free EXCEPT !.at = "publish", !.event = <<Decision(r).event>>, !.attempt = 1]

Refuses(r, d) ==
    /\ WasRead(r) /\ Refused(Decision(r))
    /\ d = [Free EXCEPT !.at = "react", !.event = <<Decision(r).event>>, !.status = 204, !.reaction = "refused"]

Answers(d) == \E code \in {204, 400, 401, 405, 413, 500} : d = Answer(code)

LEMMA Decided ==
    ASSUME NEW r
    PROVE  Publishes(r, Decide(r)) \/ Refuses(r, Decide(r)) \/ Answers(Decide(r))
<1>1. CASE r.http \in {"get", "huge", "broken"} \/ Verify(r) # "ok" \/ Normalize(r).is \in {"malformed", "ignored"}
  <2>1. CASE r.http \in {"get", "huge", "broken"}
    BY <2>1 DEF Decide, Answers
  <2>2. CASE r.http \notin {"get", "huge", "broken"} /\ Verify(r) # "ok"
    <3> DEFINE status == CASE Verify(r) = "no_secrets" -> 500 [] Verify(r) = "missing" -> 400
                           [] OTHER -> 401
    <3>1. status \in {400, 401, 500}
      OBVIOUS
    <3>2. Decide(r) = Answer(status)
      BY <2>2 DEF Decide
    <3> HIDE DEF status
    <3> QED BY <3>1, <3>2 DEF Answers
  <2>3. CASE /\ r.http \notin {"get", "huge", "broken"} /\ Verify(r) = "ok"
             /\ Normalize(r).is \in {"malformed", "ignored"}
    BY <2>3 DEF Decide, Answers
  <2> QED BY <1>1, <2>1, <2>2, <2>3
<1>2. CASE /\ r.http \notin {"get", "huge", "broken"} /\ Verify(r) = "ok"
           /\ Normalize(r).is \notin {"malformed", "ignored"}
  BY <1>2, NormalizeIs DEF Decide, WasRead, Decision, EventRead, Publishes, Refuses, Answers
<1> QED BY <1>1, <1>2

Shaped(r, d) ==
    /\ d.at \in {"publish", "react", "done"} /\ d.attempt \in {0, 1}
    /\ d.status \in {0, 204, 400, 401, 405, 413, 500} /\ d.reaction \in {"", "refused"}
    /\ d.r = Nil /\ d.reacted = "" /\ ~d.expired /\ ~d.closedOn
    /\ d.expired \in BOOLEAN /\ d.closedOn \in BOOLEAN
    /\ DOMAIN d = DOMAIN Free
    /\ d.at = "publish" => /\ WasRead(r) /\ Decision(r).publish
                           /\ d.event = <<Decision(r).event>>
                           /\ d.attempt = 1 /\ d.status = 0 /\ d.reaction = ""
    /\ d.at # "publish" => d.status # 0 /\ d.attempt = 0
    /\ d.reaction = "refused" => WasRead(r) /\ Refused(Decision(r))

LEMMA DecisionShaped == ASSUME NEW r PROVE Shaped(r, Decide(r))
<1> DEFINE d == Decide(r)
<1>1. CASE Publishes(r, d)
  <2> DEFINE what == <<Decision(r).event>>
  <2>0. d = [at |-> "publish", r |-> <<>>, event |-> what, attempt |-> 1, expired |-> FALSE,
             status |-> 0, reaction |-> "", reacted |-> "", closedOn |-> FALSE]
    <3> HIDE DEF d, what
    <3> QED BY <1>1 DEF Publishes, Free, what
  <2> HIDE DEF d
  <2>1. Shaped(r, d)
    <3>1. what = <<Decision(r).event>> /\ WasRead(r) /\ Decision(r).publish
      BY <1>1 DEF Publishes
    <3> HIDE DEF what
    <3>2. /\ d.r = Nil /\ ~d.expired /\ ~d.closedOn
          /\ d.expired \in BOOLEAN /\ d.closedOn \in BOOLEAN
      BY <2>0 DEF Nil
    <3>3. d.attempt = 1 /\ d.status = 0
      BY <2>0
    <3>4. d.attempt \in {0, 1} /\ d.status \in {0, 204, 400, 401, 405, 413, 500}
      BY <3>3
    <3>5. DOMAIN d = DOMAIN Free
      BY <2>0 DEF Free
    <3>6. d.at = "publish" /\ d.reaction = "" /\ d.reacted = ""
      BY <2>0
    <3>7. d.event = what
      BY <2>0
    <3>8. /\ d.at \in {"publish", "react", "done"} /\ d.reaction \in {"", "refused"}
          /\ d.reaction # "refused"
      BY <3>6
    <3>9. d.event = <<Decision(r).event>>
      BY <3>1, <3>7
    <3> HIDE DEF d
    <3> QED BY <3>1, <3>2, <3>3, <3>4, <3>5, <3>6, <3>8, <3>9 DEF Shaped
  <2> QED BY <2>1 DEF d
<1>2. CASE Refuses(r, d)
  <2> DEFINE what == <<Decision(r).event>>
  <2>0. d = [at |-> "react", r |-> <<>>, event |-> what, attempt |-> 0, expired |-> FALSE,
             status |-> 204, reaction |-> "refused", reacted |-> "", closedOn |-> FALSE]
    <3> HIDE DEF d, what
    <3> QED BY <1>2 DEF Refuses, Free, what
  <2> HIDE DEF d
  <2>1. DOMAIN d = DOMAIN Free
    BY <2>0 DEF Free
  <2>2. /\ d.r = Nil /\ ~d.expired /\ ~d.closedOn
        /\ d.expired \in BOOLEAN /\ d.closedOn \in BOOLEAN
    BY <2>0 DEF Nil
  <2>3. d.attempt \in {0, 1} /\ d.attempt = 0
    BY <2>0
  <2>a. d.status = 204
    BY <2>0
  <2>4. d.status \in {0, 204, 400, 401, 405, 413, 500} /\ d.status # 0
    BY <2>a
  <2>5. d.at = "react" /\ d.reaction = "refused" /\ d.reacted = ""
    BY <2>0
  <2>6. Shaped(r, d)
    <3> HIDE DEF what
    <3>1. WasRead(r) /\ Refused(Decision(r))
      BY <1>2 DEF Refuses
    <3> QED BY <2>1, <2>2, <2>3, <2>4, <2>5, <3>1 DEF Shaped
  <2> QED BY <2>6 DEF d
<1>3. ASSUME NEW code, code \in {204, 400, 401, 405, 413, 500}, d = Answer(code)
      PROVE  Shaped(r, d)
  <2>0. d = [at |-> "done", r |-> <<>>, event |-> <<>>, attempt |-> 0, expired |-> FALSE,
             status |-> code, reaction |-> "", reacted |-> "", closedOn |-> FALSE]
    <3> HIDE DEF d
    <3> QED BY <1>3 DEF Free, Answer
  <2> HIDE DEF d
  <2>1. DOMAIN d = DOMAIN Free
    BY <2>0 DEF Free
  <2>2. /\ d.r = Nil /\ ~d.expired /\ ~d.closedOn
        /\ d.expired \in BOOLEAN /\ d.closedOn \in BOOLEAN
    BY <2>0 DEF Nil
  <2>3. d.attempt \in {0, 1} /\ d.attempt = 0
    BY <2>0
  <2>4. d.status = code
    BY <2>0
  <2>5. d.status \in {0, 204, 400, 401, 405, 413, 500} /\ d.status # 0
    BY <1>3, <2>4
  <2>6. d.at = "done" /\ d.reaction = "" /\ d.reacted = ""
    BY <2>0
  <2>7. Shaped(r, d)
    BY <2>1, <2>2, <2>3, <2>5, <2>6 DEF Shaped
  <2> QED BY <2>7 DEF d
<1>4. CASE Answers(d)
  <2>1. PICK code \in {204, 400, 401, 405, 413, 500} : d = Answer(code)
    BY <1>4 DEF Answers
  <2> QED BY <2>1, <1>3
<1>5. Publishes(r, d) \/ Refuses(r, d) \/ Answers(d)
  BY Decided
<1> HIDE DEF d
<1> QED BY <1>1, <1>2, <1>4, <1>5 DEF d

-----------------------------------------------------------------------------
(* Whatever is true of some naturals is first true of one of them.            *)
LEMMA LeastNatural ==
    ASSUME NEW T \in SUBSET Nat, T # {}
    PROVE  \E n \in T : \A m \in T : n <= m
<1> DEFINE R == OpToRel(<, Nat)
<1>1. IsWellFoundedOn(R, Nat)
  BY NatLessThanWellFounded
<1>2. \A m, n \in Nat : <<m, n>> \in R <=> m < n
  BY DEF OpToRel
<1> HIDE DEF R
<1>3. PICK n \in T : \A m \in T : ~(<<m, n>> \in R)
  BY <1>1, WFMin
<1>4. ASSUME NEW m \in T
      PROVE  n <= m
  <2>1. m \in Nat /\ n \in Nat
    OBVIOUS
  <2>2. ~(m < n)
    BY <1>2, <1>3, <2>1
  <2> QED BY <2>1, <2>2
<1> QED BY <1>4

(* A function that carries a value from one step on to the next exists.       *)
CarriedOn(f, n, start, next) ==
    f[0] = start /\ \A i \in 1 .. n : f[i] = next[<<f[i - 1], i>>]

LEMMA Carried ==
    ASSUME NEW n \in Nat, NEW S, NEW start \in S, NEW next \in [S \X (1 .. n) -> S]
    PROVE  \E f \in [0 .. n -> S] : CarriedOn(f, n, start, next)
<1> DEFINE Carries(f, k) == f[0] = start /\ \A i \in 1 .. k : f[i] = next[<<f[i - 1], i>>]
           Missing == {k \in 0 .. n : \A f \in [0 .. k -> S] : ~Carries(f, k)}
<1>1. ASSUME NEW k \in Missing, \A m \in Missing : k <= m
      PROVE  FALSE
  <2>1. CASE k = 0
    <3> DEFINE f == [i \in 0 .. 0 |-> start]
    <3>1. f \in [0 .. k -> S] /\ f[0] = start
      BY <2>1
    <3>2. Carries(f, k)
      BY <2>1, <3>1
    <3> HIDE DEF f, Carries
    <3> QED BY <3>1, <3>2
  <2>2. CASE k # 0
    <3>1. k - 1 \in 0 .. n /\ k \in 1 .. n /\ k - 1 \notin Missing
      BY <1>1, <2>2
    <3>2. PICK f \in [0 .. k - 1 -> S] : Carries(f, k - 1)
      <4> HIDE DEF Carries
      <4> QED BY <3>1
    <3> DEFINE g == [i \in 0 .. k |-> IF i = k THEN next[<<f[k - 1], k>>] ELSE f[i]]
    <3>3. \A i \in 0 .. k : g[i] = IF i = k THEN next[<<f[k - 1], k>>] ELSE f[i]
      OBVIOUS
    <3>4. f[k - 1] \in S /\ next[<<f[k - 1], k>>] \in S
      BY <3>1
    <3>5. g \in [0 .. k -> S]
      BY <3>1, <3>4
    <3> HIDE DEF g
    <3>6. g[0] = start
      BY <3>1, <3>2, <3>3
    <3>7. ASSUME NEW i \in 1 .. k PROVE g[i] = next[<<g[i - 1], i>>]
      <4>1. i - 1 \in 0 .. k /\ i \in 0 .. k /\ i - 1 # k
        BY <3>1
      <4>2. g[i - 1] = f[i - 1]
        BY <3>3, <4>1
      <4>3. CASE i = k
        BY <3>3, <4>1, <4>2, <4>3
      <4>4. CASE i # k
        <5>1. i \in 1 .. k - 1
          BY <3>1, <4>4
        <5> QED BY <3>2, <3>3, <4>1, <4>2, <4>4, <5>1
      <4> QED BY <4>3, <4>4
    <3>8. Carries(g, k)
      BY <3>6, <3>7
    <3> HIDE DEF Carries
    <3> QED BY <3>5, <3>8
  <2> QED BY <2>1, <2>2
<1>2. Missing = {}
  <2>1. Missing \in SUBSET Nat
    OBVIOUS
  <2> HIDE DEF Missing
  <2> QED BY <1>1, <2>1, LeastNatural
<1>3. n \notin Missing /\ n \in 0 .. n
  <2> HIDE DEF Missing
  <2> QED BY <1>2
<1> QED BY <1>3 DEF CarriedOn

(* The code's reading carries the open fence from one line on to the next,    *)
(* the forge's the open block.                                                *)
LEMMA FenceCarries ==
    ASSUME NEW text, Len(text) \in Nat
    PROVE  /\ fenceAfter(text)[0] = ""
           /\ \A i \in 1 .. Len(text) :
                 fenceAfter(text)[i] = fenceNext(fenceAfter(text)[i - 1], text[i])
<1> DEFINE n == Len(text)
           Solves(f) == f = [i \in 0 .. n |-> IF i = 0 THEN "" ELSE fenceNext(f[i - 1], text[i])]
           S == {"", "ticks3", "tildes3"} \union {openingFence(text[i]) : i \in 1 .. n}
           next == [x \in S \X (1 .. n) |-> fenceNext(x[1], text[x[2]])]
<1>0. n \in Nat
  OBVIOUS
<1>1. next \in [S \X (1 .. n) -> S]
  BY DEF fenceNext
<1>2. \A x \in S, i \in 1 .. n : next[<<x, i>>] = fenceNext(x, text[i])
  OBVIOUS
<1>3. "" \in S
  OBVIOUS
<1> HIDE DEF next, S
<1>4. PICK f \in [0 .. n -> S] : f[0] = "" /\ \A i \in 1 .. n : f[i] = next[<<f[i - 1], i>>]
  <2> HIDE DEF n
  <2>1. \E f \in [0 .. n -> S] : CarriedOn(f, n, "", next)
    BY <1>0, <1>1, <1>3, Carried
  <2> QED BY <2>1 DEF CarriedOn
<1>5. ASSUME NEW i \in 0 .. n PROVE f[i] = IF i = 0 THEN "" ELSE fenceNext(f[i - 1], text[i])
  <2>1. CASE i = 0
    BY <1>4, <2>1
  <2>2. CASE i # 0
    <3>1. i \in 1 .. n /\ i - 1 \in 0 .. n
      BY <2>2
    <3> QED BY <1>2, <1>4, <2>2, <3>1
  <2> QED BY <2>1, <2>2
<1>6. Solves(f)
  BY <1>5
<1>7. fenceAfter(text) = CHOOSE g : Solves(g)
  BY DEF fenceAfter
<1>8. Solves(fenceAfter(text))
  <2> HIDE DEF Solves
  <2> QED BY <1>6, <1>7
<1> DEFINE F == fenceAfter(text)
<1> HIDE DEF F
<1>9. \A i \in 0 .. n : F[i] = IF i = 0 THEN "" ELSE fenceNext(F[i - 1], text[i])
  BY <1>8 DEF F
<1>10. ASSUME NEW i \in 1 .. n PROVE F[i] = fenceNext(F[i - 1], text[i])
  <2>1. i \in 0 .. n /\ i # 0
    OBVIOUS
  <2> QED BY <1>9, <2>1
<1>11. F[0] = ""
  <2>1. 0 \in 0 .. n
    OBVIOUS
  <2> QED BY <1>9, <2>1
<1> QED BY <1>10, <1>11 DEF F

LEMMA BlockCarries ==
    ASSUME NEW text, Len(text) \in Nat
    PROVE  /\ blockAfter(text)[0] = NoBlock
           /\ \A i \in 1 .. Len(text) :
                 blockAfter(text)[i] = blockNext(blockAfter(text)[i - 1], text[i])
<1> DEFINE n == Len(text)
           Solves(f) == f = [i \in 0 .. n |-> IF i = 0 THEN NoBlock ELSE blockNext(f[i - 1], text[i])]
           S == {NoBlock} \union {opensBlock(text[i]) : i \in 1 .. n}
           next == [x \in S \X (1 .. n) |-> blockNext(x[1], text[x[2]])]
<1>0. n \in Nat
  OBVIOUS
<1>1. next \in [S \X (1 .. n) -> S]
  BY DEF blockNext
<1>2. \A x \in S, i \in 1 .. n : next[<<x, i>>] = blockNext(x, text[i])
  OBVIOUS
<1>3. NoBlock \in S
  OBVIOUS
<1> HIDE DEF next, S
<1>4. PICK f \in [0 .. n -> S] : f[0] = NoBlock /\ \A i \in 1 .. n : f[i] = next[<<f[i - 1], i>>]
  <2> HIDE DEF n
  <2>1. \E f \in [0 .. n -> S] : CarriedOn(f, n, NoBlock, next)
    BY <1>0, <1>1, <1>3, Carried
  <2> QED BY <2>1 DEF CarriedOn
<1>5. ASSUME NEW i \in 0 .. n PROVE f[i] = IF i = 0 THEN NoBlock ELSE blockNext(f[i - 1], text[i])
  <2>1. CASE i = 0
    BY <1>4, <2>1
  <2>2. CASE i # 0
    <3>1. i \in 1 .. n /\ i - 1 \in 0 .. n
      BY <2>2
    <3> QED BY <1>2, <1>4, <2>2, <3>1
  <2> QED BY <2>1, <2>2
<1>6. Solves(f)
  BY <1>5
<1>7. blockAfter(text) = CHOOSE g : Solves(g)
  BY DEF blockAfter
<1>8. Solves(blockAfter(text))
  <2> HIDE DEF Solves
  <2> QED BY <1>6, <1>7
<1> DEFINE F == blockAfter(text)
<1> HIDE DEF F
<1>9. \A i \in 0 .. n : F[i] = IF i = 0 THEN NoBlock ELSE blockNext(F[i - 1], text[i])
  BY <1>8 DEF F
<1>10. ASSUME NEW i \in 1 .. n PROVE F[i] = blockNext(F[i - 1], text[i])
  <2>1. i \in 0 .. n /\ i # 0
    OBVIOUS
  <2> QED BY <1>9, <2>1
<1>11. F[0] = NoBlock
  <2>1. 0 \in 0 .. n
    OBVIOUS
  <2> QED BY <1>9, <2>1
<1> QED BY <1>10, <1>11 DEF F

(* Two readings that agree on what each line does to the block it is in agree *)
(* on the whole text: what the code leaves is what a person is told.          *)
LEMMA ReadAlike ==
    ASSUME NEW text, Len(text) \in Nat, DOMAIN text = 1 .. Len(text), FencesReadAlike(text)
    PROVE  StripCode(text) = Speech(text)
<1> DEFINE n == Len(text)
           F == fenceAfter(text)
           B == blockAfter(text)
           Apart == {i \in 0 .. n : F[i] # B[i].mark}
<1>1. F[0] = "" /\ B[0] = NoBlock /\ \A i \in 1 .. n : F[i] = fenceNext(F[i - 1], text[i])
  BY FenceCarries, BlockCarries
<1>2. \A i \in 1 .. n : /\ fenceNext(B[i - 1].mark, text[i]) = B[i].mark
                        /\ blanked(B[i - 1].mark, text[i]) = ofBlock(B[i - 1], text[i])
  BY DEF FencesReadAlike
<1> HIDE DEF F, B
<1>3. ASSUME NEW i \in Apart, \A j \in Apart : i <= j
      PROVE  FALSE
  <2>1. CASE i = 0
    <3>1. NoBlock.mark = ""
      BY DEF NoBlock
    <3>2. F[0] # B[0].mark
      BY <2>1
    <3> QED BY <1>1, <3>1, <3>2
  <2>2. CASE i # 0
    <3>1. i \in 1 .. n /\ i - 1 \in 0 .. n /\ i - 1 \notin Apart
      BY <1>3, <2>2
    <3>2. F[i - 1] = B[i - 1].mark
      BY <3>1
    <3> QED BY <1>1, <1>2, <3>1, <3>2
  <2> QED BY <2>1, <2>2
<1>4. Apart = {}
  <2>1. Apart \in SUBSET Nat
    OBVIOUS
  <2> HIDE DEF Apart
  <2> QED BY <1>3, <2>1, LeastNatural
<1>5. ASSUME NEW i \in 1 .. n
      PROVE  blanked(F[i - 1], text[i]) = ofBlock(B[i - 1], text[i])
  <2>1. i - 1 \in 0 .. n /\ i - 1 \notin Apart
    <3> HIDE DEF Apart
    <3> QED BY <1>4
  <2> QED BY <1>2, <2>1
<1> QED BY <1>5 DEF StripCode, Speech, F, B

(* Where the fences are read alike, the code finds the mention and the        *)
(* command that the rendered text has.                                        *)
LEMMA AskedAsRead ==
    ASSUME NEW text, NEW mention, Len(text) \in Nat, DOMAIN text = 1 .. Len(text),
           FencesReadAlike(text), Mentions(text, mention)
    PROVE  LET asks == AskedOf(text, mention)
           IN  /\ asks # "nothing"
               /\ ParseCommand(text, mention) = IF asks = "question" THEN Nil ELSE <<asks>>
<1>1. StripCode(text) = Speech(text)
  BY ReadAlike
<1>2. MentionedIn(Speech(text), mention)
  BY <1>1 DEF Mentions
<1> DEFINE command == CommandNamed(text, Speech(text), mention)
<1>3. ParseCommand(text, mention) = command
  BY <1>1 DEF ParseCommand
<1>4. \/ command = Nil
      \/ \E name \in knownCommands : command = <<name>>
  <2> DEFINE speech == Speech(text)
             content == {i \in DOMAIN text : text[i] # <<>>}
             first == IF content = {} THEN <<>> ELSE speech[Min(content)]
             names == /\ mention # "" /\ Len(first) >= 2 /\ first[1] = Word(mention)
                      /\ first[2] \in {Word(c) : c \in knownCommands}
  <2>1. command = IF names THEN <<first[2].says>> ELSE Nil
    BY DEF CommandNamed
  <2>2. ASSUME names PROVE first[2].says \in knownCommands
    <3>1. PICK c \in knownCommands : first[2] = Word(c)
      BY <2>2
    <3>2. Word(c).says = c
      BY DEF Word
    <3> HIDE DEF first
    <3> QED BY <3>1, <3>2
  <2> HIDE DEF command, first, names
  <2> QED BY <2>1, <2>2
<1>5. Nil = <<>> /\ "nothing" \notin knownCommands /\ "question" \notin knownCommands
  BY DEF Nil, knownCommands
<1>6. AskedOf(text, mention) = IF command = Nil THEN "question" ELSE command[1]
  BY <1>2 DEF AskedOf
<1> HIDE DEF command
<1>7. CASE command = Nil
  BY <1>3, <1>6, <1>7
<1>8. CASE \E name \in knownCommands : command = <<name>>
  <2>1. PICK name \in knownCommands : command = <<name>>
    BY <1>8
  <2>2. command # Nil /\ command[1] = name
    BY <1>5, <2>1
  <2> QED BY <1>3, <1>5, <1>6, <2>1, <2>2
<1> QED BY <1>4, <1>7, <1>8

(* Who passes verification holds a credential of the platform.                *)
LEMMA VerifiedHolds ==
    ASSUME NEW r, Verify(r) = "ok"
    PROVE  HoldsCredential(r)
<1>1. CASE r.platform = "github"
  BY <1>1 DEF Verify, HoldsCredential, GitHub!Verify
<1>2. CASE r.platform # "github" /\ r.platform = "gitlab"
  <2>1. GitLab!Verify(Config.tokens, Config.keys, Config.maxSkew, r) = "ok"
    BY <1>2 DEF Verify
  <2>2. \/ r.token \in Config.tokens
        \/ GitLab!verifySignature(Config.keys, Config.maxSkew, r) = "ok"
    BY <2>1 DEF GitLab!Verify
  <2>3. CASE GitLab!verifySignature(Config.keys, Config.maxSkew, r) = "ok"
    <3>1. /\ r.signedWith \intersect Config.keys # {} /\ r.skew # Nil
          /\ ~(Head(r.skew) > Config.maxSkew)
      BY <2>3 DEF GitLab!verifySignature, GitLab!Nil, Nil
    <3> QED BY <1>2, <3>1 DEF HoldsCredential
  <2> QED BY <1>2, <2>2, <2>3 DEF HoldsCredential
<1>3. CASE r.platform # "github" /\ r.platform # "gitlab"
  <2> DEFINE c == Config.azure
  <2>1. Azure!Verify(c, r) = "ok"
    BY <1>3 DEF Verify
  <2> HIDE DEF c
  <2>2. /\ c.passwords # {} => r.basic # Nil /\ r.basic[1] = c.user /\ r.basic[2] \in c.passwords
        /\ c.headerValues # {} => r.header \in c.headerValues
        /\ c.passwords # {} \/ c.headerValues # {}
    BY <2>1 DEF Azure!Verify, Azure!Nil, Nil
  <2> QED BY <1>3, <2>2 DEF HoldsCredential, c
<1> QED BY <1>1, <1>2, <1>3

-----------------------------------------------------------------------------
(* What the rules that were passed say of a delivery its description fits.    *)
LEMMA WhatIsTrueOfWork ==
    ASSUME NEW r, WasRead(r), Decision(r).publish, Fits(r, EventRead(r)),
           HoldsCredential(r) => r.genuine
    PROVE  LET f == Decision(r).event
           IN  /\ r.genuine
               /\ r.writer \notin Config.ourselves
               /\ \E i \in DOMAIN Config.policy.allowedRepos :
                     Matches(Config.policy.allowedRepos[i], r.change[2])
               /\ r.old <= Config.policy.maxEventAge
               /\ f.kind \in CommentKinds =>
                     /\ <<r.platform, r.writer>> \in Config.mayAsk
                     /\ FencesReadAlike(f.comment[1].text) =>
                           /\ r.asks # "nothing"
                           /\ f.command = (IF r.asks = "question" THEN Nil ELSE <<r.asks>>)
<1> DEFINE e == EventRead(r)
           f == Decision(r).event
           c == Config.policy
<1>1. Raw(r, e)
  BY NormalizedIsRaw DEF WasRead, EventRead
<1>2. /\ Passed(c, e) /\ AboutTheSame(f, e)
      /\ f.kind \in PullKinds \/ AskedFor(c, e, f.kind, f.command)
  <2>1. Decision(r) = Evaluate(c, e)
    BY DEF Decision
  <2> HIDE DEF c, e
  <2> QED BY <1>1, <2>1, WhatIsPublished
<1>3. Fits(r, e)
  OBVIOUS
<1> HIDE DEF e, f
<1>4. r.writer = Author(e) /\ r.writer # "" /\ r.writer \notin c.botLogins
  BY <1>2, <1>3 DEF Passed, isSelf, Fits, Author
<1>5. r.writer \notin Config.ourselves
  BY <1>4, DescriptionAssumption
<1>6. r.change[2] = e.repo
  <2> DEFINE end == IF e.issue # Nil THEN <<"issue", e.issue[1]>> ELSE <<"pull", e.pull[1]>>
  <2>1. \E a, b : end = <<a, b>>
    OBVIOUS
  <2>2. r.change = <<e.platform, e.repo>> \o end
    BY <1>3 DEF Fits
  <2> HIDE DEF end
  <2> QED BY <2>1, <2>2
<1>7. \E i \in DOMAIN c.allowedRepos : Matches(c.allowedRepos[i], e.repo)
  <2>1. PICK i \in DOMAIN c.allowedRepos : Match(c.allowedRepos[i], e.repo)
    BY <1>2 DEF Passed, MatchAny
  <2>2. Matches(c.allowedRepos[i], e.repo)
    BY <1>3, <2>1 DEF Fits
  <2> QED BY <2>2
<1>8. r.old <= c.maxEventAge
  <2>1. r.old = e.age /\ e.age \in Nat /\ c.maxEventAge \in Nat \ {0}
    BY <1>3, DescriptionAssumption DEF Fits
  <2>2. ~(c.maxEventAge > 0 /\ e.age > c.maxEventAge)
    BY <1>2 DEF Passed
  <2> HIDE DEF c
  <2> QED BY <2>1, <2>2
<1>9. ASSUME f.kind \in CommentKinds
      PROVE  /\ <<r.platform, r.writer>> \in Config.mayAsk
             /\ FencesReadAlike(f.comment[1].text) =>
                   /\ r.asks # "nothing"
                   /\ f.command = (IF r.asks = "question" THEN Nil ELSE <<r.asks>>)
  <2> DEFINE text == e.comment[1].text
  <2>1. AskedFor(c, e, f.kind, f.command)
    BY <1>2, <1>9 DEF PullKinds, CommentKinds, IssueKinds
  <2>2. Asks(c, e) /\ mayAsk(c, e) /\ f.command = CommandIn(c, e)
    BY <2>1 DEF AskedFor
  <2>3. e.comment # Nil /\ Mentions(text, c.mention)
    BY <2>2 DEF Asks
  <2>4. OnTheList(r.platform, r.writer)
    BY <1>1, <1>4, <2>2 DEF Raw, OnTheList, mayAsk, Author
  <2>5. /\ <<r.platform, r.writer>> \in Config.mayAsk
        /\ text \in Seq(Range(text)) /\ r.asks = AskedOf(text, c.mention)
    BY <1>3, <2>3, <2>4 DEF Fits
  <2>6. f.comment[1].text = text
    BY <1>2 DEF AboutTheSame
  <2>7. Len(text) \in Nat /\ DOMAIN text = 1 .. Len(text)
    <3> HIDE DEF text
    <3> QED BY <2>5
  <2>8. f.command = ParseCommand(text, c.mention)
    BY <2>2 DEF CommandIn
  <2> HIDE DEF text, c
  <2>9. ASSUME FencesReadAlike(text)
        PROVE  /\ r.asks # "nothing"
               /\ f.command = (IF r.asks = "question" THEN Nil ELSE <<r.asks>>)
    BY <2>3, <2>5, <2>7, <2>8, <2>9, AskedAsRead
  <2> QED BY <2>5, <2>6, <2>9 DEF c
<1>10. r.genuine
  BY VerifiedHolds DEF WasRead
<1> QED BY <1>5, <1>6, <1>7, <1>8, <1>9, <1>10 DEF f

LEMMA WhatIsTrueOfRefusal ==
    ASSUME NEW r, WasRead(r), Refused(Decision(r)), Fits(r, EventRead(r))
    PROVE  <<r.platform, r.writer>> \notin Config.mayAsk
<1> DEFINE e == EventRead(r)
           c == Config.policy
<1>1. Raw(r, e)
  BY NormalizedIsRaw DEF WasRead, EventRead
<1>2. Asks(c, e) /\ ~mayAsk(c, e)
  BY WhatIsRefused DEF Decision
<1>3. ~isSelf(c, e.actor, e.app) /\ (e.comment # Nil => ~isSelf(c, e.comment[1].author, e.comment[1].app))
  BY DEF Decision, Evaluate, Skip, Refused
<1>4. Fits(r, e)
  OBVIOUS
<1> HIDE DEF e
<1>5. r.writer = Author(e) /\ r.writer # ""
  BY <1>3, <1>4 DEF isSelf, Fits
<1>6. ~OnTheList(r.platform, r.writer)
  BY <1>1, <1>2, <1>5 DEF Raw, OnTheList, mayAsk, Author
<1> QED BY <1>2, <1>4, <1>6 DEF Fits, Asks

-----------------------------------------------------------------------------
(* Keys. Two joined sequences whose ends are as long are the same only when   *)
(* both parts are.                                                            *)
LEMMA Joined ==
    ASSUME NEW S, NEW a \in Seq(S), NEW b \in Seq(S)
    PROVE  /\ a \o b \in Seq(S) /\ Len(a \o b) = Len(a) + Len(b)
           /\ Len(a) \in Nat /\ Len(b) \in Nat
           /\ Len(a) >= 1 => (a \o b)[1] = a[1]
<1>1. a \o b \in Seq(S) /\ Len(a \o b) = Len(a) + Len(b)
  BY ConcatProperties
<1>2. Len(a) \in Nat /\ Len(b) \in Nat
  BY LenProperties
<1>3. \A i \in 1 .. Len(a) + Len(b) : (a \o b)[i] = IF i <= Len(a) THEN a[i] ELSE b[i - Len(a)]
  BY ConcatProperties
<1>4. Len(a) >= 1 => (a \o b)[1] = a[1]
  BY <1>2, <1>3
<1> QED BY <1>1, <1>2, <1>4

LEMMA JoinedApart ==
    ASSUME NEW S, NEW a \in Seq(S), NEW b \in Seq(S), NEW c \in Seq(S), NEW d \in Seq(S)
    PROVE  a \o b = c \o d /\ Len(b) = Len(d) => a = c /\ b = d
<1> SUFFICES ASSUME a \o b = c \o d, Len(b) = Len(d)
             PROVE  a = c /\ b = d
  OBVIOUS
<1>1. Len(a) = Len(c)
  <2>1. Len(a \o b) = Len(a) + Len(b) /\ Len(a) \in Nat /\ Len(b) \in Nat
    BY Joined
  <2>2. Len(c \o d) = Len(c) + Len(d) /\ Len(c) \in Nat /\ Len(d) \in Nat
    BY Joined
  <2> QED BY <2>1, <2>2
<1>2. a = c
  <2>1. ASSUME NEW i \in 1 .. Len(a)
        PROVE  a[i] = c[i]
    BY <1>1, ConcatProperties, LenProperties
  <2> QED BY <1>1, <2>1, SeqEqual
<1>3. b = d
  BY <1>2, ConcatSimplifications
<1> QED BY <1>2, <1>3

LEMMA JoinedTwice ==
    ASSUME NEW S, NEW x \in Seq(S), NEW a \in Seq(S), NEW c \in Seq(S), Len(x) = 2
    PROVE  /\ x \o a \in Seq(S) /\ ((x \o a) \o c)[1] = x[1]
           /\ Len((x \o a) \o c) = 2 + Len(a) + Len(c) /\ Len(a) \in Nat /\ Len(c) \in Nat
<1>1. /\ x \o a \in Seq(S) /\ Len(x \o a) = Len(x) + Len(a) /\ Len(a) \in Nat
      /\ Len(x) >= 1 => (x \o a)[1] = x[1]
  BY Joined
<1>2. Len(x \o a) >= 1 /\ (x \o a)[1] = x[1]
  BY <1>1
<1> DEFINE z == x \o a
<1>3. /\ Len(z \o c) = Len(z) + Len(c) /\ Len(c) \in Nat
      /\ Len(z) >= 1 => (z \o c)[1] = z[1]
  <2> z \in Seq(S)
    BY <1>1
  <2> HIDE DEF z
  <2> QED BY Joined
<1> QED BY <1>1, <1>2, <1>3

Apart(x, a, c, y, b, d) ==
    (x \o a) \o c = (y \o b) \o d =>
        /\ x[1] = y[1]
        /\ Len(a) = Len(b) => Len(c) = Len(d)
        /\ Len(c) = Len(d) => a = b /\ c = d

LEMMA JoinedTwiceApart ==
    ASSUME NEW S, NEW x \in Seq(S), NEW a \in Seq(S), NEW c \in Seq(S),
           NEW y \in Seq(S), NEW b \in Seq(S), NEW d \in Seq(S), Len(x) = 2, Len(y) = 2
    PROVE  Apart(x, a, c, y, b, d)
<1> DEFINE left == x \o a
           right == y \o b
<1>1. /\ left \in Seq(S) /\ (left \o c)[1] = x[1]
      /\ Len(left \o c) = 2 + Len(a) + Len(c) /\ Len(a) \in Nat /\ Len(c) \in Nat
  <2>1. left \in Seq(S)
    BY Joined
  <2>2. (left \o c)[1] = x[1]
    <3>1. Len(left) >= 1 /\ left[1] = x[1]
      <4>1. Len(left) = Len(x) + Len(a) /\ Len(a) \in Nat /\ (Len(x) >= 1 => left[1] = x[1])
        BY Joined
      <4> HIDE DEF left
      <4> QED BY <4>1
    <3> HIDE DEF left
    <3>2. Len(left) >= 1 => (left \o c)[1] = left[1]
      BY <2>1, Joined
    <3> QED BY <3>1, <3>2
  <2>3. Len(left \o c) = 2 + Len(a) + Len(c) /\ Len(a) \in Nat /\ Len(c) \in Nat
    BY JoinedTwice
  <2> QED BY <2>1, <2>2, <2>3
<1>2. /\ right \in Seq(S) /\ (right \o d)[1] = y[1]
      /\ Len(right \o d) = 2 + Len(b) + Len(d) /\ Len(b) \in Nat /\ Len(d) \in Nat
  BY JoinedTwice
<1>3. Len(left) = Len(x) + Len(a)
  BY Joined
<1>4. Len(right) = Len(y) + Len(b)
  BY Joined
<1>5. left = right /\ Len(a) = Len(b) => a = b
  BY JoinedApart
<1> HIDE DEF left, right
<1>6. left \o c = right \o d /\ Len(c) = Len(d) => left = right /\ c = d
  <2>1. left \in Seq(S) /\ right \in Seq(S)
    BY <1>1, <1>2
  <2> QED BY <2>1, JoinedApart, Zenon
<1>7. ASSUME left \o c = right \o d
      PROVE  /\ x[1] = y[1]
             /\ Len(a) = Len(b) => Len(c) = Len(d)
             /\ Len(c) = Len(d) => a = b /\ c = d
  <2>1. x[1] = y[1]
    BY <1>1, <1>2, <1>7
  <2>2. Len(a) + Len(c) = Len(b) + Len(d)
    BY <1>1, <1>2, <1>7
  <2>3. ASSUME Len(c) = Len(d)
        PROVE  a = b /\ c = d
    <3>1. left = right /\ c = d
      BY <1>6, <1>7, <2>3
    <3>2. Len(a) = Len(b)
      BY <1>1, <1>2, <2>2, <2>3
    <3> QED BY <1>5, <3>1, <3>2
  <2> QED BY <1>1, <1>2, <2>1, <2>2, <2>3
<1> QED BY <1>7 DEF left, right, Apart

(* An event that can be published has a name of one platform's shape, and is  *)
(* about a pull request or about an issue of GitHub.                          *)
End(e) == IF e.issue # Nil THEN <<"/", "issue", "/", e.issue[1]>> ELSE <<"/", e.pull[1]>>

Placed(e) ==
    /\ \E S : e.repo \in Seq(S)
    /\ e.platform = "github" => Len(e.repo) = 3
    /\ e.issue # Nil => e.platform = "github"
    /\ Key(e) = (<<e.platform, "/">> \o e.repo) \o End(e)

LEMMA WorkIsPlaced ==
    ASSUME NEW r, WasRead(r), Decision(r).publish, Fits(r, EventRead(r))
    PROVE  LET f == Decision(r).event
           IN  /\ Placed(f)
               /\ r.change = <<f.platform, f.repo>> \o (IF f.issue # Nil THEN <<"issue", f.issue[1]>>
                                                                        ELSE <<"pull", f.pull[1]>>)
<1> DEFINE e == EventRead(r)
           f == Decision(r).event
           c == Config.policy
<1>1. Raw(r, e) /\ Valid(e)
  BY NormalizedIsRaw DEF WasRead, EventRead
<1>2. AboutTheSame(f, e)
  <2>1. Decision(r) = Evaluate(c, e)
    BY DEF Decision
  <2> HIDE DEF c, e
  <2> QED BY <1>1, <2>1, WhatIsPublished
<1>3. Fits(r, e)
  OBVIOUS
<1> HIDE DEF e, f
<1>4. \E S : f.repo \in Seq(S)
  BY <1>2, <1>3 DEF AboutTheSame, Fits
<1>5. f.platform = "github" => Len(f.repo) = 3
  BY <1>2, <1>3 DEF AboutTheSame, Fits
<1>6. f.issue # Nil => f.platform = "github"
  BY <1>1, <1>2 DEF AboutTheSame, Raw, Valid, IssueKinds, PullKinds, Nil
<1>7. Key(f) = (<<f.platform, "/">> \o f.repo) \o End(f)
  <2>1. CASE f.issue # Nil
    <3>1. f.issue = <<f.issue[1]>>
      BY <1>1, <1>2, <2>1 DEF AboutTheSame, Raw
    <3>2. Head(f.issue) = f.issue[1]
      BY <3>1
    <3> QED BY <2>1, <3>2 DEF Key, End
  <2>2. CASE f.issue = Nil
    <3>1. f.pull # Nil
      BY <1>1, <1>2, <2>2 DEF AboutTheSame, Valid
    <3>2. f.pull = <<f.pull[1]>>
      BY <1>1, <1>2, <3>1 DEF AboutTheSame, Raw
    <3>3. Head(f.pull) = f.pull[1]
      BY <3>2
    <3> QED BY <2>2, <3>1, <3>3 DEF Key, End
  <2> QED BY <2>1, <2>2
<1>8. r.change = <<f.platform, f.repo>> \o (IF f.issue # Nil THEN <<"issue", f.issue[1]>>
                                                            ELSE <<"pull", f.pull[1]>>)
  BY <1>2, <1>3 DEF AboutTheSame, Fits
<1> QED BY <1>4, <1>5, <1>6, <1>7, <1>8 DEF Placed, f

(* One key is one platform, one repository and one number of one kind.        *)
LEMMA OneKeyOneEnd ==
    ASSUME NEW e, NEW f, Placed(e), Placed(f), Key(e) = Key(f)
    PROVE  e.platform = f.platform /\ e.repo = f.repo /\ End(e) = End(f)
<1>1. PICK S, T : e.repo \in Seq(S) /\ f.repo \in Seq(T)
  BY DEF Placed
<1> DEFINE U == S \union T \union {"/", "issue", e.platform, f.platform, e.issue[1], f.issue[1],
                                   e.pull[1], f.pull[1]}
           x == <<e.platform, "/">>
           y == <<f.platform, "/">>
<1>2. e.repo \in Seq(U) /\ f.repo \in Seq(U)
  <2>1. S \subseteq U /\ T \subseteq U
    OBVIOUS
  <2> HIDE DEF U
  <2> QED BY <1>1, <2>1, SeqMonotonic
<1>3. x \in Seq(U) /\ y \in Seq(U) /\ Len(x) = 2 /\ Len(y) = 2
  OBVIOUS
<1>4. ASSUME NEW g, {"/", "issue", g.issue[1], g.pull[1]} \subseteq U
      PROVE  End(g) \in Seq(U) /\ Len(End(g)) = IF g.issue # Nil THEN 4 ELSE 2
  <2> HIDE DEF U
  <2>1. CASE g.issue # Nil
    <3> DEFINE n == g.issue[1]
    <3>1. End(g) = <<"/", "issue", "/", n>>
      BY <2>1 DEF End
    <3>2. {"/", "issue", n} \subseteq U
      BY <1>4
    <3> HIDE DEF n
    <3>3. <<"/", "issue", "/", n>> \in Seq(U) /\ Len(<<"/", "issue", "/", n>>) = 4
      BY <3>2
    <3> QED BY <2>1, <3>1, <3>3
  <2>2. CASE g.issue = Nil
    <3> DEFINE n == g.pull[1]
    <3>1. End(g) = <<"/", n>>
      BY <2>2 DEF End
    <3>2. {"/", n} \subseteq U
      BY <1>4
    <3> HIDE DEF n
    <3>3. <<"/", n>> \in Seq(U) /\ Len(<<"/", n>>) = 2
      BY <3>2
    <3> QED BY <2>2, <3>1, <3>3
  <2> QED BY <2>1, <2>2
<1>5. End(e) \in Seq(U) /\ Len(End(e)) = IF e.issue # Nil THEN 4 ELSE 2
  BY <1>4
<1>6. End(f) \in Seq(U) /\ Len(End(f)) = IF f.issue # Nil THEN 4 ELSE 2
  BY <1>4
<1>7. (x \o e.repo) \o End(e) = (y \o f.repo) \o End(f)
  BY DEF Placed
<1>8. x[1] = e.platform /\ y[1] = f.platform
  OBVIOUS
<1> HIDE DEF U, x, y
<1>9. /\ x[1] = y[1]
      /\ Len(e.repo) = Len(f.repo) => Len(End(e)) = Len(End(f))
      /\ Len(End(e)) = Len(End(f)) => e.repo = f.repo /\ End(e) = End(f)
  <2>1. End(e) \in Seq(U) /\ End(f) \in Seq(U)
    BY <1>5, <1>6
  <2>2. Apart(x, e.repo, End(e), y, f.repo, End(f))
    BY <1>2, <1>3, <2>1, JoinedTwiceApart
  <2> QED BY <1>7, <2>2 DEF Apart
<1>10. Len(End(e)) = Len(End(f))
  <2>1. CASE e.issue = Nil <=> f.issue = Nil
    BY <1>5, <1>6, <2>1
  <2>2. CASE ~(e.issue = Nil <=> f.issue = Nil)
    <3>1. Len(e.repo) = 3 /\ Len(f.repo) = 3
      BY <1>8, <1>9, <2>2 DEF Placed
    <3> QED BY <1>9, <3>1
  <2> QED BY <2>1, <2>2
<1> QED BY <1>8, <1>9, <1>10

LEMMA OneKeyEach ==
    ASSUME NEW r, WasRead(r), Decision(r).publish, Fits(r, EventRead(r)),
           NEW t, WasRead(t), Decision(t).publish, Fits(t, EventRead(t))
    PROVE  Key(Decision(r).event) = Key(Decision(t).event) <=> r.change = t.change
<1> DEFINE e == Decision(r).event
           f == Decision(t).event
           about(g) == IF g.issue # Nil THEN <<g.platform, g.repo, "issue", g.issue[1]>>
                                        ELSE <<g.platform, g.repo, "pull", g.pull[1]>>
<1>1. Placed(e) /\ Placed(f)
  BY WorkIsPlaced
<1>2. /\ r.change = <<e.platform, e.repo>> \o (IF e.issue # Nil THEN <<"issue", e.issue[1]>>
                                                               ELSE <<"pull", e.pull[1]>>)
      /\ t.change = <<f.platform, f.repo>> \o (IF f.issue # Nil THEN <<"issue", f.issue[1]>>
                                                               ELSE <<"pull", f.pull[1]>>)
  BY WorkIsPlaced
<1> HIDE DEF e, f
<1>3. r.change = about(e) /\ t.change = about(f)
  BY <1>2
<1>4. ASSUME Key(e) = Key(f)
      PROVE  about(e) = about(f)
  BY <1>1, <1>4, OneKeyOneEnd DEF End
<1>5. ASSUME about(e) = about(f)
      PROVE  Key(e) = Key(f)
  <2>1. e.platform = f.platform /\ e.repo = f.repo /\ End(e) = End(f)
    BY <1>5 DEF End
  <2> QED BY <1>1, <2>1 DEF Placed
<1> QED BY <1>3, <1>4, <1>5 DEF e, f

-----------------------------------------------------------------------------
(* Sequences of messages.                                                     *)
LEMMA RangeOfNone == Range(<<>>) = {}
BY DEF Range

LEMMA RangeOfAppended ==
    ASSUME NEW S, NEW seq \in Seq(S), NEW x \in S
    PROVE  Append(seq, x) \in Seq(S) /\ Range(Append(seq, x)) = Range(seq) \union {x}
<1> DEFINE more == Append(seq, x)
<1>1. /\ more \in Seq(S) /\ Len(more) = Len(seq) + 1 /\ more[Len(seq) + 1] = x
      /\ \A i \in 1 .. Len(seq) : more[i] = seq[i]
  BY AppendProperties
<1>2. DOMAIN more = 1 .. Len(more) /\ DOMAIN seq = 1 .. Len(seq) /\ Len(seq) \in Nat
  BY <1>1, LenProperties
<1> HIDE DEF more
<1> QED BY <1>1, <1>2 DEF Range, more

LEMMA RangeOfRest ==
    ASSUME NEW S, NEW seq \in Seq(S), seq # <<>>
    PROVE  /\ Head(seq) \in S /\ Tail(seq) \in Seq(S)
           /\ Range(seq) = {Head(seq)} \union Range(Tail(seq))
<1> DEFINE rest == Tail(seq)
<1>1. /\ Head(seq) \in S /\ rest \in Seq(S) /\ Len(rest) = Len(seq) - 1
      /\ \A i \in 1 .. Len(rest) : rest[i] = seq[i + 1]
  BY HeadTailProperties
<1>2. /\ DOMAIN rest = 1 .. Len(rest) /\ DOMAIN seq = 1 .. Len(seq)
      /\ Len(seq) \in Nat \ {0} /\ Head(seq) = seq[1]
  BY <1>1, LenProperties, EmptySeq
<1> HIDE DEF rest
<1>3. ASSUME NEW m \in Range(seq)
      PROVE  m \in {Head(seq)} \union Range(rest)
  <2>1. PICK i \in 1 .. Len(seq) : m = seq[i]
    BY <1>2 DEF Range
  <2>2. CASE i = 1
    BY <1>2, <2>1, <2>2
  <2>3. CASE i # 1
    <3>1. i - 1 \in 1 .. Len(rest) /\ rest[i - 1] = m
      BY <1>1, <1>2, <2>1, <2>3
    <3> QED BY <1>2, <3>1 DEF Range
  <2> QED BY <2>2, <2>3
<1>4. ASSUME NEW m \in {Head(seq)} \union Range(rest)
      PROVE  m \in Range(seq)
  <2>1. CASE m = Head(seq)
    BY <1>2, <2>1 DEF Range
  <2>2. CASE m \in Range(rest)
    <3>1. PICK i \in 1 .. Len(rest) : m = rest[i]
      BY <1>2, <2>2 DEF Range
    <3>2. i + 1 \in 1 .. Len(seq) /\ seq[i + 1] = m
      BY <1>1, <1>2, <3>1
    <3> QED BY <1>2, <3>2 DEF Range
  <2> QED BY <2>1, <2>2
<1> QED BY <1>1, <1>3, <1>4 DEF rest

-----------------------------------------------------------------------------
(* The shape of the state: what the later invariants rest on.                 *)
Early == {"publish", "flight", "failed", "backoff", "published"}
Stages == Early \union {"free", "react", "wake", "done", "cut"}
Message == [slot : Slots, attempt : 1 .. MaxAttempts]
Deliveries(s) == Scenarios[scenario].deliveries[s]

Typed(q) ==
    /\ DOMAIN q = DOMAIN Free
    /\ q.at \in Stages
    /\ q.attempt \in 0 .. MaxAttempts
    /\ q.at \in Early => q.attempt > 0
    /\ q.at = "backoff" => q.attempt < MaxAttempts
    /\ q.expired \in BOOLEAN /\ q.closedOn \in BOOLEAN

TypeInv ==
    /\ scenario \in DOMAIN Scenarios
    /\ server \in {"up", "draining", "closing", "gone"}
    /\ DOMAIN outgoing = Keys
    /\ \A key \in Keys : outgoing[key] \in Seq(Message)
    /\ topic \in Seq(Slots)
    /\ faults \in Nat
    /\ DOMAIN requests = Slots
    /\ \A s \in Slots : Typed(requests[s])

(* What became of a request: all that an action can change in it.             *)
Becomes(p, q, at, attempt, expired, status, reaction, reacted) ==
    /\ DOMAIN p = DOMAIN Free
    /\ p.r = q.r /\ p.event = q.event /\ p.closedOn = q.closedOn
    /\ p.at = at /\ p.attempt = attempt /\ p.expired = expired
    /\ p.status = status /\ p.reaction = reaction /\ p.reacted = reacted

MovesTo(p, q, at) == Becomes(p, q, at, q.attempt, q.expired, q.status, q.reaction, q.reacted)

Only(s) ==
    /\ DOMAIN requests' = Slots
    /\ \A t \in Slots : t # s => requests'[t] = requests[t]

LEMMA RequestMoved ==
    ASSUME TypeInv, NEW s \in Slots, NEW at, requests' = Moved(s, at)
    PROVE  Only(s) /\ MovesTo(requests'[s], requests[s], at)
<1> DEFINE q == requests[s]
           p == requests'[s]
<1>1. Only(s) /\ p = [q EXCEPT !.at = at]
  BY DEF TypeInv, Only, Moved
<1>2. DOMAIN q = DOMAIN Free
  BY DEF TypeInv, Typed
<1>3. Becomes(p, q, at, q.attempt, q.expired, q.status, q.reaction, q.reacted)
  <2> HIDE DEF p, q
  <2> QED BY <1>1, <1>2 DEF Becomes, Free
<1> QED BY <1>1, <1>3 DEF MovesTo

LEMMA RequestExpired ==
    ASSUME TypeInv, NEW s \in Slots,
           requests' = [requests EXCEPT ![s].at = "failed", ![s].expired = TRUE]
    PROVE  LET q == requests[s]
           IN  Only(s) /\ Becomes(requests'[s], q, "failed", q.attempt, TRUE, q.status, q.reaction, q.reacted)
<1> DEFINE q == requests[s]
           p == requests'[s]
<1>1. Only(s) /\ p = [q EXCEPT !.at = "failed", !.expired = TRUE]
  BY DEF TypeInv, Only
<1>2. DOMAIN q = DOMAIN Free
  BY DEF TypeInv, Typed
<1>3. Becomes(p, q, "failed", q.attempt, TRUE, q.status, q.reaction, q.reacted)
  <2> HIDE DEF p, q
  <2> QED BY <1>1, <1>2 DEF Becomes, Free
<1> QED BY <1>1, <1>3

LEMMA RequestGivenUp ==
    ASSUME TypeInv, NEW s \in Slots, requests' = GaveUp(s)
    PROVE  LET q == requests[s]
           IN  Only(s) /\ Becomes(requests'[s], q, "done", q.attempt, q.expired, 503, q.reaction, q.reacted)
<1> DEFINE q == requests[s]
           p == requests'[s]
<1>1. Only(s) /\ p = [q EXCEPT !.at = "done", !.status = 503]
  BY DEF TypeInv, Only, GaveUp
<1>2. DOMAIN q = DOMAIN Free
  BY DEF TypeInv, Typed
<1>3. Becomes(p, q, "done", q.attempt, q.expired, 503, q.reaction, q.reacted)
  <2> HIDE DEF p, q
  <2> QED BY <1>1, <1>2 DEF Becomes, Free
<1> QED BY <1>1, <1>3

LEMMA RequestGivenUpLate ==
    ASSUME TypeInv, NEW s \in Slots,
           requests' = [GaveUp(s) EXCEPT ![s].expired = TRUE]
    PROVE  LET q == requests[s]
           IN  Only(s) /\ Becomes(requests'[s], q, "done", q.attempt, TRUE, 503, q.reaction, q.reacted)
<1> DEFINE q == requests[s]
           p == requests'[s]
<1>1. Only(s) /\ p = [q EXCEPT !.at = "done", !.status = 503, !.expired = TRUE]
  BY DEF TypeInv, Only, GaveUp
<1>2. DOMAIN q = DOMAIN Free
  BY DEF TypeInv, Typed
<1>3. Becomes(p, q, "done", q.attempt, TRUE, 503, q.reaction, q.reacted)
  <2> HIDE DEF p, q
  <2> QED BY <1>1, <1>2 DEF Becomes, Free
<1> QED BY <1>1, <1>3

LEMMA RequestRetried ==
    ASSUME TypeInv, NEW s \in Slots,
           requests' = [requests EXCEPT ![s].at = "publish", ![s].attempt = @ + 1]
    PROVE  LET q == requests[s]
           IN  Only(s) /\ Becomes(requests'[s], q, "publish", q.attempt + 1, q.expired, q.status, q.reaction, q.reacted)
<1> DEFINE q == requests[s]
           p == requests'[s]
<1>1. Only(s) /\ p = [q EXCEPT !.at = "publish", !.attempt = @ + 1]
  BY DEF TypeInv, Only
<1>2. DOMAIN q = DOMAIN Free
  BY DEF TypeInv, Typed
<1>3. Becomes(p, q, "publish", q.attempt + 1, q.expired, q.status, q.reaction, q.reacted)
  <2> HIDE DEF p, q
  <2> QED BY <1>1, <1>2 DEF Becomes, Free
<1> QED BY <1>1, <1>3

LEMMA RequestAccepted ==
    ASSUME TypeInv, NEW s \in Slots,
           requests' = [requests EXCEPT ![s].at = "react", ![s].status = 202, ![s].reaction = "seen"]
    PROVE  LET q == requests[s]
           IN  Only(s) /\ Becomes(requests'[s], q, "react", q.attempt, q.expired, 202, "seen", q.reacted)
<1> DEFINE q == requests[s]
           p == requests'[s]
<1>1. Only(s) /\ p = [q EXCEPT !.at = "react", !.status = 202, !.reaction = "seen"]
  BY DEF TypeInv, Only
<1>2. DOMAIN q = DOMAIN Free
  BY DEF TypeInv, Typed
<1>3. Becomes(p, q, "react", q.attempt, q.expired, 202, "seen", q.reacted)
  <2> HIDE DEF p, q
  <2> QED BY <1>1, <1>2 DEF Becomes, Free
<1> QED BY <1>1, <1>3

LEMMA RequestReacted ==
    ASSUME TypeInv, NEW s \in Slots, NEW at, NEW reacted,
           requests' = [requests EXCEPT ![s].at = at, ![s].reacted = reacted]
    PROVE  LET q == requests[s]
           IN  Only(s) /\ Becomes(requests'[s], q, at, q.attempt, q.expired, q.status, q.reaction, reacted)
<1> DEFINE q == requests[s]
           p == requests'[s]
<1>1. Only(s) /\ p = [q EXCEPT !.at = at, !.reacted = reacted]
  BY DEF TypeInv, Only
<1>2. DOMAIN q = DOMAIN Free
  BY DEF TypeInv, Typed
<1>3. Becomes(p, q, at, q.attempt, q.expired, q.status, q.reaction, reacted)
  <2> HIDE DEF p, q
  <2> QED BY <1>1, <1>2 DEF Becomes, Free
<1> QED BY <1>1, <1>3

LEMMA RequestArrived ==
    ASSUME NEW r, NEW p, p = [Decide(r) EXCEPT !.r = <<r>>]
    PROVE  LET d == Decide(r)
           IN  /\ DOMAIN p = DOMAIN Free /\ p.r = <<r>> /\ p.event = d.event
               /\ p.at = d.at /\ p.attempt = d.attempt /\ ~p.expired /\ ~p.closedOn
               /\ p.status = d.status /\ p.reaction = d.reaction /\ p.reacted = d.reacted
               /\ p.expired \in BOOLEAN /\ p.closedOn \in BOOLEAN
<1> DEFINE d == Decide(r)
<1>1. Shaped(r, d)
  BY DecisionShaped
<1> HIDE DEF d
<1>2. /\ DOMAIN d = DOMAIN Free /\ ~d.expired /\ ~d.closedOn
      /\ d.expired \in BOOLEAN /\ d.closedOn \in BOOLEAN
  BY <1>1 DEF Shaped
<1>3. p = [d EXCEPT !.r = <<r>>]
  BY DEF d
<1>4. /\ DOMAIN p = DOMAIN Free /\ p.r = <<r>> /\ p.event = d.event
      /\ p.at = d.at /\ p.attempt = d.attempt /\ ~p.expired /\ ~p.closedOn
      /\ p.status = d.status /\ p.reaction = d.reaction /\ p.reacted = d.reacted
  BY <1>2, <1>3 DEF Free
<1>5. p.expired \in BOOLEAN /\ p.closedOn \in BOOLEAN
  BY <1>2, <1>3 DEF Free
<1> QED BY <1>4, <1>5 DEF d

LEMMA KeysStay == ASSUME UNCHANGED scenario PROVE Keys' = Keys
BY DEF Keys

LEMMA RequestsTyped ==
    ASSUME TypeInv, NEW s \in Slots, Handle(s) \/ ServeHTTP(s)
    PROVE  DOMAIN requests' = Slots /\ \A t \in Slots : Typed(requests'[t])
<1> DEFINE q == requests[s]
           p == requests'[s]
<1>1. Typed(q)
  BY DEF TypeInv
<1>2. ASSUME Only(s), Typed(p)
      PROVE  DOMAIN requests' = Slots /\ \A t \in Slots : Typed(requests'[t])
  BY <1>2 DEF Only, TypeInv
<1>3. ASSUME NEW at \in Stages \ {"backoff"}, requests' = Moved(s, at), at \in Early => q.at \in Early
      PROVE  DOMAIN requests' = Slots /\ \A t \in Slots : Typed(requests'[t])
  <2>1. Only(s) /\ MovesTo(p, q, at)
    BY <1>3, RequestMoved
  <2>2. Typed(p)
    <3> HIDE DEF p, q
    <3> QED BY <1>1, <1>3, <2>1 DEF Typed, MovesTo, Becomes
  <2> QED BY <1>2, <2>1, <2>2
<1>4. CASE ServeHTTP(s)
  <2>1. Only(s) /\ \E r \in Deliveries(s) : p = [Decide(r) EXCEPT !.r = <<r>>]
    BY <1>4 DEF ServeHTTP, TypeInv, Only, Decisions, Deliveries
  <2>2. PICK r \in Deliveries(s) : p = [Decide(r) EXCEPT !.r = <<r>>]
    BY <2>1
  <2>3. Shaped(r, Decide(r))
    BY DecisionShaped
  <2>4. /\ DOMAIN p = DOMAIN Free /\ p.at = Decide(r).at /\ p.attempt = Decide(r).attempt
        /\ p.expired \in BOOLEAN /\ p.closedOn \in BOOLEAN
    <3> HIDE DEF p
    <3> QED BY <2>2, RequestArrived
  <2>5. p.at \in {"publish", "react", "done"}
    <3> HIDE DEF p
    <3> QED BY <2>3, <2>4 DEF Shaped
  <2>6. p.attempt \in {0, 1} /\ (p.at = "publish" => p.attempt = 1)
    <3> DEFINE d == Decide(r)
    <3>1. Shaped(r, d) /\ p.at = d.at /\ p.attempt = d.attempt
      BY <2>3, <2>4
    <3> HIDE DEF p, d
    <3>2. d.attempt \in {0, 1}
      BY <3>1 DEF Shaped
    <3>3. d.at = "publish" => d.attempt = 1
      BY <3>1 DEF Shaped
    <3> QED BY <3>1, <3>2, <3>3
  <2>7. p.attempt \in 0 .. MaxAttempts /\ (p.at \in Early => p.attempt > 0)
    <3> HIDE DEF p
    <3> QED BY <2>5, <2>6, ReceiverAssumption DEF Early
  <2>8. Typed(p)
    <3> HIDE DEF p
    <3> QED BY <2>4, <2>5, <2>7 DEF Typed, Stages, Early
  <2> QED BY <1>2, <2>1, <2>8
<1>5. CASE PublishPubSub(s) \/ PublishMemory(s)
  BY <1>3, <1>5 DEF PublishPubSub, PublishMemory, Stages, Early
<1>6. CASE DeadlineInFlight(s)
  <2>1. Only(s) /\ Becomes(p, q, "failed", q.attempt, TRUE, q.status, q.reaction, q.reacted)
    BY <1>6, RequestExpired DEF DeadlineInFlight
  <2>2. q.at = "flight"
    BY <1>6 DEF DeadlineInFlight
  <2>3. Typed(p)
    <3> HIDE DEF p, q
    <3> QED BY <1>1, <2>1, <2>2 DEF Typed, Becomes, Stages, Early
  <2> QED BY <1>2, <2>1, <2>3
<1>7. CASE ResumePublish(s)
  <2>1. CASE requests' = GaveUp(s)
    <3>1. Only(s) /\ Becomes(p, q, "done", q.attempt, q.expired, 503, q.reaction, q.reacted)
      BY <2>1, RequestGivenUp
    <3>2. Typed(p)
      <4> HIDE DEF p, q
      <4> QED BY <1>1, <3>1 DEF Typed, Becomes, Stages, Early
    <3> QED BY <1>2, <3>1, <3>2
  <2>2. CASE requests' = Moved(s, "backoff") /\ q.attempt # MaxAttempts
    <3>1. Only(s) /\ MovesTo(p, q, "backoff")
      BY <2>2, RequestMoved
    <3>2. q.at = "failed" /\ q.attempt # MaxAttempts
      BY <1>7, <2>2 DEF ResumePublish
    <3>3. Typed(p)
      <4> HIDE DEF p, q
      <4> QED BY <1>1, <3>1, <3>2, ReceiverAssumption DEF Typed, MovesTo, Becomes, Stages, Early
    <3> QED BY <1>2, <3>1, <3>3
  <2> QED BY <1>7, <2>1, <2>2 DEF ResumePublish
<1>8. CASE Backoff(s)
  <2>1. /\ Only(s)
        /\ Becomes(p, q, "publish", q.attempt + 1, q.expired, q.status, q.reaction, q.reacted)
    BY <1>8, RequestRetried DEF Backoff
  <2>2. q.at = "backoff"
    BY <1>8 DEF Backoff
  <2>3. Typed(p)
    <3> HIDE DEF p, q
    <3> QED BY <1>1, <2>1, <2>2, ReceiverAssumption DEF Typed, Becomes, Stages, Early
  <2> QED BY <1>2, <2>1, <2>3
<1>9. CASE DeadlineInBackoff(s)
  <2>1. Only(s) /\ Becomes(p, q, "done", q.attempt, TRUE, 503, q.reaction, q.reacted)
    BY <1>9, RequestGivenUpLate DEF DeadlineInBackoff
  <2>2. Typed(p)
    <3> HIDE DEF p, q
    <3> QED BY <1>1, <2>1 DEF Typed, Becomes, Stages, Early
  <2> QED BY <1>2, <2>1, <2>2
<1>10. CASE AnswerAccepted(s)
  <2>1. Only(s) /\ Becomes(p, q, "react", q.attempt, q.expired, 202, "seen", q.reacted)
    BY <1>10, RequestAccepted DEF AnswerAccepted
  <2>2. Typed(p)
    <3> HIDE DEF p, q
    <3> QED BY <1>1, <2>1 DEF Typed, Becomes, Stages, Early
  <2> QED BY <1>2, <2>1, <2>2
<1>11. CASE React(s)
  <2>1. PICK at \in {"wake", "done"} :
             \/ requests' = Moved(s, at)
             \/ \E x : requests' = [requests EXCEPT ![s].at = at, ![s].reacted = x]
    BY <1>11 DEF React
  <2>2. CASE requests' = Moved(s, at)
    BY <1>3, <2>2 DEF Stages, Early
  <2>3. ASSUME NEW x, requests' = [requests EXCEPT ![s].at = at, ![s].reacted = x]
        PROVE  DOMAIN requests' = Slots /\ \A t \in Slots : Typed(requests'[t])
    <3>1. Only(s) /\ Becomes(p, q, at, q.attempt, q.expired, q.status, q.reaction, x)
      BY <2>3, RequestReacted
    <3>2. Typed(p)
      <4> HIDE DEF p, q
      <4> QED BY <1>1, <3>1 DEF Typed, Becomes, Stages, Early
    <3> QED BY <1>2, <3>1, <3>2
  <2> QED BY <2>1, <2>2, <2>3
<1>12. CASE Wake(s)
  BY <1>3, <1>12 DEF Wake, Stages, Early
<1> QED BY <1>4, <1>5, <1>6, <1>7, <1>8, <1>9, <1>10, <1>11, <1>12 DEF Handle

(* The client keeps only messages of handlers that try to publish.            *)
LEMMA OutgoingTyped ==
    ASSUME TypeInv, NEW s \in Slots, PublishPubSub(s)
    PROVE  DOMAIN outgoing' = Keys /\ \A key \in Keys : outgoing'[key] \in Seq(Message)
<1>1. CASE UNCHANGED outgoing
  BY <1>1 DEF TypeInv
<1>2. CASE outgoing' = [outgoing EXCEPT ![KeyOf(s)] =
                           Append(@, [slot |-> s, attempt |-> requests[s].attempt])]
  <2> DEFINE m == [slot |-> s, attempt |-> requests[s].attempt]
  <2>1. m \in Message
    <3>1. requests[s].attempt \in 1 .. MaxAttempts
      BY ReceiverAssumption DEF PublishPubSub, TypeInv, Typed, Early
    <3> QED BY <3>1 DEF Message
  <2>2. ASSUME NEW key \in Keys
        PROVE  outgoing'[key] \in Seq(Message)
    <3>1. outgoing[key] \in Seq(Message)
      BY DEF TypeInv
    <3>2. outgoing'[key] = outgoing[key] \/ outgoing'[key] = Append(outgoing[key], m)
      BY <1>2 DEF TypeInv
    <3> HIDE DEF m
    <3> QED BY <2>1, <3>1, <3>2, AppendProperties, SMTT(30)
  <2> QED BY <1>2, <2>2 DEF TypeInv
<1> QED BY <1>1, <1>2 DEF PublishPubSub

LEMMA SlotStepTyped ==
    ASSUME TypeInv, NEW s \in Slots, Handle(s) \/ ServeHTTP(s)
    PROVE  TypeInv'
<1>1. DOMAIN requests' = Slots /\ \A t \in Slots : Typed(requests'[t])
  BY RequestsTyped
<1>2. /\ UNCHANGED <<scenario, server>> /\ Keys' = Keys
  <2>1. UNCHANGED <<scenario, server>>
    BY DEF ServeHTTP, Handle, PublishPubSub, PublishMemory, DeadlineInFlight, ResumePublish, Backoff,
           DeadlineInBackoff, AnswerAccepted, React, Wake
  <2> QED BY <2>1, KeysStay
<1>3. faults' \in Nat
  <2>1. faults' = faults \/ Blame
    BY DEF ServeHTTP, Handle, PublishPubSub, PublishMemory, DeadlineInFlight, ResumePublish, Backoff,
           DeadlineInBackoff, AnswerAccepted, React, Wake
  <2> QED BY <2>1 DEF TypeInv, Blame
<1>4. DOMAIN outgoing' = Keys /\ \A key \in Keys : outgoing'[key] \in Seq(Message)
  <2>1. CASE PublishPubSub(s)
    BY <2>1, OutgoingTyped
  <2>2. CASE UNCHANGED outgoing
    BY <2>2 DEF TypeInv
  <2> QED BY <2>1, <2>2 DEF ServeHTTP, Handle, PublishMemory, DeadlineInFlight, ResumePublish, Backoff,
             DeadlineInBackoff, AnswerAccepted, React, Wake
<1>5. topic' \in Seq(Slots)
  <2>1. topic' = topic \/ topic' = Append(topic, s)
    BY DEF ServeHTTP, Handle, PublishPubSub, PublishMemory, DeadlineInFlight, ResumePublish, Backoff,
           DeadlineInBackoff, AnswerAccepted, React, Wake
  <2> QED BY <2>1, AppendProperties DEF TypeInv
<1> QED BY <1>1, <1>2, <1>3, <1>4, <1>5 DEF TypeInv

(* One key's messages, the first of them or all.                              *)
LEMMA SentTyped ==
    ASSUME TypeInv, NEW key \in Keys, Sent(key)
    PROVE  TypeInv'
<1> DEFINE m == Head(outgoing[key])
<1>1. outgoing[key] \in Seq(Message) /\ outgoing[key] # <<>>
  BY DEF TypeInv, Sent
<1>2. m \in Message /\ Tail(outgoing[key]) \in Seq(Message)
  BY <1>1, RangeOfRest
<1>3. m.slot \in Slots
  BY <1>2 DEF Message
<1>4. UNCHANGED <<scenario, server, faults>> /\ Keys' = Keys
  BY KeysStay DEF Sent
<1>5. DOMAIN outgoing' = Keys /\ \A k \in Keys : outgoing'[k] \in Seq(Message)
  BY <1>2 DEF Sent, TypeInv
<1>6. topic' \in Seq(Slots)
  BY <1>3, AppendProperties DEF Sent, TypeInv
<1>7. DOMAIN requests' = Slots /\ \A t \in Slots : Typed(requests'[t])
  <2>1. CASE requests' = requests
    BY <2>1 DEF TypeInv
  <2>2. CASE Waits(m) /\ requests' = Moved(m.slot, "published")
    <3> DEFINE s == m.slot
    <3>0. s \in Slots /\ requests[s].at = "flight"
      BY <1>3, <2>2 DEF Waits
    <3>1. Only(s) /\ MovesTo(requests'[s], requests[s], "published")
      <4>1. requests' = Moved(s, "published")
        BY <2>2
      <4> HIDE DEF s
      <4> QED BY <3>0, <4>1, RequestMoved
    <3> HIDE DEF s
    <3>2. Typed(requests[s])
      BY <3>0 DEF TypeInv
    <3>3. Typed(requests'[s])
      BY <3>0, <3>1, <3>2 DEF Typed, MovesTo, Becomes, Stages, Early
    <3> QED BY <3>1, <3>3 DEF Only, TypeInv
  <2> QED BY <2>1, <2>2 DEF Sent
<1> QED BY <1>4, <1>5, <1>6, <1>7 DEF TypeInv

Told(key) == {m.slot : m \in {n \in Range(outgoing[key]) : Waits(n)}}

LEMMA ToldOnes ==
    ASSUME TypeInv, NEW key \in Keys, NotSent(key)
    PROVE  /\ DOMAIN requests' = Slots
           /\ \A s \in Slots \ Told(key) : requests'[s] = requests[s]
           /\ \A s \in Told(key) : /\ s \in Slots /\ requests[s].at = "flight"
                                   /\ MovesTo(requests'[s], requests[s], "failed")
<1>1. requests' = [s \in Slots |-> IF s \in Told(key) THEN [requests[s] EXCEPT !.at = "failed"]
                                                     ELSE requests[s]]
  BY DEF NotSent, Told
<1>2. ASSUME NEW s \in Told(key)
      PROVE  /\ s \in Slots /\ requests[s].at = "flight"
             /\ MovesTo(requests'[s], requests[s], "failed")
  <2>1. PICK m \in Range(outgoing[key]) : Waits(m) /\ m.slot = s
    BY DEF Told
  <2>2. m \in Message
    <3>1. outgoing[key] \in Seq(Message)
      BY DEF TypeInv
    <3> QED BY <3>1, <2>1, RangeOfSeq
  <2>3. s \in Slots
    BY <2>1, <2>2 DEF Message
  <2>4. requests[s].at = "flight"
    BY <2>1 DEF Waits
  <2> DEFINE q == requests[s]
             p == requests'[s]
  <2>5. p = [q EXCEPT !.at = "failed"]
    BY <1>1, <2>3
  <2>6. DOMAIN q = DOMAIN Free
    BY <2>3 DEF TypeInv, Typed
  <2>7. MovesTo(p, q, "failed")
    <3> HIDE DEF p, q
    <3> QED BY <2>5, <2>6 DEF MovesTo, Becomes, Free
  <2> QED BY <2>3, <2>4, <2>7
<1>3. DOMAIN requests' = Slots /\ \A s \in Slots \ Told(key) : requests'[s] = requests[s]
  BY <1>1
<1> QED BY <1>2, <1>3

LEMMA NotSentTyped ==
    ASSUME TypeInv, NEW key \in Keys, NotSent(key)
    PROVE  TypeInv'
<1>1. outgoing[key] \in Seq(Message) /\ outgoing[key] # <<>>
  BY DEF TypeInv, NotSent
<1> DEFINE m == Head(outgoing[key])
<1>2. m.slot \in Slots
  <2>1. m \in Message
    BY <1>1, RangeOfRest
  <2> QED BY <2>1 DEF Message
<1>3. UNCHANGED <<scenario, server>> /\ Keys' = Keys /\ faults' \in Nat
  <2>1. UNCHANGED <<scenario, server>> /\ Blame
    BY DEF NotSent
  <2> QED BY <2>1, KeysStay DEF Blame, TypeInv
<1>4. DOMAIN outgoing' = Keys /\ \A k \in Keys : outgoing'[k] \in Seq(Message)
  BY DEF NotSent, TypeInv
<1>5. topic' \in Seq(Slots)
  <2>1. topic' \in {topic, Append(topic, m.slot)}
    BY DEF NotSent
  <2> HIDE DEF m
  <2> QED BY <1>2, <2>1, AppendProperties, SMTT(30) DEF TypeInv
<1>6. DOMAIN requests' = Slots /\ \A t \in Slots : Typed(requests'[t])
  <2>1. DOMAIN requests' = Slots
    BY ToldOnes
  <2>2. ASSUME NEW t \in Slots
        PROVE  Typed(requests'[t])
    <3> DEFINE q == requests[t]
               p == requests'[t]
    <3>1. Typed(q)
      BY DEF TypeInv
    <3>2. p = q \/ (q.at = "flight" /\ MovesTo(p, q, "failed"))
      BY ToldOnes
    <3> HIDE DEF p, q
    <3>3. Typed(p)
      BY <3>1, <3>2 DEF Typed, MovesTo, Becomes, Stages, Early
    <3> QED BY <3>3 DEF p
  <2> QED BY <2>1, <2>2
<1> QED BY <1>3, <1>4, <1>5, <1>6 DEF TypeInv

(* The end of a process cuts its handlers off; its shutdown marks them.       *)
LEMMA RequestsCutOff ==
    ASSUME TypeInv, requests' = CutOff
    PROVE  /\ DOMAIN requests' = Slots
           /\ \A s \in Slots :
                 /\ Busy(s) => MovesTo(requests'[s], requests[s], "cut")
                 /\ ~Busy(s) => requests'[s] = requests[s]
<1>1. DOMAIN requests' = Slots
  BY DEF CutOff
<1>2. ASSUME NEW s \in Slots, Busy(s)
      PROVE  MovesTo(requests'[s], requests[s], "cut")
  <2> DEFINE q == requests[s]
             p == requests'[s]
  <2>1. p = [q EXCEPT !.at = "cut"]
    BY <1>2 DEF CutOff
  <2>2. DOMAIN q = DOMAIN Free
    BY DEF TypeInv, Typed
  <2>3. MovesTo(p, q, "cut")
    <3> HIDE DEF p, q
    <3> QED BY <2>1, <2>2 DEF MovesTo, Becomes, Free
  <2> QED BY <2>3
<1>3. \A s \in Slots : ~Busy(s) => requests'[s] = requests[s]
  BY DEF CutOff
<1> QED BY <1>1, <1>2, <1>3

LEMMA RequestsMarked ==
    ASSUME TypeInv, Drain
    PROVE  /\ DOMAIN requests' = Slots
           /\ \A s \in Slots :
                 LET q == requests[s]
                     p == requests'[s]
                 IN  /\ DOMAIN p = DOMAIN Free
                     /\ p.r = q.r /\ p.event = q.event /\ p.at = q.at /\ p.attempt = q.attempt
                     /\ p.expired = q.expired /\ p.status = q.status
                     /\ p.reaction = q.reaction /\ p.reacted = q.reacted
                     /\ p.closedOn = (q.closedOn \/ Busy(s))
<1>1. DOMAIN requests' = Slots
  BY DEF Drain
<1>2. ASSUME NEW s \in Slots
      PROVE  LET q == requests[s]
                 p == requests'[s]
             IN  /\ DOMAIN p = DOMAIN Free
                 /\ p.r = q.r /\ p.event = q.event /\ p.at = q.at /\ p.attempt = q.attempt
                 /\ p.expired = q.expired /\ p.status = q.status
                 /\ p.reaction = q.reaction /\ p.reacted = q.reacted
                 /\ p.closedOn = (q.closedOn \/ Busy(s))
  <2> DEFINE q == requests[s]
             p == requests'[s]
             b == q.closedOn \/ Busy(s)
  <2>1. p = [q EXCEPT !.closedOn = b]
    BY DEF Drain
  <2>2. DOMAIN q = DOMAIN Free
    BY DEF TypeInv, Typed
  <2>3. /\ DOMAIN p = DOMAIN Free
        /\ p.r = q.r /\ p.event = q.event /\ p.at = q.at /\ p.attempt = q.attempt
        /\ p.expired = q.expired /\ p.status = q.status
        /\ p.reaction = q.reaction /\ p.reacted = q.reacted /\ p.closedOn = b
    <3> HIDE DEF p, q, b
    <3> QED BY <2>1, <2>2 DEF Free
  <2> QED BY <2>3
<1> QED BY <1>1, <1>2

LEMMA LifeTyped ==
    ASSUME TypeInv, Stop \/ Drain \/ Exit \/ Crash \/ Start
    PROVE  TypeInv'
<1>1. UNCHANGED <<scenario, topic>> /\ Keys' = Keys
  <2>1. UNCHANGED <<scenario, topic>>
    BY DEF Stop, Drain, Exit, Crash, Start
  <2> QED BY <2>1, KeysStay
<1>2. server' \in {"up", "draining", "closing", "gone"}
  BY DEF Stop, Drain, Exit, Crash, Start
<1>3. faults' \in Nat
  <2>1. faults' = faults \/ Blame
    BY DEF Stop, Drain, Exit, Crash, Start
  <2> QED BY <2>1 DEF TypeInv, Blame
<1>4. DOMAIN outgoing' = Keys /\ \A key \in Keys : outgoing'[key] \in Seq(Message)
  <2>1. CASE Crash
    BY <2>1, EmptySeq DEF Crash, TypeInv
  <2>2. CASE UNCHANGED outgoing
    BY <2>2 DEF TypeInv
  <2> QED BY <2>1, <2>2 DEF Stop, Drain, Exit, Start
<1>5. DOMAIN requests' = Slots /\ \A s \in Slots : Typed(requests'[s])
  <2>1. CASE UNCHANGED requests
    BY <2>1 DEF TypeInv
  <2>2. CASE requests' = CutOff
    <3>1. DOMAIN requests' = Slots
      BY <2>2, RequestsCutOff
    <3>2. ASSUME NEW s \in Slots
          PROVE  Typed(requests'[s])
      <4> DEFINE q == requests[s]
                 p == requests'[s]
      <4>1. Typed(q)
        BY DEF TypeInv
      <4>2. p = q \/ MovesTo(p, q, "cut")
        BY <2>2, RequestsCutOff
      <4>3. Typed(p)
        <5> HIDE DEF p, q
        <5> QED BY <4>1, <4>2 DEF Typed, MovesTo, Becomes, Stages, Early
      <4> QED BY <4>3
    <3> QED BY <3>1, <3>2
  <2>3. CASE Drain
    <3>1. DOMAIN requests' = Slots
      BY <2>3, RequestsMarked
    <3>2. ASSUME NEW s \in Slots
          PROVE  Typed(requests'[s])
      <4> DEFINE q == requests[s]
                 p == requests'[s]
      <4>1. Typed(q)
        BY DEF TypeInv
      <4>2. /\ DOMAIN p = DOMAIN Free /\ p.at = q.at /\ p.attempt = q.attempt
            /\ p.expired = q.expired /\ p.closedOn = (q.closedOn \/ Busy(s))
        BY <2>3, RequestsMarked
      <4>3. p.closedOn \in BOOLEAN
        BY <4>2
      <4>4. Typed(p)
        <5> HIDE DEF p, q
        <5> QED BY <4>1, <4>2, <4>3 DEF Typed
      <4> QED BY <4>4
    <3> QED BY <3>1, <3>2
  <2> QED BY <2>1, <2>2, <2>3 DEF Stop, Exit, Crash, Start
<1> QED BY <1>1, <1>2, <1>3, <1>4, <1>5 DEF TypeInv

LEMMA StepTyped ==
    ASSUME TypeInv, [Next]_vars
    PROVE  TypeInv'
<1>1. ASSUME NEW s \in Slots, ServeHTTP(s) \/ Handle(s)
      PROVE  TypeInv'
  BY <1>1, SlotStepTyped
<1>2. CASE Send
  <2>1. PICK key \in Keys : Sent(key) \/ NotSent(key)
    BY <1>2 DEF Send, TypeInv
  <2> QED BY <2>1, SentTyped, NotSentTyped
<1>3. CASE Stop \/ Drain \/ Exit \/ Crash \/ Start
  BY <1>3, LifeTyped
<1>4. CASE (\E r \in Receivers : Consume(r)) \/ UNCHANGED vars
  <2>1. UNCHANGED <<scenario, server, requests, outgoing, topic, faults>>
    BY <1>4 DEF Consume, vars
  <2> QED BY <2>1, KeysStay DEF TypeInv
<1>5. CASE CancelConsumers
  <2>1. UNCHANGED <<scenario, server, requests, outgoing, topic>> /\ faults' \in Nat
    BY <1>5 DEF CancelConsumers, Blame, TypeInv
  <2> QED BY <2>1, KeysStay DEF TypeInv
<1> QED BY <1>1, <1>2, <1>3, <1>4, <1>5 DEF Next

LEMMA InitTyped == Init => TypeInv
<1> SUFFICES ASSUME Init PROVE TypeInv
  OBVIOUS
<1>1. \A s \in Slots : requests[s] = Free
  BY DEF Init
<1>2. Typed(Free)
  BY ReceiverAssumption DEF Typed, Free, Stages, Early
<1>3. \A key \in Keys : outgoing[key] = <<>>
  BY DEF Init
<1>4. <<>> \in Seq(Message) /\ <<>> \in Seq(Slots)
  BY EmptySeq
<1> QED BY <1>1, <1>2, <1>3, <1>4 DEF Init, TypeInv

-----------------------------------------------------------------------------
(* What a request is about never changes once it arrived. It is work, whose   *)
(* event may reach the queue, or it was answered by the decision alone.       *)
Works(D, q) == \E r \in D : q.r = <<r>> /\ q.event = Decide(r).event /\ Decide(r).at = "publish"

Working(q) ==
    /\ q.at # "free"
    /\ q.status \in {0, 202, 503}
    /\ q.at \in Early => q.status = 0 /\ q.reacted = ""
    /\ q.at \in {"react", "wake"} => q.status = 202 /\ q.reaction = "seen"
    /\ q.reacted \in {"", "seen"} /\ (q.reacted = "seen" => q.status = 202)

IdlesOn(r, q) ==
    /\ q.r = <<r>> /\ q.event = Decide(r).event /\ Decide(r).at # "publish"
    /\ q.status = Decide(r).status /\ q.reaction = Decide(r).reaction
    /\ q.reacted \in {"", q.reaction}
    /\ q.at \in {"react", "done", "cut"}

Story(D, q) ==
    \/ q.at = "free" /\ q.status = 0 /\ q.reacted = "" /\ q.r = Nil /\ q.event = Nil
    \/ Works(D, q) /\ Working(q)
    \/ \E r \in D : IdlesOn(r, q)

InTopic(q) == q.at = "published" \/ q.status = 202

StoryInv ==
    /\ \A s \in Slots : /\ Story(Deliveries(s), requests[s])
                        /\ InTopic(requests[s]) => s \in Range(topic)
    /\ \A s \in Range(topic) : Works(Deliveries(s), requests[s])
    /\ \A key \in Keys : \A m \in Range(outgoing[key]) :
          Works(Deliveries(m.slot), requests[m.slot]) /\ KeyOf(m.slot) = key

(* The turns a request may take after it arrived.                             *)
Same(q, p) == p.status = q.status /\ p.reaction = q.reaction /\ p.reacted = q.reacted

Turns(q, p) ==
    /\ p.r = q.r /\ p.event = q.event
    /\ \/ q.at \in Early /\ p.at \in Early /\ Same(q, p)
       \/ p.at = q.at /\ Same(q, p)
       \/ q.at # "free" /\ p.at = "cut" /\ Same(q, p)
       \/ q.at = "wake" /\ p.at = "done" /\ Same(q, p)
       \/ /\ q.at \in Early /\ p.at = "done"
          /\ p.status = 503 /\ p.reaction = q.reaction /\ p.reacted = q.reacted
       \/ /\ q.at = "published" /\ p.at = "react"
          /\ p.status = 202 /\ p.reaction = "seen" /\ p.reacted = q.reacted
       \/ /\ q.at = "react" /\ p.at \in {"wake", "done"} /\ (p.at = "wake" <=> q.status = 202)
          /\ p.status = q.status /\ p.reaction = q.reaction
          /\ p.reacted \in {q.reacted, "", q.reaction}

LEMMA DecisionOfWork ==
    ASSUME NEW r, Decide(r).at = "publish"
    PROVE  WasRead(r) /\ Decision(r).publish /\ Decide(r).event = <<Decision(r).event>>
<1> DEFINE d == Decide(r)
<1>1. Shaped(r, d) /\ d.at = "publish"
  BY DecisionShaped
<1> HIDE DEF d
<1>2. WasRead(r) /\ Decision(r).publish /\ d.event = <<Decision(r).event>>
  BY <1>1 DEF Shaped
<1> QED BY <1>2 DEF d

LEMMA StatusOfDecision ==
    ASSUME NEW r
    PROVE  Decide(r).status \in {0, 204, 400, 401, 405, 413, 500}
<1> DEFINE d == Decide(r)
<1>1. Shaped(r, d)
  BY DecisionShaped
<1> HIDE DEF d
<1>2. d.status \in {0, 204, 400, 401, 405, 413, 500}
  BY <1>1 DEF Shaped
<1> QED BY <1>2 DEF d

LEMMA ReactionOfDecision ==
    ASSUME NEW r
    PROVE  /\ Decide(r).reaction \in {"", "refused"}
           /\ Decide(r).reaction = "refused" => WasRead(r) /\ Refused(Decision(r))
<1> DEFINE d == Decide(r)
<1>1. Shaped(r, d)
  BY DecisionShaped
<1> HIDE DEF d
<1>2. d.reaction \in {"", "refused"} /\ (d.reaction = "refused" => WasRead(r) /\ Refused(Decision(r)))
  BY <1>1 DEF Shaped
<1> QED BY <1>2 DEF d

LEMMA WorkIsNotIdle ==
    ASSUME NEW D, NEW q, Works(D, q)
    PROVE  q.r # Nil /\ \A r \in D : ~IdlesOn(r, q)
<1>1. PICK r \in D : q.r = <<r>> /\ Decide(r).at = "publish"
  BY DEF Works
<1>2. q.r # Nil
  BY <1>1 DEF Nil
<1>3. ASSUME NEW t \in D, IdlesOn(t, q)
      PROVE  FALSE
  <2>1. <<t>> = <<r>> /\ Decide(t).at # "publish"
    BY <1>1, <1>3 DEF IdlesOn
  <2>2. t = r
    BY <2>1
  <2> QED BY <1>1, <2>1, <2>2
<1> QED BY <1>2, <1>3

LEMMA StoryGoesOn ==
    ASSUME NEW D, NEW q, NEW p, Story(D, q), Turns(q, p)
    PROVE  Story(D, p)
<1>1. CASE q.at = "free"
  <2>1. Same(q, p) /\ p.at = "free" /\ p.r = q.r /\ p.event = q.event
    BY <1>1 DEF Turns, Early
  <2>2. q.status = 0 /\ q.reacted = "" /\ q.r = Nil /\ q.event = Nil
    BY <1>1 DEF Story, Working, IdlesOn
  <2> QED BY <2>1, <2>2 DEF Story, Same
<1>2. CASE Works(D, q) /\ Working(q)
  <2>1. Works(D, p)
    BY <1>2 DEF Works, Turns
  <2>a. q.status \in {0, 202, 503}
    BY <1>2 DEF Working
  <2>b. q.reacted \in {"", "seen"}
    BY <1>2 DEF Working
  <2>2. Working(p)
    <3>1. CASE q.at \in Early /\ p.at \in Early /\ Same(q, p)
      <4>0. p.at # "free"
        BY <1>2, <3>1 DEF Working, Early, Same
      <4>1. p.status \in {0, 202, 503}
        BY <2>a, <3>1 DEF Same
      <4>2. p.at \in Early => p.status = 0 /\ p.reacted = ""
        BY <1>2, <3>1 DEF Working, Early, Same
      <4>3. p.at \in {"react", "wake"} => p.status = 202 /\ p.reaction = "seen"
        BY <1>2, <3>1 DEF Working, Early, Same
      <4>4. p.reacted \in {"", "seen"}
        BY <2>b, <3>1 DEF Same
      <4>5. p.reacted = "seen" => p.status = 202
        BY <1>2, <3>1 DEF Working, Early, Same
      <4> QED BY <4>0, <4>1, <4>2, <4>3, <4>4, <4>5 DEF Working
    <3>2. CASE p.at = q.at /\ Same(q, p)
      <4>0. p.at # "free"
        BY <1>2, <3>2 DEF Working, Early, Same
      <4>1. p.status \in {0, 202, 503}
        BY <2>a, <3>2 DEF Same
      <4>2. p.at \in Early => p.status = 0 /\ p.reacted = ""
        BY <1>2, <3>2 DEF Working, Early, Same
      <4>3. p.at \in {"react", "wake"} => p.status = 202 /\ p.reaction = "seen"
        BY <1>2, <3>2 DEF Working, Early, Same
      <4>4. p.reacted \in {"", "seen"}
        BY <2>b, <3>2 DEF Same
      <4>5. p.reacted = "seen" => p.status = 202
        BY <1>2, <3>2 DEF Working, Early, Same
      <4> QED BY <4>0, <4>1, <4>2, <4>3, <4>4, <4>5 DEF Working
    <3>3. CASE p.at \in {"cut", "done"} /\ Same(q, p)
      <4>0. p.at # "free"
        BY <1>2, <3>3 DEF Working, Early, Same
      <4>1. p.status \in {0, 202, 503}
        BY <2>a, <3>3 DEF Same
      <4>2. p.at \in Early => p.status = 0 /\ p.reacted = ""
        BY <1>2, <3>3 DEF Working, Early, Same
      <4>3. p.at \in {"react", "wake"} => p.status = 202 /\ p.reaction = "seen"
        BY <1>2, <3>3 DEF Working, Early, Same
      <4>4. p.reacted \in {"", "seen"}
        BY <2>b, <3>3 DEF Same
      <4>5. p.reacted = "seen" => p.status = 202
        BY <1>2, <3>3 DEF Working, Early, Same
      <4> QED BY <4>0, <4>1, <4>2, <4>3, <4>4, <4>5 DEF Working
    <3>4. CASE /\ q.at \in Early /\ p.at = "done"
               /\ p.status = 503 /\ p.reaction = q.reaction /\ p.reacted = q.reacted
      <4>0. p.at # "free"
        BY <1>2, <3>4 DEF Working, Early
      <4>1. p.status \in {0, 202, 503}
        BY <3>4
      <4>2. p.at \in Early => p.status = 0 /\ p.reacted = ""
        BY <1>2, <3>4 DEF Working, Early
      <4>3. p.at \in {"react", "wake"} => p.status = 202 /\ p.reaction = "seen"
        BY <1>2, <3>4 DEF Working, Early
      <4>4. p.reacted \in {"", "seen"}
        BY <2>b, <3>4
      <4>5. p.reacted = "seen" => p.status = 202
        BY <1>2, <3>4 DEF Working, Early
      <4> QED BY <4>0, <4>1, <4>2, <4>3, <4>4, <4>5 DEF Working
    <3>5. CASE /\ q.at = "published" /\ p.at = "react"
               /\ p.status = 202 /\ p.reaction = "seen" /\ p.reacted = q.reacted
      <4>0. p.at # "free"
        BY <1>2, <3>5 DEF Working, Early
      <4>1. p.status \in {0, 202, 503}
        BY <3>5
      <4>2. p.at \in Early => p.status = 0 /\ p.reacted = ""
        BY <1>2, <3>5 DEF Working, Early
      <4>3. p.at \in {"react", "wake"} => p.status = 202 /\ p.reaction = "seen"
        BY <1>2, <3>5 DEF Working, Early
      <4>4. p.reacted \in {"", "seen"}
        BY <2>b, <3>5
      <4>5. p.reacted = "seen" => p.status = 202
        BY <1>2, <3>5 DEF Working, Early
      <4> QED BY <4>0, <4>1, <4>2, <4>3, <4>4, <4>5 DEF Working
    <3>6. CASE /\ q.at = "react" /\ p.at \in {"wake", "done"}
               /\ p.status = q.status /\ p.reaction = q.reaction
               /\ p.reacted \in {q.reacted, "", q.reaction}
      <4>0. p.at # "free"
        BY <1>2, <3>6 DEF Working, Early
      <4>1. p.status \in {0, 202, 503}
        BY <2>a, <3>6
      <4>2. p.at \in Early => p.status = 0 /\ p.reacted = ""
        BY <1>2, <3>6 DEF Working, Early
      <4>3. p.at \in {"react", "wake"} => p.status = 202 /\ p.reaction = "seen"
        BY <1>2, <3>6 DEF Working, Early
      <4>4. p.reacted \in {"", "seen"}
        BY <1>2, <3>6 DEF Working, Early
      <4>5. p.reacted = "seen" => p.status = 202
        BY <1>2, <3>6 DEF Working, Early
      <4> QED BY <4>0, <4>1, <4>2, <4>3, <4>4, <4>5 DEF Working
    <3> QED BY <3>1, <3>2, <3>3, <3>4, <3>5, <3>6 DEF Turns
  <2> QED BY <2>1, <2>2 DEF Story
<1>3. ASSUME NEW r \in D, IdlesOn(r, q)
      PROVE  Story(D, p)
  <2>1. Decide(r).status # 202
    <3>1. Decide(r).status \in {0, 204, 400, 401, 405, 413, 500}
      BY StatusOfDecision
    <3> QED BY <3>1
  <2>2. q.status # 202 /\ q.at \in {"react", "done", "cut"}
    BY <1>3, <2>1 DEF IdlesOn
  <2>3. p.status = q.status /\ p.reaction = q.reaction /\ p.reacted \in {q.reacted, "", q.reaction}
    BY <2>2 DEF Turns, Same, Early
  <2>4. p.at \in {"react", "done", "cut"}
    BY <2>2 DEF Turns, Same, Early
  <2>5. p.r = q.r /\ p.event = q.event
    BY DEF Turns
  <2>6. IdlesOn(r, p)
    BY <1>3, <2>3, <2>4, <2>5 DEF IdlesOn
  <2> QED BY <2>6 DEF Story
<1> QED BY <1>1, <1>2, <1>3 DEF Story

LEMMA InTopicStays ==
    ASSUME NEW q, NEW p, Turns(q, p), InTopic(p), p.at = "published" => q.at = "published"
    PROVE  InTopic(q)
<1>1. CASE p.at = "published"
  BY <1>1 DEF InTopic
<1>2. CASE p.status = 202
  <2>1. p.status = q.status \/ p.status = 503 \/ q.at = "published"
    BY DEF Turns, Same
  <2>2. p.status # 503
    BY <1>2
  <2> QED BY <1>2, <2>1, <2>2 DEF InTopic
<1> QED BY <1>1, <1>2 DEF InTopic

LEMMA StoryKept ==
    ASSUME TypeInv, StoryInv, UNCHANGED scenario, DOMAIN requests' = Slots,
           \A s \in Slots : /\ Turns(requests[s], requests'[s])
                            /\ InTopic(requests'[s]) => s \in Range(topic'),
           \A s \in Range(topic') :
              s \in Range(topic) \/ (s \in Slots /\ Works(Deliveries(s), requests[s])),
           \A key \in Keys : \A m \in Range(outgoing'[key]) :
              \/ m \in Range(outgoing[key])
              \/ m.slot \in Slots /\ Works(Deliveries(m.slot), requests[m.slot]) /\ KeyOf(m.slot) = key
    PROVE  StoryInv'
<1>0. Keys' = Keys /\ \A s \in Slots : Deliveries(s)' = Deliveries(s)
  BY KeysStay DEF Deliveries
<1>1. ASSUME NEW s \in Slots
      PROVE  /\ Story(Deliveries(s), requests'[s])
             /\ Works(Deliveries(s), requests[s]) => Works(Deliveries(s), requests'[s])
             /\ KeyOf(s)' = KeyOf(s)
  <2>1. Turns(requests[s], requests'[s]) /\ Story(Deliveries(s), requests[s])
    BY DEF StoryInv
  <2>2. Story(Deliveries(s), requests'[s])
    BY <2>1, StoryGoesOn
  <2>3. requests'[s].r = requests[s].r /\ requests'[s].event = requests[s].event
    BY <2>1 DEF Turns
  <2> QED BY <2>2, <2>3 DEF Works, KeyOf
<1>2. Range(topic) \subseteq Slots
  BY RangeOfSeq DEF TypeInv
<1>3. ASSUME NEW key \in Keys, NEW m \in Range(outgoing[key])
      PROVE  m.slot \in Slots
  <2>1. m \in Message
    BY RangeOfSeq DEF TypeInv
  <2> QED BY <2>1 DEF Message
<1>4. \A s \in Slots : /\ Story(Deliveries(s), requests[s])'
                       /\ InTopic(requests[s])' => s \in Range(topic')
  BY <1>0, <1>1
<1>5. \A s \in Range(topic') : Works(Deliveries(s), requests[s])'
  <2> TAKE s \in Range(topic')
  <2>1. s \in Slots /\ Works(Deliveries(s), requests[s])
    BY <1>2 DEF StoryInv
  <2> QED BY <1>0, <1>1, <2>1
<1>6. ASSUME NEW key \in Keys, NEW m \in Range(outgoing'[key])
      PROVE  Works(Deliveries(m.slot), requests[m.slot])' /\ KeyOf(m.slot)' = key
  <2>1. m.slot \in Slots /\ Works(Deliveries(m.slot), requests[m.slot]) /\ KeyOf(m.slot) = key
    BY <1>3 DEF StoryInv
  <2> QED BY <1>0, <1>1, <2>1
<1> QED BY <1>0, <1>4, <1>5, <1>6 DEF StoryInv

(* Every step of a handler is such a turn, and the others stand still.        *)
LEMMA HandleTurns ==
    ASSUME TypeInv, StoryInv, NEW s \in Slots, Handle(s)
    PROVE  /\ Only(s) /\ Turns(requests[s], requests'[s])
           /\ requests'[s].at = "published" => PublishMemory(s)
<1> DEFINE q == requests[s]
           p == requests'[s]
<1>1. ASSUME NEW at, requests' = Moved(s, at),
             \/ q.at \in Early /\ at \in Early
             \/ q.at = "wake" /\ at = "done"
             \/ q.at = "react" /\ at \in {"wake", "done"} /\ (at = "wake" <=> q.status = 202)
      PROVE  Only(s) /\ Turns(q, p) /\ p.at = at
  <2>1. Only(s) /\ MovesTo(p, q, at)
    BY <1>1, RequestMoved
  <2> HIDE DEF p, q
  <2>2. p.at = at /\ p.r = q.r /\ p.event = q.event /\ Same(q, p)
    BY <2>1 DEF MovesTo, Becomes, Same
  <2> QED BY <1>1, <2>1, <2>2 DEF Turns, Same
<1>2. CASE PublishPubSub(s) \/ PublishMemory(s)
  BY <1>1, <1>2 DEF PublishPubSub, PublishMemory, Early
<1>3. CASE DeadlineInFlight(s)
  <2>1. Only(s) /\ Becomes(p, q, "failed", q.attempt, TRUE, q.status, q.reaction, q.reacted)
    BY <1>3, RequestExpired DEF DeadlineInFlight
  <2>2. q.at = "flight"
    BY <1>3 DEF DeadlineInFlight
  <2> HIDE DEF p, q
  <2>3. p.at = "failed" /\ p.r = q.r /\ p.event = q.event /\ Same(q, p)
    BY <2>1 DEF Becomes, Same
  <2>4. Turns(q, p)
    BY <2>2, <2>3 DEF Turns, Early
  <2> QED BY <2>1, <2>3, <2>4 DEF p, q
<1>4. CASE ResumePublish(s) \/ DeadlineInBackoff(s)
  <2>0. q.at \in {"failed", "backoff"} /\ (ResumePublish(s) => q.at = "failed")
    BY <1>4 DEF ResumePublish, DeadlineInBackoff
  <2>1. CASE requests' = GaveUp(s) \/ requests' = [GaveUp(s) EXCEPT ![s].expired = TRUE]
    <3>0. \/ Only(s) /\ Becomes(p, q, "done", q.attempt, q.expired, 503, q.reaction, q.reacted)
          \/ Only(s) /\ Becomes(p, q, "done", q.attempt, TRUE, 503, q.reaction, q.reacted)
      BY <2>1, RequestGivenUp, RequestGivenUpLate
    <3>1. Only(s) /\ \E x : Becomes(p, q, "done", q.attempt, x, 503, q.reaction, q.reacted)
      BY <3>0
    <3> HIDE DEF p, q
    <3>2. /\ p.at = "done" /\ p.r = q.r /\ p.event = q.event
          /\ p.status = 503 /\ p.reaction = q.reaction /\ p.reacted = q.reacted
      BY <3>1 DEF Becomes
    <3>3. Turns(q, p)
      BY <2>0, <3>2 DEF Turns, Early
    <3> QED BY <3>1, <3>2, <3>3 DEF p, q
  <2>2. CASE requests' = Moved(s, "backoff")
    BY <1>1, <2>0, <2>2 DEF Early
  <2> QED BY <1>4, <2>1, <2>2 DEF ResumePublish, DeadlineInBackoff
<1>5. CASE Backoff(s)
  <2>1. /\ Only(s)
        /\ Becomes(p, q, "publish", q.attempt + 1, q.expired, q.status, q.reaction, q.reacted)
    BY <1>5, RequestRetried DEF Backoff
  <2>2. q.at = "backoff"
    BY <1>5 DEF Backoff
  <2> HIDE DEF p, q
  <2>3. p.at = "publish" /\ p.r = q.r /\ p.event = q.event /\ Same(q, p)
    BY <2>1 DEF Becomes, Same
  <2>4. Turns(q, p)
    BY <2>2, <2>3 DEF Turns, Early
  <2> QED BY <2>1, <2>3, <2>4 DEF p, q
<1>6. CASE AnswerAccepted(s)
  <2>1. Only(s) /\ Becomes(p, q, "react", q.attempt, q.expired, 202, "seen", q.reacted)
    BY <1>6, RequestAccepted DEF AnswerAccepted
  <2>2. q.at = "published"
    BY <1>6 DEF AnswerAccepted
  <2> HIDE DEF p, q
  <2>3. /\ p.at = "react" /\ p.r = q.r /\ p.event = q.event
        /\ p.status = 202 /\ p.reaction = "seen" /\ p.reacted = q.reacted
    BY <2>1 DEF Becomes
  <2>4. Turns(q, p)
    BY <2>2, <2>3 DEF Turns
  <2> QED BY <2>1, <2>3, <2>4 DEF p, q
<1>7. CASE React(s)
  <2>1. PICK at \in {"wake", "done"} :
             /\ q.at = "react" /\ (at = "wake" <=> q.status = 202)
             /\ \/ requests' = Moved(s, at)
                \/ \E x \in {"", q.reaction} :
                       requests' = [requests EXCEPT ![s].at = at, ![s].reacted = x]
    BY <1>7 DEF React
  <2>2. CASE requests' = Moved(s, at)
    BY <1>1, <2>1, <2>2
  <2>3. ASSUME NEW x \in {"", q.reaction}, requests' = [requests EXCEPT ![s].at = at, ![s].reacted = x]
        PROVE  Only(s) /\ Turns(q, p) /\ p.at = at
    <3>1. Only(s) /\ Becomes(p, q, at, q.attempt, q.expired, q.status, q.reaction, x)
      BY <2>3, RequestReacted
    <3> HIDE DEF p, q
    <3>2. /\ p.at = at /\ p.r = q.r /\ p.event = q.event
          /\ p.status = q.status /\ p.reaction = q.reaction /\ p.reacted = x
      BY <3>1 DEF Becomes
    <3>3. Turns(q, p)
      BY <2>1, <3>2 DEF Turns
    <3> QED BY <3>1, <3>2, <3>3
  <2> QED BY <2>1, <2>2, <2>3
<1>8. CASE Wake(s)
  BY <1>1, <1>8 DEF Wake
<1> QED BY <1>2, <1>3, <1>4, <1>5, <1>6, <1>7, <1>8 DEF Handle

(* A request that tries to publish is work, and its key is one of the keys.   *)
LEMMA TriesAreWork ==
    ASSUME StoryInv, NEW s \in Slots, requests[s].at \in Early
    PROVE  Works(Deliveries(s), requests[s])
BY DEF StoryInv, Story, IdlesOn, Early

LEMMA KeyOfWork ==
    ASSUME TypeInv, NEW s \in Slots, Works(Deliveries(s), requests[s])
    PROVE  KeyOf(s) \in Keys
<1>1. PICK r \in Deliveries(s) : requests[s].event = Decide(r).event /\ Decide(r).at = "publish"
  BY DEF Works
<1> DEFINE d == [Decide(r) EXCEPT !.r = <<r>>]
           what == Decision(r).event
<1>2. d \in Decisions[scenario][s]
  BY DEF Decisions, Deliveries, TypeInv
<1>3. d.event = <<what>> /\ requests[s].event = <<what>>
  <2>1. Decide(r).event = <<what>>
    BY <1>1, DecisionOfWork
  <2>2. d.event = Decide(r).event
    BY RequestArrived
  <2> QED BY <1>1, <2>1, <2>2
<1> HIDE DEF d, what
<1>4. d.event # Nil /\ KeyOf(s) = Key(d.event[1])
  BY <1>3 DEF Nil, KeyOf
<1> QED BY <1>2, <1>4 DEF Keys

LEMMA HandleKeepsStory ==
    ASSUME TypeInv, StoryInv, NEW s \in Slots, Handle(s)
    PROVE  StoryInv'
<1>1. Only(s) /\ Turns(requests[s], requests'[s])
  BY HandleTurns
<1>2. UNCHANGED scenario
  BY DEF Handle, PublishPubSub, PublishMemory, DeadlineInFlight, ResumePublish, Backoff,
         DeadlineInBackoff, AnswerAccepted, React, Wake
<1>3. topic' = topic \/ (PublishMemory(s) /\ topic' = Append(topic, s))
  BY DEF Handle, PublishPubSub, PublishMemory, DeadlineInFlight, ResumePublish, Backoff,
         DeadlineInBackoff, AnswerAccepted, React, Wake
<1>4. Range(topic') = Range(topic) \/ (PublishMemory(s) /\ Range(topic') = Range(topic) \union {s})
  <2>1. topic \in Seq(Slots)
    BY DEF TypeInv
  <2>2. Range(Append(topic, s)) = Range(topic) \union {s}
    BY <2>1, RangeOfAppended
  <2> QED BY <1>3, <2>2
<1>5. ASSUME NEW t \in Slots
      PROVE  Turns(requests[t], requests'[t]) /\ (InTopic(requests'[t]) => t \in Range(topic'))
  <2>1. CASE t # s
    <3>1. requests'[t] = requests[t]
      BY <1>1, <2>1 DEF Only
    <3>2. Turns(requests[t], requests'[t])
      BY <3>1 DEF Turns, Same
    <3>3. InTopic(requests'[t]) => t \in Range(topic)
      BY <3>1 DEF StoryInv
    <3> QED BY <1>4, <3>2, <3>3
  <2>2. CASE t = s
    <3>1. ASSUME InTopic(requests'[s])
          PROVE  s \in Range(topic')
      <4>1. CASE requests'[s].at = "published" /\ requests[s].at # "published"
        <5>1. PublishMemory(s) /\ ~closed
          BY <4>1, HandleTurns, RequestMoved DEF PublishMemory, MovesTo, Becomes
        <5>2. topic' = Append(topic, s)
          BY <5>1 DEF PublishMemory
        <5> QED BY <5>2, RangeOfAppended DEF TypeInv
      <4>2. CASE ~(requests'[s].at = "published" /\ requests[s].at # "published")
        <5>1. InTopic(requests[s])
          BY <1>1, <3>1, <4>2, InTopicStays
        <5> QED BY <1>4, <5>1 DEF StoryInv
      <4> QED BY <4>1, <4>2
    <3> QED BY <1>1, <2>2, <3>1
  <2> QED BY <2>1, <2>2
<1>6. ASSUME NEW t \in Range(topic')
      PROVE  t \in Range(topic) \/ (t \in Slots /\ Works(Deliveries(t), requests[t]))
  <2>1. CASE PublishMemory(s)
    <3>1. Works(Deliveries(s), requests[s])
      BY <2>1, TriesAreWork DEF PublishMemory, Early
    <3> QED BY <1>4, <1>6, <3>1
  <2>2. CASE ~PublishMemory(s)
    BY <1>4, <1>6, <2>2
  <2> QED BY <2>1, <2>2
<1>7. ASSUME NEW key \in Keys, NEW m \in Range(outgoing'[key])
      PROVE  \/ m \in Range(outgoing[key])
             \/ m.slot \in Slots /\ Works(Deliveries(m.slot), requests[m.slot]) /\ KeyOf(m.slot) = key
  <2>1. CASE UNCHANGED outgoing
    BY <1>7, <2>1
  <2>2. CASE /\ PublishPubSub(s)
             /\ outgoing' = [outgoing EXCEPT ![KeyOf(s)] =
                               Append(@, [slot |-> s, attempt |-> requests[s].attempt])]
    <3> DEFINE n == [slot |-> s, attempt |-> requests[s].attempt]
    <3>1. Works(Deliveries(s), requests[s])
      BY <2>2, TriesAreWork DEF PublishPubSub, Early
    <3>2. n \in Message
      <4>1. requests[s].attempt \in 1 .. MaxAttempts
        BY <2>2, ReceiverAssumption DEF PublishPubSub, TypeInv, Typed, Early
      <4> QED BY <4>1 DEF Message
    <3>3. n.slot = s
      OBVIOUS
    <3>4. outgoing[key] \in Seq(Message)
      BY DEF TypeInv
    <3>5. outgoing'[key] = IF key = KeyOf(s) THEN Append(outgoing[key], n) ELSE outgoing[key]
      BY <2>2 DEF TypeInv
    <3> HIDE DEF n
    <3>6. Range(Append(outgoing[key], n)) = Range(outgoing[key]) \union {n}
      BY <3>2, <3>4, RangeOfAppended
    <3>7. m \in Range(outgoing[key]) \/ (m = n /\ key = KeyOf(s))
      BY <1>7, <3>5, <3>6
    <3> QED BY <3>1, <3>3, <3>7
  <2> QED BY <2>1, <2>2 DEF Handle, PublishPubSub, PublishMemory, DeadlineInFlight, ResumePublish, Backoff,
             DeadlineInBackoff, AnswerAccepted, React, Wake
<1>8. DOMAIN requests' = Slots
  BY <1>1 DEF Only
<1> QED BY <1>2, <1>5, <1>6, <1>7, <1>8, StoryKept

(* A request that arrives takes the place of one that was never about         *)
(* anything.                                                                  *)
LEMMA ArrivalKeepsStory ==
    ASSUME TypeInv, StoryInv, NEW s \in Slots, ServeHTTP(s)
    PROVE  StoryInv'
<1> DEFINE q == requests[s]
           p == requests'[s]
<1>0. /\ UNCHANGED <<scenario, topic, outgoing>> /\ Keys' = Keys
      /\ \A t \in Slots : Deliveries(t)' = Deliveries(t)
  BY KeysStay DEF ServeHTTP, Deliveries
<1>1. Only(s) /\ \E r \in Deliveries(s) : p = [Decide(r) EXCEPT !.r = <<r>>]
  BY DEF ServeHTTP, TypeInv, Only, Decisions, Deliveries
<1>2. PICK r \in Deliveries(s) : p = [Decide(r) EXCEPT !.r = <<r>>]
  BY <1>1
<1> DEFINE d == Decide(r)
<1>3. /\ p.r = <<r>> /\ p.event = d.event /\ p.at = d.at /\ p.status = d.status
      /\ p.reaction = d.reaction /\ p.reacted = d.reacted
  BY <1>2, RequestArrived
<1>4. Shaped(r, d)
  BY DecisionShaped
<1>5. Story(Deliveries(s), p) /\ ~InTopic(p)
  <2> HIDE DEF p, d
  <2>a. d.at \in {"publish", "react", "done"}
    BY <1>4 DEF Shaped
  <2>0. d.at \in {"publish", "react", "done"} /\ d.reacted = ""
    BY <1>4, <2>a DEF Shaped
  <2>1. p.at \in {"publish", "react", "done"} /\ p.reacted = ""
    BY <1>3, <2>0
  <2>2. p.status \in {0, 204, 400, 401, 405, 413, 500}
    <3>1. d.status \in {0, 204, 400, 401, 405, 413, 500}
      <4>1. Decide(r).status \in {0, 204, 400, 401, 405, 413, 500}
        BY StatusOfDecision
      <4> QED BY <4>1 DEF d
    <3> QED BY <1>3, <3>1
  <2>3. p.status # 202
    BY <2>2
  <2>4. CASE d.at = "publish"
    <3>1. p.status = 0
      BY <1>3, <1>4, <2>4 DEF Shaped
    <3>2. Works(Deliveries(s), p)
      BY <1>3, <2>4 DEF Works, d
    <3>3. p.status \in {0, 202, 503} /\ (p.at \in Early => p.status = 0 /\ p.reacted = "")
      BY <2>1, <3>1
    <3>4. p.at = "publish"
      BY <1>3, <2>4
    <3>5. Working(p)
      BY <2>1, <3>3, <3>4 DEF Working
    <3> QED BY <2>3, <3>2, <3>4, <3>5 DEF Story, InTopic
  <2>5. CASE d.at # "publish"
    <3>1. IdlesOn(r, p)
      BY <1>3, <2>1, <2>5 DEF IdlesOn, d
    <3> QED BY <2>1, <2>3, <3>1 DEF Story, InTopic
  <2> QED BY <2>4, <2>5
<1>6. ~Works(Deliveries(s), q)
  <2>1. q.at = "free"
    BY DEF ServeHTTP
  <2>2. q.r = Nil
    BY <2>1 DEF StoryInv, Story, Working, IdlesOn
  <2> QED BY <2>2, WorkIsNotIdle
<1> HIDE DEF p, q
<1>7. ASSUME NEW t \in Slots
      PROVE  Story(Deliveries(t), requests'[t]) /\ (InTopic(requests'[t]) => t \in Range(topic))
  <2>1. CASE t = s
    BY <1>5, <2>1 DEF p
  <2>2. CASE t # s
    <3>1. requests'[t] = requests[t]
      BY <1>1, <2>2 DEF Only
    <3> QED BY <3>1 DEF StoryInv
  <2> QED BY <2>1, <2>2
<1>8. ASSUME NEW t \in Slots, Works(Deliveries(t), requests[t])
      PROVE  requests'[t] = requests[t] /\ KeyOf(t)' = KeyOf(t)
  <2>1. t # s
    BY <1>6, <1>8 DEF q
  <2> QED BY <1>1, <2>1 DEF Only, KeyOf
<1>9. \A t \in Range(topic) : t \in Slots
  BY RangeOfSeq DEF TypeInv
<1>10. ASSUME NEW key \in Keys, NEW m \in Range(outgoing[key])
       PROVE  m.slot \in Slots
  <2>1. m \in Message
    BY RangeOfSeq DEF TypeInv
  <2> QED BY <2>1 DEF Message
<1>11. \A t \in Range(topic) : Works(Deliveries(t), requests'[t])
  BY <1>8, <1>9 DEF StoryInv
<1>12. ASSUME NEW key \in Keys, NEW m \in Range(outgoing[key])
       PROVE  Works(Deliveries(m.slot), requests'[m.slot]) /\ KeyOf(m.slot)' = key
  BY <1>8, <1>10 DEF StoryInv
<1>13. \A t \in Slots : /\ Story(Deliveries(t), requests[t])'
                        /\ InTopic(requests[t])' => t \in Range(topic')
  BY <1>0, <1>7
<1>14. \A t \in Range(topic') : Works(Deliveries(t), requests[t])'
  BY <1>0, <1>9, <1>11
<1>15. ASSUME NEW key \in Keys, NEW m \in Range(outgoing'[key])
       PROVE  Works(Deliveries(m.slot), requests[m.slot])' /\ KeyOf(m.slot)' = key
  BY <1>0, <1>10, <1>12
<1> QED BY <1>0, <1>13, <1>14, <1>15 DEF StoryInv

(* What the client sent was put there by work, and so was what it drops.      *)
LEMMA SenderKeepsStory ==
    ASSUME TypeInv, StoryInv, NEW key \in Keys, Sent(key) \/ NotSent(key)
    PROVE  StoryInv'
<1> DEFINE h == Head(outgoing[key])
<1>1. outgoing[key] \in Seq(Message) /\ outgoing[key] # <<>> /\ UNCHANGED scenario
  BY DEF TypeInv, Sent, NotSent
<1>2. h \in Message /\ Range(outgoing[key]) = {h} \union Range(Tail(outgoing[key]))
  BY <1>1, RangeOfRest
<1>3. h.slot \in Slots /\ Works(Deliveries(h.slot), requests[h.slot])
  BY <1>2 DEF Message, StoryInv
<1>4. Range(topic) \subseteq Range(topic') /\ Range(topic') \subseteq Range(topic) \union {h.slot}
  <2>1. topic' = topic \/ topic' = Append(topic, h.slot)
    BY DEF Sent, NotSent
  <2>2. topic \in Seq(Slots)
    BY DEF TypeInv
  <2> HIDE DEF h
  <2>3. Range(Append(topic, h.slot)) = Range(topic) \union {h.slot}
    BY <1>3, <2>2, RangeOfAppended
  <2> QED BY <2>1, <2>3
<1>5. ASSUME NEW s \in Range(topic')
      PROVE  s \in Range(topic) \/ (s \in Slots /\ Works(Deliveries(s), requests[s]))
  BY <1>3, <1>4
<1>6. ASSUME NEW k \in Keys, NEW m \in Range(outgoing'[k])
      PROVE  m \in Range(outgoing[k])
  <2>1. CASE Sent(key)
    <3>1. outgoing'[k] = IF k = key THEN Tail(outgoing[k]) ELSE outgoing[k]
      BY <2>1 DEF Sent, TypeInv
    <3> QED BY <1>2, <1>6, <3>1
  <2>2. CASE NotSent(key)
    <3>1. outgoing'[k] = IF k = key THEN <<>> ELSE outgoing[k]
      BY <2>2 DEF NotSent, TypeInv
    <3> QED BY <1>6, <3>1, RangeOfNone
  <2> QED BY <2>1, <2>2
<1>7. ASSUME NEW s \in Slots, requests'[s] = requests[s]
      PROVE  Turns(requests[s], requests'[s]) /\ (InTopic(requests'[s]) => s \in Range(topic'))
  <2>1. Turns(requests[s], requests'[s])
    BY <1>7 DEF Turns, Same
  <2> QED BY <1>4, <1>7, <2>1 DEF StoryInv
<1>8. /\ DOMAIN requests' = Slots
      /\ \A s \in Slots : Turns(requests[s], requests'[s]) /\ (InTopic(requests'[s]) => s \in Range(topic'))
  <2>1. CASE Sent(key)
    <3>1. CASE requests' = requests
      BY <1>7, <3>1 DEF TypeInv
    <3>2. CASE Waits(h) /\ requests' = Moved(h.slot, "published")
      <4> DEFINE s == h.slot
                 q == requests[s]
                 p == requests'[s]
      <4>1. Only(s) /\ MovesTo(p, q, "published") /\ q.at = "flight"
        BY <1>3, <3>2, RequestMoved DEF Waits
      <4>2. Turns(q, p)
        <5> HIDE DEF p, q
        <5> QED BY <4>1 DEF MovesTo, Becomes, Turns, Same, Early
      <4>3. s \in Range(topic')
        <5>1. topic' = Append(topic, s) /\ topic \in Seq(Slots) /\ s \in Slots
          BY <1>3, <2>1 DEF Sent, TypeInv
        <5> HIDE DEF s
        <5>2. Range(Append(topic, s)) = Range(topic) \union {s}
          BY <5>1, RangeOfAppended
        <5> QED BY <5>1, <5>2
      <4> QED BY <1>7, <4>1, <4>2, <4>3 DEF Only
    <3> QED BY <2>1, <3>1, <3>2 DEF Sent
  <2>2. CASE NotSent(key)
    <3>1. DOMAIN requests' = Slots
      BY <2>2, ToldOnes
    <3>2. ASSUME NEW s \in Slots
          PROVE  Turns(requests[s], requests'[s]) /\ (InTopic(requests'[s]) => s \in Range(topic'))
      <4> DEFINE q == requests[s]
                 p == requests'[s]
      <4>1. p = q \/ (q.at = "flight" /\ MovesTo(p, q, "failed"))
        BY <2>2, ToldOnes
      <4>2. CASE q.at = "flight" /\ MovesTo(p, q, "failed")
        <5>1. Turns(q, p) /\ p.at = "failed"
          <6> HIDE DEF p, q
          <6> QED BY <4>2 DEF MovesTo, Becomes, Turns, Same, Early
        <5>2. InTopic(p) => InTopic(q)
          BY <5>1, InTopicStays
        <5> QED BY <1>4, <5>1, <5>2 DEF StoryInv
      <4> QED BY <1>7, <4>1, <4>2
    <3> QED BY <3>1, <3>2
  <2> QED BY <2>1, <2>2
<1> QED BY <1>1, <1>5, <1>6, <1>8, StoryKept

LEMMA LifeKeepsStory ==
    ASSUME TypeInv, StoryInv, Stop \/ Drain \/ Exit \/ Crash \/ Start
    PROVE  StoryInv'
<1>1. UNCHANGED <<scenario, topic>>
  BY DEF Stop, Drain, Exit, Crash, Start
<1>2. /\ DOMAIN requests' = Slots
      /\ \A s \in Slots : Turns(requests[s], requests'[s])
  <2>1. CASE UNCHANGED requests
    BY <2>1 DEF TypeInv, Turns, Same
  <2>2. CASE requests' = CutOff
    <3>1. DOMAIN requests' = Slots
      BY <2>2, RequestsCutOff
    <3>2. ASSUME NEW s \in Slots
          PROVE  Turns(requests[s], requests'[s])
      <4> DEFINE q == requests[s]
                 p == requests'[s]
      <4>1. p = q \/ (q.at # "free" /\ MovesTo(p, q, "cut"))
        BY <2>2, RequestsCutOff DEF Busy
      <4> HIDE DEF p, q
      <4>2. Turns(q, p)
        BY <4>1 DEF Turns, Same, MovesTo, Becomes
      <4> QED BY <4>2 DEF p, q
    <3> QED BY <3>1, <3>2
  <2>3. CASE Drain
    <3>1. DOMAIN requests' = Slots
      BY <2>3, RequestsMarked
    <3>2. ASSUME NEW s \in Slots
          PROVE  Turns(requests[s], requests'[s])
      BY <2>3, RequestsMarked DEF Turns, Same
    <3> QED BY <3>1, <3>2
  <2> QED BY <2>1, <2>2, <2>3 DEF Stop, Exit, Crash, Start
<1>3. ASSUME NEW s \in Slots
      PROVE  InTopic(requests'[s]) => InTopic(requests[s])
  <2>1. CASE UNCHANGED requests
    BY <2>1
  <2>2. CASE requests' = CutOff
    <3> DEFINE q == requests[s]
               p == requests'[s]
    <3>1. p = q \/ MovesTo(p, q, "cut")
      BY <2>2, RequestsCutOff
    <3> HIDE DEF p, q
    <3>2. InTopic(p) => InTopic(q)
      BY <3>1 DEF InTopic, MovesTo, Becomes
    <3> QED BY <3>2 DEF p, q
  <2>3. CASE Drain
    <3>1. requests'[s].at = requests[s].at /\ requests'[s].status = requests[s].status
      BY <2>3, RequestsMarked
    <3> QED BY <3>1 DEF InTopic
  <2> QED BY <2>1, <2>2, <2>3 DEF Stop, Exit, Crash, Start
<1>4. ASSUME NEW key \in Keys, NEW m \in Range(outgoing'[key])
      PROVE  m \in Range(outgoing[key])
  <2>1. CASE Crash
    BY <1>4, <2>1, RangeOfNone DEF Crash, TypeInv
  <2>2. CASE UNCHANGED outgoing
    BY <1>4, <2>2
  <2> QED BY <2>1, <2>2 DEF Stop, Drain, Exit, Start
<1>5. \A s \in Slots : Turns(requests[s], requests'[s]) /\ (InTopic(requests'[s]) => s \in Range(topic'))
  BY <1>1, <1>2, <1>3 DEF StoryInv
<1> QED BY <1>1, <1>2, <1>4, <1>5, StoryKept

LEMMA StepKeepsStory ==
    ASSUME TypeInv, StoryInv, [Next]_vars
    PROVE  StoryInv'
<1>1. ASSUME NEW s \in Slots, ServeHTTP(s) \/ Handle(s)
      PROVE  StoryInv'
  BY <1>1, ArrivalKeepsStory, HandleKeepsStory
<1>2. CASE Send
  <2>1. PICK key \in Keys : Sent(key) \/ NotSent(key)
    BY <1>2 DEF Send, TypeInv
  <2> QED BY <2>1, SenderKeepsStory
<1>3. CASE Stop \/ Drain \/ Exit \/ Crash \/ Start
  BY <1>3, LifeKeepsStory
<1>4. CASE (\E r \in Receivers : Consume(r)) \/ CancelConsumers \/ UNCHANGED vars
  <2>1. UNCHANGED <<scenario, requests, outgoing, topic>>
    BY <1>4 DEF Consume, CancelConsumers, vars
  <2>2. Keys' = Keys
    BY <2>1, KeysStay
  <2> QED BY <2>1, <2>2 DEF StoryInv, Deliveries, KeyOf
<1> QED BY <1>1, <1>2, <1>3, <1>4 DEF Next

LEMMA FreeIsIdle ==
    /\ Free.at = "free" /\ Free.reacted = "" /\ Free.r = Nil /\ Free.status = 0
    /\ Free.event = Nil
    /\ ~Free.closedOn /\ ~Free.expired
BY DEF Free, Nil

LEMMA InitStory == Init => StoryInv
<1> SUFFICES ASSUME Init PROVE StoryInv
  OBVIOUS
<1>1. ASSUME NEW s \in Slots
      PROVE  Story(Deliveries(s), requests[s]) /\ ~InTopic(requests[s])
  <2>1. requests[s] = Free
    BY DEF Init
  <2> DEFINE q == requests[s]
  <2>2. q.at = "free" /\ q.reacted = "" /\ q.r = Nil /\ q.event = Nil
    BY <2>1, FreeIsIdle
  <2>3. q.status = 0
    BY <2>1, FreeIsIdle
  <2>4. q.status # 202
    BY <2>3
  <2> HIDE DEF q
  <2>5. Story(Deliveries(s), q) /\ ~InTopic(q)
    BY <2>2, <2>3, <2>4 DEF Story, InTopic
  <2> QED BY <2>5 DEF q
<1>2. Range(topic) = {} /\ \A key \in Keys : Range(outgoing[key]) = {}
  BY RangeOfNone DEF Init
<1> QED BY <1>1, <1>2 DEF StoryInv

-----------------------------------------------------------------------------
(* What is in the queue is work that somebody asked for.                      *)
LEMMA PublishedIs == Published = Range(topic)
BY DEF Published, Range

LEMMA PublishedIsWork ==
    ASSUME TypeInv, StoryInv, NEW s \in Published
    PROVE  /\ s \in Slots
           /\ \E r : /\ Payload(s) = r /\ Event(s) = Decision(r).event
                    /\ WasRead(r) /\ Decision(r).publish /\ Fits(r, EventRead(r))
                    /\ (HoldsCredential(r) => r.genuine)
<1>1. s \in Slots /\ Works(Deliveries(s), requests[s])
  BY PublishedIs, RangeOfSeq DEF TypeInv, StoryInv
<1>2. PICK r \in Deliveries(s) :
           requests[s].r = <<r>> /\ requests[s].event = Decide(r).event /\ Decide(r).at = "publish"
  BY <1>1 DEF Works
<1>3. WasRead(r) /\ Decision(r).publish /\ requests[s].event = <<Decision(r).event>>
  BY <1>2, DecisionOfWork
<1>4. Payload(s) = r /\ Event(s) = Decision(r).event
  BY <1>2, <1>3 DEF Payload, Event
<1>5. Fits(r, EventRead(r)) /\ (HoldsCredential(r) => r.genuine)
  BY <1>1, <1>2, <1>3, DescriptionAssumption DEF TypeInv, Deliveries, WasRead, EventRead
<1> QED BY <1>1, <1>3, <1>4, <1>5

LEMMA AskedFromStory ==
    ASSUME TypeInv, StoryInv
    PROVE  OnlyWhatWasAsked
<1> SUFFICES ASSUME NEW s \in Published
             PROVE  LET r == Payload(s)
                        e == Event(s)
                    IN  /\ r.genuine
                        /\ r.writer \notin Config.ourselves
                        /\ \E i \in DOMAIN Config.policy.allowedRepos :
                              Matches(Config.policy.allowedRepos[i], r.change[2])
                        /\ r.old <= Config.policy.maxEventAge
                        /\ e.kind \in CommentKinds =>
                              /\ <<r.platform, r.writer>> \in Config.mayAsk
                              /\ FencesReadAlike(e.comment[1].text) =>
                                    /\ r.asks # "nothing"
                                    /\ e.command = (IF r.asks = "question" THEN Nil ELSE <<r.asks>>)
  BY DEF OnlyWhatWasAsked
<1>1. PICK r : /\ Payload(s) = r /\ Event(s) = Decision(r).event
               /\ WasRead(r) /\ Decision(r).publish /\ Fits(r, EventRead(r))
               /\ (HoldsCredential(r) => r.genuine)
  BY PublishedIsWork
<1> QED BY <1>1, WhatIsTrueOfWork

LEMMA KeysFromStory ==
    ASSUME TypeInv, StoryInv
    PROVE  OneKeyPerChange
<1> SUFFICES ASSUME NEW s \in Published, NEW t \in Published
             PROVE  KeyOf(s) = KeyOf(t) <=> Payload(s).change = Payload(t).change
  BY DEF OneKeyPerChange
<1>1. PICK r : /\ Payload(s) = r /\ Event(s) = Decision(r).event
               /\ WasRead(r) /\ Decision(r).publish /\ Fits(r, EventRead(r))
  BY PublishedIsWork
<1>2. PICK u : /\ Payload(t) = u /\ Event(t) = Decision(u).event
               /\ WasRead(u) /\ Decision(u).publish /\ Fits(u, EventRead(u))
  BY PublishedIsWork
<1>3. Key(Decision(r).event) = Key(Decision(u).event) <=> r.change = u.change
  BY <1>1, <1>2, OneKeyEach
<1> QED BY <1>1, <1>2, <1>3 DEF KeyOf, Event

LEMMA AnswersFromStory ==
    ASSUME TypeInv, StoryInv
    PROVE  AnswersTrue
<1> SUFFICES ASSUME NEW s \in Slots
             PROVE  /\ requests[s].status = 202 => s \in Published
                    /\ requests[s].status \notin {0, 202, 503} => s \notin Published
                    /\ requests[s].reacted = "seen" => requests[s].status = 202
                    /\ requests[s].reacted = "refused" =>
                          /\ s \notin Published
                          /\ <<Payload(s).platform, Payload(s).writer>> \notin Config.mayAsk
  BY DEF AnswersTrue
<1> DEFINE q == requests[s]
<1>0. /\ Story(Deliveries(s), q) /\ (InTopic(q) => s \in Published)
      /\ s \in Published => Works(Deliveries(s), q)
  BY PublishedIs DEF StoryInv
<1>1. q.status = 202 => s \in Published
  BY <1>0 DEF InTopic
<1>2. ASSUME s \in Published
      PROVE  q.status \in {0, 202, 503} /\ q.reacted \in {"", "seen"}
  <2>1. ~(q.r = Nil) /\ \A r \in Deliveries(s) : ~IdlesOn(r, q)
    BY <1>0, <1>2, WorkIsNotIdle
  <2>2. Working(q)
    BY <1>0, <2>1 DEF Story
  <2> QED BY <2>2 DEF Working
<1>3. ASSUME NEW r \in Deliveries(s), IdlesOn(r, q)
      PROVE  /\ q.reacted # "seen"
             /\ q.reacted = "refused" =>
                   <<Payload(s).platform, Payload(s).writer>> \notin Config.mayAsk
  <2>1. q.r = <<r>> /\ q.reacted \in {"", Decide(r).reaction}
    BY <1>3 DEF IdlesOn
  <2>2. q.reacted # "seen"
    BY <2>1, ReactionOfDecision
  <2>3. ASSUME q.reacted = "refused"
        PROVE  <<Payload(s).platform, Payload(s).writer>> \notin Config.mayAsk
    <3>1. WasRead(r) /\ Refused(Decision(r))
      BY <2>1, <2>3, ReactionOfDecision
    <3>2. Fits(r, EventRead(r))
      BY <3>1, DescriptionAssumption DEF TypeInv, Deliveries, WasRead, EventRead
    <3>3. requests[s].r = <<r>>
      BY <2>1
    <3>4. Payload(s) = r
      BY <3>3 DEF Payload
    <3> QED BY <3>1, <3>2, <3>4, WhatIsTrueOfRefusal
  <2> QED BY <2>2, <2>3
<1>4. ASSUME q.reacted \in {"seen", "refused"}
      PROVE  \/ Working(q) /\ q.reacted = "seen" /\ q.status = 202
             \/ \E r \in Deliveries(s) : IdlesOn(r, q)
  <2>1. CASE q.at = "free" /\ q.status = 0 /\ q.reacted = "" /\ q.r = Nil /\ q.event = Nil
    BY <1>4, <2>1
  <2>2. CASE Works(Deliveries(s), q) /\ Working(q)
    <3>1. q.reacted \in {"", "seen"} /\ (q.reacted = "seen" => q.status = 202)
      BY <2>2 DEF Working
    <3>2. q.reacted = "seen"
      BY <1>4, <3>1
    <3> QED BY <2>2, <3>1, <3>2
  <2> QED BY <1>0, <2>1, <2>2 DEF Story
<1>5. q.reacted = "seen" => q.status = 202
  BY <1>3, <1>4
<1>6. ASSUME q.reacted = "refused"
      PROVE  s \notin Published /\ <<Payload(s).platform, Payload(s).writer>> \notin Config.mayAsk
  <2>1. s \notin Published
    BY <1>2, <1>6
  <2>2. PICK r \in Deliveries(s) : IdlesOn(r, q)
    BY <1>4, <1>6
  <2> QED BY <1>3, <1>6, <2>1, <2>2
<1> QED BY <1>1, <1>2, <1>5, <1>6

-----------------------------------------------------------------------------
(* Every attempt but the first was lost to a fault. A request that finds its  *)
(* key paused loses one more, but to the fault that paused it: what a request *)
(* may have used up is bounded by the number of faults, one ahead while its   *)
(* key is free. One whose handler outlives the server is left out.            *)
Owed(at, attempt, expired, status, blocked, n) ==
    /\ at \in {"publish", "flight"} => attempt <= n + 1
    /\ at = "publish" /\ blocked => attempt <= n
    /\ at = "failed" /\ ~expired => attempt <= n
    /\ at = "backoff" => attempt <= n
    /\ at = "backoff" /\ blocked => attempt < n
    /\ status = 503 /\ ~expired => MaxAttempts <= n

OwedBy(q, blocked, n) == ~q.closedOn => Owed(q.at, q.attempt, q.expired, q.status, blocked, n)

Blocked(s) == KeyOf(s) \in paused
Held(s) == [slot |-> s, attempt |-> requests[s].attempt] \in Range(outgoing[KeyOf(s)])

Alive ==
    /\ paused # {} => faults >= 1
    /\ Backend = "memory" /\ closed => server \in {"closing", "gone"}
    /\ server = "closing" => \A s \in Slots : Busy(s) => requests[s].closedOn
    /\ server = "gone" => \A s \in Slots : ~Busy(s)

FaultInv ==
    /\ Alive
    /\ \A s \in Slots : /\ requests[s].at = "flight" => ~Blocked(s) /\ Held(s)
                        /\ OwedBy(requests[s], Blocked(s), faults)

(* More faults and fewer paused keys owe a request nothing new.               *)
LEMMA OwedLater ==
    ASSUME NEW q, NEW b, NEW c, NEW n \in Nat, NEW m \in Nat, q.attempt \in Nat,
           OwedBy(q, b, n), c => b, n <= m
    PROVE  OwedBy(q, c, m)
<1> DEFINE at == q.at
           a == q.attempt
           x == q.expired
           st == q.status
<1>1. ASSUME Owed(at, a, x, st, b, n)
      PROVE  Owed(at, a, x, st, c, m)
  <2>1. a \in Nat
    OBVIOUS
  <2> HIDE DEF at, a, x, st
  <2> QED BY <1>1, <2>1, ReceiverAssumption DEF Owed
<1> QED BY <1>1 DEF OwedBy

(* A fault pays for one attempt, whichever key it pauses.                     *)
LEMMA OwedPaid ==
    ASSUME NEW q, NEW b, NEW c, NEW n \in Nat, q.attempt \in Nat, OwedBy(q, b, n)
    PROVE  OwedBy(q, c, n + 1)
<1> DEFINE at == q.at
           a == q.attempt
           x == q.expired
           st == q.status
<1>1. ASSUME Owed(at, a, x, st, b, n)
      PROVE  Owed(at, a, x, st, c, n + 1)
  <2>1. a \in Nat
    OBVIOUS
  <2> HIDE DEF at, a, x, st
  <2> QED BY <1>1, <2>1, ReceiverAssumption DEF Owed
<1> QED BY <1>1 DEF OwedBy

(* Past its attempts only the answer counts.                                  *)
LEMMA OwedDone ==
    ASSUME NEW p, NEW b, NEW n, p.at \notin {"publish", "flight", "failed", "backoff"},
           p.status = 503 /\ ~p.expired /\ ~p.closedOn => MaxAttempts <= n
    PROVE  OwedBy(p, b, n)
BY DEF OwedBy, Owed

(* What a step of its handler makes of a request in that account.             *)
LEMMA OwedMoves ==
    ASSUME NEW q, NEW p, NEW b, NEW n \in Nat, NEW at,
           q.attempt \in Nat, OwedBy(q, b, n), MovesTo(p, q, at),
           \/ q.at = "publish" /\ at = "flight"
           \/ q.at = "publish" /\ at = "failed" /\ b
           \/ q.at = "flight" /\ at = "published"
           \/ q.at = "publish" /\ at = "published"
           \/ at = "cut"
           \/ q.at = "react" /\ at \in {"wake", "done"}
           \/ q.at = "wake" /\ at = "done"
    PROVE  OwedBy(p, b, n)
<1>1. /\ p.closedOn = q.closedOn /\ p.at = at /\ p.attempt = q.attempt /\ p.expired = q.expired
      /\ p.status = q.status
  BY DEF MovesTo, Becomes
<1> DEFINE a == q.attempt
           x == q.expired
           st == q.status
           before == q.at
<1>2. ASSUME Owed(before, a, x, st, b, n)
      PROVE  Owed(at, a, x, st, b, n)
  <2>1. /\ a \in Nat
        /\ \/ before = "publish" /\ at = "flight"
           \/ before = "publish" /\ at = "failed" /\ b
           \/ before = "flight" /\ at = "published"
           \/ before = "publish" /\ at = "published"
           \/ at = "cut"
           \/ before = "react" /\ at \in {"wake", "done"}
           \/ before = "wake" /\ at = "done"
    OBVIOUS
  <2> HIDE DEF before, a, x, st
  <2> QED BY <1>2, <2>1, ReceiverAssumption DEF Owed
<1> QED BY <1>1, <1>2 DEF OwedBy

LEMMA Monotone ==
    ASSUME TypeInv, faults' = faults \/ Blame
    PROVE  faults \in Nat /\ faults' \in Nat /\ faults <= faults'
BY DEF TypeInv, Blame

LEMMA AttemptsAreNumbers ==
    ASSUME TypeInv, NEW s \in Slots
    PROVE  requests[s].attempt \in Nat
<1>1. requests[s].attempt \in 0 .. MaxAttempts
  BY DEF TypeInv, Typed
<1> QED BY <1>1, ReceiverAssumption

(* The steps of a handler in that account, one by one.                        *)
Steps(s) ==
    LET q == requests[s]
        p == requests'[s]
    IN  /\ Only(s) /\ p.event = q.event /\ p.closedOn = q.closedOn
        /\ OwedBy(p, KeyOf(s) \in paused', faults')

LEMMA PublishSteps ==
    ASSUME TypeInv, StoryInv, FaultInv, NEW s \in Slots, PublishPubSub(s) \/ PublishMemory(s)
    PROVE  Steps(s)
<1> DEFINE q == requests[s]
           p == requests'[s]
           b == Blocked(s)
<1>0. /\ q.at = "publish" /\ UNCHANGED <<paused, faults>> /\ faults \in Nat
      /\ q.attempt \in Nat /\ OwedBy(q, b, faults)
  BY AttemptsAreNumbers DEF PublishPubSub, PublishMemory, TypeInv, FaultInv
<1>1. PICK at \in {"flight", "failed", "published"} :
          requests' = Moved(s, at) /\ (at = "failed" => b \/ server \in {"closing", "gone"})
  <2>1. CASE PublishPubSub(s)
    BY <2>1 DEF PublishPubSub, Blocked
  <2>2. CASE PublishMemory(s)
    BY <2>2 DEF PublishMemory, FaultInv, Alive
  <2> QED BY <2>1, <2>2
<1>2. Only(s) /\ MovesTo(p, q, at)
  BY <1>1, RequestMoved
<1>3. p.event = q.event /\ p.closedOn = q.closedOn
  BY <1>2 DEF MovesTo, Becomes
<1>4. OwedBy(p, b, faults)
  <2>1. CASE at = "failed" => b
    <3> HIDE DEF p, q, b
    <3> QED BY <1>0, <1>1, <1>2, <2>1, OwedMoves
  <2>2. CASE server \in {"closing", "gone"}
    <3>1. Busy(s)
      BY <1>0 DEF Busy
    <3>2. q.closedOn
      BY <2>2, <3>1 DEF FaultInv, Alive
    <3> QED BY <1>3, <3>2 DEF OwedBy
  <2> QED BY <1>1, <2>1, <2>2
<1> QED BY <1>0, <1>2, <1>3, <1>4 DEF Steps, Blocked

LEMMA ResumeSteps ==
    ASSUME TypeInv, StoryInv, FaultInv, NEW s \in Slots, ResumePublish(s)
    PROVE  Steps(s)
<1> DEFINE q == requests[s]
           p == requests'[s]
           b == Blocked(s)
<1>0. /\ q.at = "failed" /\ UNCHANGED faults /\ faults \in Nat /\ ~(KeyOf(s) \in paused')
      /\ q.attempt \in Nat /\ OwedBy(q, b, faults)
  BY AttemptsAreNumbers DEF ResumePublish, TypeInv, FaultInv
<1>1. q.status = 0
  <2>1. Story(Deliveries(s), q)
    BY DEF StoryInv
  <2>2. Working(q)
    BY <1>0, <2>1 DEF Story, IdlesOn
  <2> QED BY <1>0, <2>2 DEF Working, Early
<1>2. CASE (q.expired \/ q.attempt = MaxAttempts) /\ requests' = GaveUp(s)
  <2>1. Only(s) /\ Becomes(p, q, "done", q.attempt, q.expired, 503, q.reaction, q.reacted)
    BY <1>2, RequestGivenUp
  <2>2. p.event = q.event /\ p.closedOn = q.closedOn /\ p.at = "done" /\ p.expired = q.expired
    BY <2>1 DEF Becomes
  <2>3. ~q.expired /\ ~q.closedOn => MaxAttempts <= faults
    <3>1. ~q.expired /\ ~q.closedOn => q.attempt <= faults
      BY <1>0 DEF OwedBy, Owed
    <3> QED BY <1>2, <3>1
  <2>4. OwedBy(p, KeyOf(s) \in paused', faults)
    BY <2>2, <2>3, OwedDone
  <2> QED BY <1>0, <2>1, <2>2, <2>4 DEF Steps
<1>3. CASE ~q.expired /\ requests' = Moved(s, "backoff")
  <2>1. Only(s) /\ MovesTo(p, q, "backoff")
    BY <1>3, RequestMoved
  <2>2. /\ p.event = q.event /\ p.closedOn = q.closedOn /\ p.at = "backoff" /\ p.expired = q.expired
        /\ p.attempt = q.attempt /\ p.status = q.status
    BY <2>1 DEF MovesTo, Becomes
  <2>3. ~q.closedOn => q.attempt <= faults
    BY <1>0, <1>3 DEF OwedBy, Owed
  <2>4. p.status # 503
    BY <1>1, <2>2
  <2>5. OwedBy(p, KeyOf(s) \in paused', faults)
    BY <1>0, <2>2, <2>3, <2>4 DEF OwedBy, Owed
  <2> QED BY <1>0, <2>1, <2>2, <2>5 DEF Steps
<1> QED BY <1>2, <1>3 DEF ResumePublish

LEMMA RetrySteps ==
    ASSUME TypeInv, StoryInv, FaultInv, NEW s \in Slots, Backoff(s)
    PROVE  Steps(s)
<1> DEFINE q == requests[s]
           p == requests'[s]
           b == Blocked(s)
<1>0. /\ q.at = "backoff" /\ UNCHANGED <<paused, faults>> /\ faults \in Nat
      /\ q.attempt \in Nat /\ OwedBy(q, b, faults)
  BY AttemptsAreNumbers DEF Backoff, TypeInv, FaultInv
<1>1. Only(s) /\ Becomes(p, q, "publish", q.attempt + 1, q.expired, q.status, q.reaction, q.reacted)
  BY RequestRetried DEF Backoff
<1>2. /\ p.event = q.event /\ p.closedOn = q.closedOn /\ p.at = "publish" /\ p.expired = q.expired
      /\ p.attempt = q.attempt + 1 /\ p.status = q.status
  BY <1>1 DEF Becomes
<1>3. ASSUME ~q.closedOn
      PROVE  Owed(p.at, p.attempt, p.expired, p.status, b, faults)
  <2>1. q.attempt <= faults /\ (b => q.attempt < faults)
    BY <1>0, <1>3 DEF OwedBy, Owed
  <2>2. p.attempt <= faults + 1 /\ (b => p.attempt <= faults)
    BY <1>0, <1>2, <2>1
  <2>3. p.status = 503 /\ ~p.expired => MaxAttempts <= faults
    BY <1>0, <1>2, <1>3 DEF OwedBy, Owed
  <2> QED BY <1>2, <2>2, <2>3 DEF Owed
<1> QED BY <1>0, <1>1, <1>2, <1>3 DEF Steps, OwedBy, Blocked

LEMMA DeadlineSteps ==
    ASSUME TypeInv, StoryInv, FaultInv, NEW s \in Slots, DeadlineInFlight(s) \/ DeadlineInBackoff(s)
    PROVE  Steps(s)
<1> DEFINE q == requests[s]
           p == requests'[s]
<1>1. CASE DeadlineInFlight(s)
  <2>1. Only(s) /\ Becomes(p, q, "failed", q.attempt, TRUE, q.status, q.reaction, q.reacted)
    BY <1>1, RequestExpired DEF DeadlineInFlight
  <2>2. p.event = q.event /\ p.closedOn = q.closedOn /\ p.at = "failed" /\ p.expired
    BY <2>1 DEF Becomes
  <2>3. OwedBy(p, KeyOf(s) \in paused', faults')
    BY <2>2 DEF OwedBy, Owed
  <2> QED BY <2>1, <2>2, <2>3 DEF Steps
<1>2. CASE DeadlineInBackoff(s)
  <2>1. Only(s) /\ Becomes(p, q, "done", q.attempt, TRUE, 503, q.reaction, q.reacted)
    BY <1>2, RequestGivenUpLate DEF DeadlineInBackoff
  <2>2. p.event = q.event /\ p.closedOn = q.closedOn /\ p.at = "done" /\ p.expired
    BY <2>1 DEF Becomes
  <2>3. OwedBy(p, KeyOf(s) \in paused', faults')
    BY <2>2 DEF OwedBy, Owed
  <2> QED BY <2>1, <2>2, <2>3 DEF Steps
<1> QED BY <1>1, <1>2

LEMMA IdleIsAnswered ==
    ASSUME NEW r, NEW q, IdlesOn(r, q)
    PROVE  q.status \in {0, 204, 400, 401, 405, 413, 500}
<1>1. q.status = Decide(r).status
  BY DEF IdlesOn
<1>2. Decide(r).status \in {0, 204, 400, 401, 405, 413, 500}
  BY StatusOfDecision
<1> QED BY <1>1, <1>2

(* Once it is accepted or refused a request loses nothing any more.           *)
LEMMA AnswerSteps ==
    ASSUME TypeInv, StoryInv, FaultInv, NEW s \in Slots, AnswerAccepted(s) \/ React(s) \/ Wake(s)
    PROVE  Steps(s)
<1> DEFINE q == requests[s]
           p == requests'[s]
<1>1. CASE AnswerAccepted(s)
  <2>1. Only(s) /\ Becomes(p, q, "react", q.attempt, q.expired, 202, "seen", q.reacted)
    BY <1>1, RequestAccepted DEF AnswerAccepted
  <2>2. p.event = q.event /\ p.closedOn = q.closedOn /\ p.at = "react"
    BY <2>1 DEF Becomes
  <2>3. p.status # 503
    BY <2>1 DEF Becomes
  <2>4. OwedBy(p, KeyOf(s) \in paused', faults')
    BY <2>2, <2>3, OwedDone
  <2> QED BY <2>1, <2>2, <2>4 DEF Steps
<1>2. CASE React(s) \/ Wake(s)
  <2>1. PICK at \in {"wake", "done"} :
            \/ requests' = Moved(s, at)
            \/ \E x : requests' = [requests EXCEPT ![s].at = at, ![s].reacted = x]
    BY <1>2 DEF React, Wake
  <2>2. Only(s) /\ \E x : Becomes(p, q, at, q.attempt, q.expired, q.status, q.reaction, x)
    <3>1. CASE requests' = Moved(s, at)
      BY <3>1, RequestMoved DEF MovesTo
    <3>2. ASSUME NEW x, requests' = [requests EXCEPT ![s].at = at, ![s].reacted = x]
          PROVE  Only(s) /\ Becomes(p, q, at, q.attempt, q.expired, q.status, q.reaction, x)
      BY <3>2, RequestReacted
    <3> QED BY <2>1, <3>1, <3>2
  <2>3. p.event = q.event /\ p.closedOn = q.closedOn /\ p.at = at /\ p.expired = q.expired
    BY <2>2 DEF Becomes
  <2>4. q.at \in {"react", "wake"} /\ Story(Deliveries(s), q)
    BY <1>2 DEF React, Wake, StoryInv
  <2>5. q.status # 503
    <3>1. CASE Working(q)
      <4>1. q.status = 202
        BY <2>4, <3>1 DEF Working
      <4> QED BY <4>1
    <3>2. ASSUME NEW r, IdlesOn(r, q)
          PROVE  q.status # 503
      <4>1. q.status \in {0, 204, 400, 401, 405, 413, 500}
        BY <3>2, IdleIsAnswered
      <4> QED BY <4>1
    <3> QED BY <2>4, <3>1, <3>2 DEF Story
  <2>6. p.status # 503
    BY <2>2, <2>5 DEF Becomes
  <2>7. OwedBy(p, KeyOf(s) \in paused', faults')
    BY <2>3, <2>6, OwedDone
  <2> QED BY <2>2, <2>3, <2>7 DEF Steps
<1> QED BY <1>1, <1>2

LEMMA HandleSteps ==
    ASSUME TypeInv, StoryInv, FaultInv, NEW s \in Slots, Handle(s)
    PROVE  Steps(s)
BY PublishSteps, ResumeSteps, RetrySteps, DeadlineSteps, AnswerSteps DEF Handle

(* Only the client's publish puts a request into the client's hands.          *)
LEMMA HandleFlies ==
    ASSUME TypeInv, NEW s \in Slots, Handle(s), requests'[s].at = "flight"
    PROVE  PublishPubSub(s) /\ requests' = Moved(s, "flight")
<1>1. ASSUME NEW at, requests' = Moved(s, at)
      PROVE  at = "flight"
  BY <1>1, RequestMoved DEF MovesTo, Becomes
<1>2. ~(DeadlineInFlight(s) \/ Backoff(s) \/ AnswerAccepted(s))
  BY RequestExpired, RequestRetried, RequestAccepted
     DEF DeadlineInFlight, Backoff, AnswerAccepted, Becomes
<1>3. ~(ResumePublish(s) \/ DeadlineInBackoff(s))
  <2>1. ASSUME requests' = GaveUp(s) \/ requests' = [GaveUp(s) EXCEPT ![s].expired = TRUE]
        PROVE  requests'[s].at = "done"
    <3> DEFINE q == requests[s]
               p == requests'[s]
    <3>1. \/ Becomes(p, q, "done", q.attempt, q.expired, 503, q.reaction, q.reacted)
          \/ Becomes(p, q, "done", q.attempt, TRUE, 503, q.reaction, q.reacted)
      BY <2>1, RequestGivenUp, RequestGivenUpLate
    <3> HIDE DEF p, q
    <3>2. p.at = "done"
      BY <3>1 DEF Becomes
    <3> QED BY <3>2 DEF p
  <2> QED BY <1>1, <2>1 DEF ResumePublish, DeadlineInBackoff
<1>4. ~React(s)
  <2> SUFFICES ASSUME React(s) PROVE FALSE
    OBVIOUS
  <2>1. PICK at \in {"wake", "done"} :
             \/ requests' = Moved(s, at)
             \/ \E x \in {"", requests[s].reaction} :
                    requests' = [requests EXCEPT ![s].at = at, ![s].reacted = x]
    BY DEF React
  <2>2. ASSUME NEW x, requests' = [requests EXCEPT ![s].at = at, ![s].reacted = x]
        PROVE  FALSE
    BY <2>2, RequestReacted DEF Becomes
  <2> QED BY <1>1, <2>1, <2>2
<1>5. ~PublishMemory(s) /\ ~Wake(s)
  BY <1>1 DEF PublishMemory, Wake
<1>6. PublishPubSub(s)
  BY <1>2, <1>3, <1>4, <1>5 DEF Handle
<1> QED BY <1>1, <1>6 DEF PublishPubSub

(* Who leaves the client's custody leaves it as the account says; what the    *)
(* client holds for the others it goes on holding.                            *)
LEMMA HandleHolds ==
    ASSUME TypeInv, StoryInv, FaultInv, NEW s \in Slots, Handle(s), NEW t \in Slots,
           requests'[t].at = "flight"
    PROVE  (~Blocked(t) /\ Held(t))'
<1>1. Only(s) /\ requests'[s].event = requests[s].event
  BY HandleSteps DEF Steps
<1>2. KeyOf(t)' = KeyOf(t)
  BY <1>1 DEF Only, KeyOf
<1>3. paused' = paused \/ paused' = paused \ {KeyOf(s)}
  BY DEF Handle, PublishPubSub, PublishMemory, DeadlineInFlight, ResumePublish, Backoff,
         DeadlineInBackoff, AnswerAccepted, React, Wake
<1>4. CASE t # s
  <2>1. requests'[t] = requests[t] /\ ~Blocked(t) /\ Held(t)
    BY <1>1, <1>4 DEF Only, FaultInv
  <2>2. KeyOf(t) \in Keys
    BY <2>1, TriesAreWork, KeyOfWork DEF Early
  <2>3. Range(outgoing[KeyOf(t)]) \subseteq Range(outgoing'[KeyOf(t)])
    <3>1. CASE UNCHANGED outgoing
      BY <3>1
    <3>2. CASE PublishPubSub(s) /\ ~UNCHANGED outgoing
      <4> DEFINE n == [slot |-> s, attempt |-> requests[s].attempt]
      <4>1. n \in Message
        <5>1. requests[s].attempt \in 1 .. MaxAttempts
          BY <3>2, ReceiverAssumption DEF PublishPubSub, TypeInv, Typed, Early
        <5> QED BY <5>1 DEF Message
      <4>2. outgoing[KeyOf(t)] \in Seq(Message)
        BY <2>2 DEF TypeInv
      <4>3. outgoing'[KeyOf(t)] \in {outgoing[KeyOf(t)], Append(outgoing[KeyOf(t)], n)}
        BY <2>2, <3>2 DEF PublishPubSub, TypeInv
      <4> HIDE DEF n
      <4>4. Range(Append(outgoing[KeyOf(t)], n)) = Range(outgoing[KeyOf(t)]) \union {n}
        BY <4>1, <4>2, RangeOfAppended
      <4> QED BY <4>3, <4>4
    <3> QED BY <3>1, <3>2 DEF Handle, PublishPubSub, PublishMemory, DeadlineInFlight, ResumePublish, Backoff,
             DeadlineInBackoff, AnswerAccepted, React, Wake
  <2> QED BY <1>2, <1>3, <2>1, <2>3 DEF Blocked, Held
<1>5. CASE t = s
  <2>1. PublishPubSub(s) /\ requests' = Moved(s, "flight")
    BY <1>5, HandleFlies
  <2>2. requests[s].at = "publish" /\ requests'[s].at # "failed"
    BY <1>5, <2>1 DEF PublishPubSub
  <2> DEFINE n == [slot |-> s, attempt |-> requests[s].attempt]
  <2>3. /\ ~Blocked(s) /\ UNCHANGED paused
        /\ outgoing' = [outgoing EXCEPT ![KeyOf(s)] = Append(@, n)]
    <3>1. requests' # Moved(s, "failed")
      BY <2>2, RequestMoved DEF MovesTo, Becomes
    <3> QED BY <2>1, <3>1 DEF PublishPubSub, Blocked
  <2>4. KeyOf(s) \in Keys
    BY <2>2, TriesAreWork, KeyOfWork DEF Early
  <2>5. n \in Message
    <3>1. requests[s].attempt \in 1 .. MaxAttempts
      BY <2>2, ReceiverAssumption DEF TypeInv, Typed, Early
    <3> QED BY <3>1 DEF Message
  <2>6. outgoing[KeyOf(s)] \in Seq(Message) /\ outgoing'[KeyOf(s)] = Append(outgoing[KeyOf(s)], n)
    BY <2>3, <2>4 DEF TypeInv
  <2>7. n \in Range(outgoing'[KeyOf(s)])
    <3> HIDE DEF n
    <3> QED BY <2>5, <2>6, RangeOfAppended
  <2>8. requests'[s].attempt = requests[s].attempt
    BY <2>1, RequestMoved DEF MovesTo, Becomes
  <2> QED BY <1>2, <1>5, <2>3, <2>7, <2>8 DEF Blocked, Held
<1> QED BY <1>4, <1>5

LEMMA HandleKeepsFaults ==
    ASSUME TypeInv, StoryInv, FaultInv, NEW s \in Slots, Handle(s)
    PROVE  FaultInv'
<1>1. Only(s) /\ requests'[s].event = requests[s].event /\ requests'[s].closedOn = requests[s].closedOn
  BY HandleSteps DEF Steps
<1>2. /\ UNCHANGED <<scenario, server>> /\ UNCHANGED closed /\ Backend' = Backend
      /\ paused' \subseteq paused /\ faults \in Nat /\ faults' \in Nat /\ faults <= faults'
  <2>1. /\ UNCHANGED <<scenario, server>> /\ UNCHANGED closed
        /\ paused' = paused \/ paused' = paused \ {KeyOf(s)}
    BY DEF Handle, PublishPubSub, PublishMemory, DeadlineInFlight, ResumePublish, Backoff,
           DeadlineInBackoff, AnswerAccepted, React, Wake, Publish, qvars
  <2>2. faults' = faults \/ Blame
    BY DEF Handle, PublishPubSub, PublishMemory, DeadlineInFlight, ResumePublish, Backoff,
           DeadlineInBackoff, AnswerAccepted, React, Wake
  <2> QED BY <2>1, <2>2, Monotone DEF Backend
<1>3. Busy(s)
  BY DEF Busy, Handle, PublishPubSub, PublishMemory, DeadlineInFlight, ResumePublish, Backoff,
         DeadlineInBackoff, AnswerAccepted, React, Wake
<1>4. Alive'
  <2>1. paused' # {} => faults' >= 1
    BY <1>2 DEF FaultInv, Alive
  <2>2. Backend' = "memory" /\ closed' => server' \in {"closing", "gone"}
    BY <1>2 DEF FaultInv, Alive
  <2>3. server' # "gone"
    BY <1>2, <1>3 DEF FaultInv, Alive
  <2>4. ASSUME server' = "closing", NEW t \in Slots, Busy(t)'
        PROVE  requests'[t].closedOn
    <3>1. CASE t = s
      BY <1>1, <1>2, <1>3, <2>4, <3>1 DEF FaultInv, Alive
    <3>2. CASE t # s
      <4>1. requests'[t] = requests[t] /\ Busy(t)
        BY <1>1, <2>4, <3>2 DEF Only, Busy
      <4> QED BY <1>2, <2>4, <4>1 DEF FaultInv, Alive
    <3> QED BY <3>1, <3>2
  <2> QED BY <2>1, <2>2, <2>3, <2>4 DEF Alive
<1>5. ASSUME NEW t \in Slots
      PROVE  OwedBy(requests[t], Blocked(t), faults)'
  <2>1. KeyOf(t)' = KeyOf(t)
    BY <1>1 DEF Only, KeyOf
  <2>2. CASE t = s
    BY <2>1, <2>2, HandleSteps DEF Steps, Blocked
  <2>3. CASE t # s
    <3>1. requests'[t] = requests[t] /\ OwedBy(requests[t], Blocked(t), faults)
      BY <1>1, <2>3 DEF Only, FaultInv
    <3>2. requests[t].attempt \in Nat
      BY AttemptsAreNumbers
    <3>3. KeyOf(t) \in paused' => Blocked(t)
      BY <1>2 DEF Blocked
    <3>4. OwedBy(requests[t], KeyOf(t) \in paused', faults')
      BY <1>2, <3>1, <3>2, <3>3, OwedLater
    <3> QED BY <2>1, <3>1, <3>4 DEF Blocked
  <2> QED BY <2>2, <2>3
<1> QED BY <1>4, <1>5, HandleHolds DEF FaultInv

(* A request that arrives owes nothing but what a paused key costs.           *)
LEMMA ArrivalKeepsFaults ==
    ASSUME TypeInv, StoryInv, FaultInv, NEW s \in Slots, ServeHTTP(s)
    PROVE  FaultInv'
<1> DEFINE p == requests'[s]
<1>0. /\ UNCHANGED <<scenario, server, outgoing, paused, faults>> /\ UNCHANGED closed
      /\ Backend' = Backend /\ server = "up" /\ faults \in Nat
  BY DEF ServeHTTP, qvars, Backend, TypeInv
<1>1. Only(s) /\ \E r \in Deliveries(s) : p = [Decide(r) EXCEPT !.r = <<r>>]
  BY DEF ServeHTTP, TypeInv, Only, Decisions, Deliveries
<1>2. PICK r \in Deliveries(s) : p = [Decide(r) EXCEPT !.r = <<r>>]
  BY <1>1
<1> DEFINE d == Decide(r)
<1>3. p.at = d.at /\ p.status = d.status /\ p.attempt = d.attempt
  BY <1>2, RequestArrived
<1>4. Shaped(r, d)
  BY DecisionShaped
<1>5. d.at \in {"publish", "react", "done"}
  <2> HIDE DEF d
  <2> QED BY <1>4 DEF Shaped
<1>6. d.at = "publish" => d.attempt = 1
  <2> HIDE DEF d
  <2> QED BY <1>4 DEF Shaped
<1>7. p.status # 503
  <2>1. d.status \in {0, 204, 400, 401, 405, 413, 500}
    BY StatusOfDecision
  <2> HIDE DEF d, p
  <2> QED BY <1>3, <2>1
<1>8. ASSUME NEW b, b => paused # {}
      PROVE  OwedBy(p, b, faults)
  <2>1. b => faults >= 1
    BY <1>8 DEF FaultInv, Alive
  <2>2. CASE p.at = "publish"
    <3>1. p.attempt = 1
      BY <1>3, <1>6, <2>2
    <3>2. p.attempt <= faults + 1 /\ (b => p.attempt <= faults)
      BY <1>0, <2>1, <3>1
    <3> HIDE DEF p
    <3> QED BY <1>7, <2>2, <3>2 DEF OwedBy, Owed
  <2>3. CASE p.at # "publish"
    <3>1. p.at \notin {"publish", "flight", "failed", "backoff"}
      BY <1>3, <1>5, <2>3
    <3> HIDE DEF p
    <3> QED BY <1>7, <3>1, OwedDone
  <2> QED BY <2>2, <2>3
<1>9. ASSUME NEW t \in Slots
      PROVE  /\ OwedBy(requests[t], Blocked(t), faults)'
             /\ requests'[t].at = "flight" => (~Blocked(t) /\ Held(t))'
  <2>1. CASE t = s
    <3>1. requests'[s].at # "flight"
      BY <1>3, <1>5
    <3>2. Blocked(s)' => paused # {}
      BY <1>0 DEF Blocked
    <3>3. OwedBy(p, Blocked(s)', faults)
      BY <1>8, <3>2
    <3> QED BY <1>0, <2>1, <3>1, <3>3
  <2>2. CASE t # s
    <3>1. requests'[t] = requests[t]
      BY <1>1, <2>2 DEF Only
    <3> QED BY <1>0, <3>1 DEF FaultInv, Blocked, Held, KeyOf
  <2> QED BY <2>1, <2>2
<1>10. Alive'
  BY <1>0 DEF FaultInv, Alive
<1> QED BY <1>9, <1>10 DEF FaultInv

(* Ends of the process, and what the next one starts with.                    *)
LEMMA LifeKeepsFaults ==
    ASSUME TypeInv, StoryInv, FaultInv, Stop \/ Drain \/ Exit \/ Crash \/ Start
    PROVE  FaultInv'
<1>0. /\ UNCHANGED scenario /\ Backend' = Backend
      /\ faults \in Nat /\ faults' \in Nat /\ faults <= faults' /\ paused' \subseteq paused
  <2>1. /\ UNCHANGED scenario /\ (faults' = faults \/ Blame)
        /\ paused' = paused \/ paused' = {}
    BY DEF Stop, Drain, Exit, Crash, Start
  <2> QED BY <2>1, Monotone DEF Backend
<1>1. ASSUME NEW s \in Slots
      PROVE  LET q == requests[s]
                 p == requests'[s]
             IN  /\ p.event = q.event /\ p.attempt = q.attempt
                 /\ OwedBy(p, Blocked(s), faults)
                 /\ p.at = q.at \/ p.at = "cut"
                 /\ q.closedOn => p.closedOn
                 /\ Drain => p.at = q.at /\ (Busy(s) => p.closedOn)
                 /\ Exit \/ Crash => p.at \in {"free", "done", "cut"}
                 /\ Stop \/ Start => p = q
  <2> DEFINE q == requests[s]
             p == requests'[s]
             b == Blocked(s)
  <2>0. OwedBy(q, b, faults) /\ q.attempt \in Nat /\ faults \in Nat
    BY <1>0, AttemptsAreNumbers DEF FaultInv
  <2>1. CASE Stop \/ Start
    <3>1. p = q /\ ~Drain /\ ~Exit /\ ~Crash
      BY <2>1 DEF Stop, Start, Drain, Exit, Crash
    <3> QED BY <2>0, <3>1
  <2>2. CASE Drain
    <3>1. /\ p.event = q.event /\ p.at = q.at /\ p.attempt = q.attempt
          /\ p.expired = q.expired /\ p.status = q.status
          /\ p.closedOn = (q.closedOn \/ Busy(s))
      BY <2>2, RequestsMarked
    <3>2. ~Stop /\ ~Start /\ ~Exit /\ ~Crash
      BY <2>2 DEF Stop, Start, Drain, Exit, Crash
    <3>3. OwedBy(p, b, faults)
      <4> HIDE DEF p, q, b
      <4> QED BY <2>0, <3>1 DEF OwedBy
    <3> QED BY <3>1, <3>2, <3>3
  <2>3. CASE Exit \/ Crash
    <3>1. requests' = CutOff /\ ~Stop /\ ~Start /\ ~Drain
      BY <2>3 DEF Stop, Start, Drain, Exit, Crash
    <3>2. CASE Busy(s)
      <4>1. MovesTo(p, q, "cut")
        BY <3>1, <3>2, RequestsCutOff
      <4>2. /\ p.event = q.event /\ p.at = "cut" /\ p.attempt = q.attempt /\ p.closedOn = q.closedOn
        BY <4>1 DEF MovesTo, Becomes
      <4>3. OwedBy(p, b, faults)
        <5> HIDE DEF p, q, b
        <5> QED BY <2>0, <4>1, OwedMoves
      <4> QED BY <3>1, <4>2, <4>3
    <3>3. CASE ~Busy(s)
      <4>1. p = q /\ q.at \in {"free", "done", "cut"}
        BY <3>1, <3>3, RequestsCutOff DEF Busy
      <4> QED BY <2>0, <3>1, <4>1
    <3> QED BY <3>2, <3>3
  <2> QED BY <2>1, <2>2, <2>3
<1>2. ASSUME NEW s \in Slots
      PROVE  OwedBy(requests[s], Blocked(s), faults)'
  <2> DEFINE p == requests'[s]
  <2>1. OwedBy(p, Blocked(s), faults) /\ p.attempt \in Nat /\ KeyOf(s)' = KeyOf(s)
    BY <1>1, AttemptsAreNumbers DEF KeyOf
  <2>2. KeyOf(s) \in paused' => Blocked(s)
    BY <1>0 DEF Blocked
  <2>3. OwedBy(p, KeyOf(s) \in paused', faults')
    <3> HIDE DEF p
    <3> QED BY <1>0, <2>1, <2>2, OwedLater
  <2> QED BY <2>1, <2>3 DEF Blocked
<1>3. ASSUME NEW s \in Slots, requests'[s].at = "flight"
      PROVE  (~Blocked(s) /\ Held(s))'
  <2>1. requests[s].at = "flight" /\ Busy(s) /\ ~Exit /\ ~Crash
    BY <1>1, <1>3 DEF Busy
  <2>2. UNCHANGED outgoing
    BY <2>1 DEF Stop, Drain, Start
  <2>3. KeyOf(s)' = KeyOf(s) /\ requests'[s].attempt = requests[s].attempt
    BY <1>1 DEF KeyOf
  <2>4. ~Blocked(s) /\ Held(s)
    BY <2>1 DEF FaultInv
  <2> QED BY <1>0, <2>2, <2>3, <2>4 DEF Blocked, Held
<1>4. Alive'
  <2>1. paused' # {} => faults' >= 1
    BY <1>0 DEF FaultInv, Alive
  <2>2. CASE Stop
    <3>1. server' = "draining" /\ server = "up" /\ UNCHANGED closed
      BY <2>2 DEF Stop, qvars
    <3> QED BY <1>0, <2>1, <3>1 DEF FaultInv, Alive
  <2>3. CASE Drain
    <3>1. server' = "closing"
      BY <2>3 DEF Drain
    <3>2. \A s \in Slots : Busy(s)' => requests'[s].closedOn
      BY <1>1, <2>3 DEF Busy
    <3> QED BY <2>1, <3>1, <3>2 DEF Alive
  <2>4. CASE Exit \/ Crash
    <3>1. server' = "gone"
      BY <2>4 DEF Exit, Crash
    <3>2. \A s \in Slots : ~Busy(s)'
      BY <1>1, <2>4 DEF Busy
    <3> QED BY <2>1, <3>1, <3>2 DEF Alive
  <2>5. CASE Start
    <3>1. server' = "up" /\ Backend # "memory"
      BY <2>5 DEF Start
    <3> QED BY <1>0, <2>1, <3>1 DEF Alive
  <2> QED BY <2>2, <2>3, <2>4, <2>5
<1> QED BY <1>2, <1>3, <1>4 DEF FaultInv

(* Who is told that a message is out is whose turn it was; the messages of    *)
(* the others stay with the client.                                           *)
LEMMA SentKeepsFaults ==
    ASSUME TypeInv, StoryInv, FaultInv, NEW key \in Keys, Sent(key)
    PROVE  FaultInv'
<1> DEFINE h == Head(outgoing[key])
<1>0. /\ UNCHANGED <<scenario, server, paused, faults>> /\ UNCHANGED closed
      /\ Backend' = Backend /\ faults \in Nat
  BY DEF Sent, qvars, Backend, TypeInv
<1>1. outgoing[key] \in Seq(Message) /\ outgoing[key] # <<>>
  BY DEF TypeInv, Sent
<1>2. h \in Message /\ Range(outgoing[key]) = {h} \union Range(Tail(outgoing[key]))
  BY <1>1, RangeOfRest
<1>3. h.slot \in Slots
  BY <1>2 DEF Message
<1>4. ASSUME NEW t \in Slots
      PROVE  LET q == requests[t]
                 p == requests'[t]
             IN  /\ p.event = q.event /\ p.closedOn = q.closedOn /\ OwedBy(p, Blocked(t), faults)
                 /\ Busy(t)' => Busy(t)
                 /\ p.at = "flight" => p = q /\ ~(t = h.slot /\ Waits(h))
  <2> DEFINE q == requests[t]
             p == requests'[t]
             b == Blocked(t)
  <2>0. OwedBy(q, b, faults) /\ q.attempt \in Nat
    BY AttemptsAreNumbers DEF FaultInv
  <2>1. CASE Waits(h) /\ requests' = Moved(h.slot, "published") /\ t = h.slot
    <3>1. q.at = "flight"
      BY <2>1 DEF Waits
    <3>2. MovesTo(p, q, "published")
      BY <1>3, <2>1, RequestMoved
    <3>3. p.event = q.event /\ p.closedOn = q.closedOn /\ p.at = "published"
      BY <3>2 DEF MovesTo, Becomes
    <3>4. OwedBy(p, b, faults)
      <4> HIDE DEF p, q, b
      <4> QED BY <1>0, <2>0, <3>1, <3>2, OwedMoves
    <3> QED BY <3>1, <3>3, <3>4 DEF Busy
  <2>2. CASE p = q /\ ~(t = h.slot /\ Waits(h))
    BY <2>0, <2>2 DEF Busy
  <2>3. ASSUME Waits(h), requests' = Moved(h.slot, "published"), t # h.slot
        PROVE  p = q
    BY <2>3 DEF Moved, TypeInv
  <2>4. ASSUME ~Waits(h)
        PROVE  p = q
    BY <2>4 DEF Sent
  <2>5. Waits(h) => requests' = Moved(h.slot, "published")
    BY DEF Sent
  <2> QED BY <2>1, <2>2, <2>3, <2>4, <2>5
<1>5. ASSUME NEW t \in Slots
      PROVE  OwedBy(requests[t], Blocked(t), faults)'
  BY <1>0, <1>4 DEF Blocked, KeyOf
<1>6. ASSUME NEW t \in Slots, requests'[t].at = "flight"
      PROVE  (~Blocked(t) /\ Held(t))'
  <2> DEFINE n == [slot |-> t, attempt |-> requests[t].attempt]
  <2>1. requests'[t] = requests[t] /\ ~Blocked(t) /\ n \in Range(outgoing[KeyOf(t)])
    BY <1>4, <1>6 DEF FaultInv, Held
  <2>2. KeyOf(t) \in Keys
    BY <1>6, <2>1, TriesAreWork, KeyOfWork DEF Early
  <2>3. n \in Range(outgoing'[KeyOf(t)])
    <3>1. CASE KeyOf(t) = key
      <4>1. n # h
        <5>1. ASSUME h = n
              PROVE  t = h.slot /\ Waits(h)
          BY <1>6, <2>1, <5>1 DEF Waits
        <5> QED BY <1>4, <1>6, <5>1
      <4>2. outgoing'[key] = Tail(outgoing[key])
        BY DEF Sent, TypeInv
      <4> HIDE DEF n
      <4> QED BY <1>2, <2>1, <3>1, <4>1, <4>2
    <3>2. CASE KeyOf(t) # key
      <4>1. outgoing'[KeyOf(t)] = outgoing[KeyOf(t)]
        BY <2>2, <3>2 DEF Sent, TypeInv
      <4> QED BY <2>1, <4>1
    <3> QED BY <3>1, <3>2
  <2> QED BY <1>0, <2>1, <2>3 DEF Blocked, Held, KeyOf
<1>7. Alive'
  BY <1>0, <1>4 DEF FaultInv, Alive
<1> QED BY <1>5, <1>6, <1>7 DEF FaultInv

(* The fault that pauses a key pays for the attempt of everybody who waited   *)
(* with that key or will find it paused.                                      *)
LEMMA NotSentKeepsFaults ==
    ASSUME TypeInv, StoryInv, FaultInv, NEW key \in Keys, NotSent(key)
    PROVE  FaultInv'
<1>0. /\ UNCHANGED <<scenario, server>> /\ UNCHANGED closed /\ paused' = paused \union {key}
      /\ Backend' = Backend /\ faults \in Nat /\ faults' = faults + 1
  BY DEF NotSent, qvars, Backend, TypeInv, Blame
<1>1. ASSUME NEW t \in Slots
      PROVE  LET q == requests[t]
                 p == requests'[t]
             IN  /\ p.event = q.event /\ p.closedOn = q.closedOn
                 /\ \A c \in BOOLEAN : OwedBy(p, c, faults + 1)
                 /\ p.at = "flight" => p = q /\ t \notin Told(key)
  <2> DEFINE q == requests[t]
             p == requests'[t]
             b == Blocked(t)
  <2>0. OwedBy(q, b, faults) /\ q.attempt \in Nat
    BY AttemptsAreNumbers DEF FaultInv
  <2>1. CASE t \in Told(key)
    <3>1. q.at = "flight" /\ MovesTo(p, q, "failed")
      BY <2>1, ToldOnes
    <3>2. /\ p.event = q.event /\ p.closedOn = q.closedOn /\ p.at = "failed"
          /\ p.attempt = q.attempt /\ p.status = q.status
      BY <3>1 DEF MovesTo, Becomes
    <3>3. q.status = 0
      <4>1. Story(Deliveries(t), q)
        BY DEF StoryInv
      <4>2. Working(q)
        BY <3>1, <4>1 DEF Story, IdlesOn
      <4> QED BY <3>1, <4>2 DEF Working, Early
    <3>4. p.status # 503
      BY <3>2, <3>3
    <3>5. ~q.closedOn => q.attempt <= faults + 1
      BY <2>0, <3>1 DEF OwedBy, Owed
    <3>6. \A c \in BOOLEAN : OwedBy(p, c, faults + 1)
      <4> HIDE DEF p, q
      <4> QED BY <3>2, <3>4, <3>5 DEF OwedBy, Owed
    <3> QED BY <3>1, <3>2, <3>6
  <2>2. CASE t \notin Told(key)
    <3>1. p = q
      BY <2>2, ToldOnes
    <3>2. \A c \in BOOLEAN : OwedBy(q, c, faults + 1)
      <4> HIDE DEF q, b
      <4> QED BY <1>0, <2>0, OwedPaid
    <3> QED BY <2>2, <3>1, <3>2
  <2> QED BY <2>1, <2>2
<1>2. ASSUME NEW t \in Slots
      PROVE  OwedBy(requests[t], Blocked(t), faults)'
  <2>1. Blocked(t)' \in BOOLEAN
    BY DEF Blocked
  <2>2. OwedBy(requests'[t], Blocked(t)', faults + 1)
    BY <1>1, <2>1
  <2> QED BY <1>0, <2>2
<1>3. ASSUME NEW t \in Slots, requests'[t].at = "flight"
      PROVE  (~Blocked(t) /\ Held(t))'
  <2> DEFINE n == [slot |-> t, attempt |-> requests[t].attempt]
  <2>1. /\ requests'[t] = requests[t] /\ t \notin Told(key)
        /\ ~Blocked(t) /\ n \in Range(outgoing[KeyOf(t)])
    BY <1>1, <1>3 DEF FaultInv, Held
  <2>2. KeyOf(t) \in Keys
    BY <1>3, <2>1, TriesAreWork, KeyOfWork DEF Early
  <2>3. KeyOf(t) # key
    <3>1. Waits(n) /\ n.slot = t
      BY <1>3, <2>1 DEF Waits
    <3> HIDE DEF n
    <3> QED BY <2>1, <3>1 DEF Told
  <2>4. outgoing'[KeyOf(t)] = outgoing[KeyOf(t)]
    BY <2>2, <2>3 DEF NotSent, TypeInv
  <2> QED BY <1>0, <2>1, <2>3, <2>4 DEF Blocked, Held, KeyOf
<1>4. Alive'
  <2>1. ASSUME NEW t \in Slots
        PROVE  /\ Busy(t)' => Busy(t)
               /\ requests'[t].closedOn = requests[t].closedOn
    <3>1. \/ requests'[t] = requests[t]
          \/ requests[t].at = "flight" /\ MovesTo(requests'[t], requests[t], "failed")
      BY ToldOnes
    <3> QED BY <3>1 DEF Busy, MovesTo, Becomes
  <2>2. faults' >= 1
    BY <1>0
  <2> QED BY <1>0, <2>1, <2>2 DEF FaultInv, Alive
<1> QED BY <1>2, <1>3, <1>4 DEF FaultInv

LEMMA StepKeepsFaults ==
    ASSUME TypeInv, StoryInv, FaultInv, [Next]_vars
    PROVE  FaultInv'
<1>1. ASSUME NEW s \in Slots, ServeHTTP(s) \/ Handle(s)
      PROVE  FaultInv'
  BY <1>1, ArrivalKeepsFaults, HandleKeepsFaults
<1>2. CASE Send
  <2>1. PICK key \in Keys : Sent(key) \/ NotSent(key)
    BY <1>2 DEF Send, TypeInv
  <2> QED BY <2>1, SentKeepsFaults, NotSentKeepsFaults
<1>3. CASE Stop \/ Drain \/ Exit \/ Crash \/ Start
  BY <1>3, LifeKeepsFaults
<1>4. CASE (\E r \in Receivers : Consume(r)) \/ CancelConsumers \/ UNCHANGED vars
  <2>1. /\ UNCHANGED <<scenario, server, requests, outgoing, paused>> /\ UNCHANGED closed
        /\ faults' = faults \/ Blame
    BY <1>4 DEF Consume, Receive, Turn, WakeUp, Handled, Failed, CancelConsumers, Cancel, vars, qvars
  <2>2. faults \in Nat /\ faults' \in Nat /\ faults <= faults' /\ Backend' = Backend
    BY <2>1, Monotone DEF Backend
  <2>3. ASSUME NEW t \in Slots
        PROVE  /\ OwedBy(requests[t], Blocked(t), faults)'
               /\ requests'[t].at = "flight" => (~Blocked(t) /\ Held(t))'
    <3>1. OwedBy(requests[t], Blocked(t), faults) /\ requests[t].attempt \in Nat
      BY AttemptsAreNumbers DEF FaultInv
    <3>2. OwedBy(requests[t], Blocked(t), faults')
      BY <2>2, <3>1, OwedLater
    <3> QED BY <2>1, <3>2 DEF FaultInv, Blocked, Held, KeyOf
  <2>4. Alive'
    BY <2>1, <2>2 DEF FaultInv, Alive, Busy
  <2> QED BY <2>3, <2>4 DEF FaultInv
<1> QED BY <1>1, <1>2, <1>3, <1>4 DEF Next

LEMMA InitFaults == Init => FaultInv
<1> SUFFICES ASSUME Init PROVE FaultInv
  OBVIOUS
<1>1. ASSUME NEW s \in Slots
      PROVE  OwedBy(requests[s], Blocked(s), faults) /\ requests[s].at # "flight"
  <2> DEFINE q == requests[s]
             b == Blocked(s)
  <2>1. q.at = "free"
    BY FreeIsIdle DEF Init
  <2>2. q.status = 0
    BY FreeIsIdle DEF Init
  <2>3. q.status # 503
    BY <2>2
  <2>4. OwedBy(q, b, faults)
    <3> HIDE DEF q, b
    <3> QED BY <2>1, <2>3, OwedDone
  <2> QED BY <2>1, <2>4
<1>2. Alive
  BY DEF Init, QueueInit, Alive
<1> QED BY <1>1, <1>2 DEF FaultInv

-----------------------------------------------------------------------------
(* A message that is put down is announced.                                  *)
LEMMA PublishKeepsQueue ==
    ASSUME QueueInv, NEW thing, Publish(thing)
    PROVE  QueueInv'
BY DEF QueueInv, NobodySleepsOnWork, Publish, Put

(* Who waits found the list empty; who took the signal looks again; who       *)
(* handles a message comes back to the list.                                  *)
LEMMA ReceiveKeepsQueue ==
    ASSUME QueueInv, NEW r \in Receivers, Receive(r)
    PROVE  QueueInv'
<1>1. CASE Turn(r)
  <2>1. CASE cancelled
    BY <1>1, <2>1 DEF Turn, QueueInv, NobodySleepsOnWork
  <2>2. CASE ~cancelled /\ messages = <<>>
    BY <1>1, <2>2 DEF Turn, QueueInv, NobodySleepsOnWork
  <2>3. CASE ~cancelled /\ messages # <<>>
    <3>1. DOMAIN loops' = Receivers /\ loops'[r].at = "handling"
      BY <1>1, <2>3 DEF Turn, QueueInv
    <3> QED BY <3>1 DEF QueueInv, NobodySleepsOnWork
  <2> QED BY <2>1, <2>2, <2>3
<1>2. CASE WakeUp(r)
  <2>1. CASE signal /\ loops' = [loops EXCEPT ![r].at = "loop"]
    <3>1. DOMAIN loops' = Receivers /\ loops'[r].at = "loop"
      BY <2>1 DEF QueueInv
    <3> QED BY <3>1 DEF QueueInv, NobodySleepsOnWork
  <2>2. CASE cancelled
    BY <1>2, <2>2 DEF WakeUp, QueueInv, NobodySleepsOnWork
  <2> QED BY <1>2, <2>1, <2>2 DEF WakeUp
<1>3. CASE Handled(r) \/ Failed(r)
  <2>1. DOMAIN loops' = Receivers /\ loops'[r].at = "loop"
    BY <1>3 DEF Handled, Failed, Idle, QueueInv
  <2> QED BY <2>1 DEF QueueInv, NobodySleepsOnWork
<1> QED BY <1>1, <1>2, <1>3 DEF Receive

LEMMA QuietKeepsQueue ==
    ASSUME QueueInv, UNCHANGED qvars
    PROVE  QueueInv'
BY DEF QueueInv, NobodySleepsOnWork, qvars

-----------------------------------------------------------------------------
(* For all slots, scenarios, receivers and limits: a message that waits in    *)
(* the in-process queue has a signal, a receiver that will look, or a server  *)
(* that is being stopped.                                                     *)
THEOREM NobodySleepsOnWorkTheorem == Spec => []NobodySleepsOnWork
<1>1. Init => QueueInv
  BY DEF Init, QueueInit, QueueInv, NobodySleepsOnWork
<1>2. QueueInv /\ [Next]_vars => QueueInv'
  <2> SUFFICES ASSUME QueueInv, [Next]_vars
               PROVE  QueueInv'
    OBVIOUS
  <2>1. ASSUME NEW s \in Slots, ServeHTTP(s) \/ Handle(s)
        PROVE  QueueInv'
    <3>1. CASE PublishMemory(s)
      <4>1. CASE closed
        BY <3>1, <4>1, QuietKeepsQueue DEF PublishMemory
      <4>2. CASE ~closed
        BY <3>1, <4>2, PublishKeepsQueue DEF PublishMemory
      <4> QED BY <4>1, <4>2
    <3>2. CASE ~PublishMemory(s)
      BY <2>1, <3>2, QuietKeepsQueue
         DEF ServeHTTP, Handle, PublishPubSub, DeadlineInFlight, ResumePublish, Backoff,
             DeadlineInBackoff, AnswerAccepted, React, Wake
    <3> QED BY <3>1, <3>2
  <2>2. CASE Send
    BY <2>2, QuietKeepsQueue DEF Send, Sent, NotSent
  <2>3. CASE Stop \/ Exit \/ Crash \/ Start
    BY <2>3, QuietKeepsQueue DEF Stop, Exit, Crash, Start
  <2>4. CASE Drain
    BY <2>4 DEF Drain, Close, QueueInv, NobodySleepsOnWork
  <2>5. ASSUME NEW r \in Receivers, Consume(r)
        PROVE  QueueInv'
    BY <2>5, ReceiveKeepsQueue DEF Consume
  <2>6. CASE CancelConsumers
    BY <2>6 DEF CancelConsumers, Cancel, QueueInv, NobodySleepsOnWork
  <2>7. CASE UNCHANGED vars
    BY <2>7, QuietKeepsQueue DEF vars
  <2> QED BY <2>1, <2>2, <2>3, <2>4, <2>5, <2>6, <2>7 DEF Next
<1>3. QueueInv => NobodySleepsOnWork
  BY DEF QueueInv
<1> QED BY <1>1, <1>2, <1>3, PTL DEF Spec

LEMMA StoryHolds == Spec => [](TypeInv /\ StoryInv)
<1>1. Init => TypeInv /\ StoryInv
  BY InitTyped, InitStory
<1>2. TypeInv /\ StoryInv /\ [Next]_vars => (TypeInv /\ StoryInv)'
  BY StepTyped, StepKeepsStory
<1> QED BY <1>1, <1>2, PTL DEF Spec

(* Whatever forges send to however many handlers over whichever queue, and    *)
(* whatever fails: nothing reaches the queue but what somebody who may ask    *)
(* did ask for, about a repository on the list, recent and not kibitz's own.  *)
THEOREM OnlyWhatWasAskedTheorem == Spec => []OnlyWhatWasAsked
<1>1. TypeInv /\ StoryInv => OnlyWhatWasAsked
  BY AskedFromStory
<1> QED BY <1>1, StoryHolds, PTL

(* Of any two events in the queue: they share their ordering and lock key     *)
(* exactly when they are about one pull request or one issue.                 *)
THEOREM OneKeyPerChangeTheorem == Spec => []OneKeyPerChange
<1>1. TypeInv /\ StoryInv => OneKeyPerChange
  BY KeysFromStory
<1> QED BY <1>1, StoryHolds, PTL

(* What the forge is answered and what a person is shown on the comment is so *)
(* at every moment, whatever fails and whenever the process ends.             *)
THEOREM AnswersTrueTheorem == Spec => []AnswersTrue
<1>1. TypeInv /\ StoryInv => AnswersTrue
  BY AnswersFromStory
<1> QED BY <1>1, StoryHolds, PTL

(* However many requests share a paused ordering key, however often it is     *)
(* paused and resumed, and whoever resumes it: a request that is answered     *)
(* with 503 in time by a server that is not being stopped has met as many     *)
(* faults as it has attempts.                                                 *)
THEOREM OneFaultOneAttemptTheorem == Spec => []OneFaultOneAttempt
<1>1. Init => FaultInv
  BY InitFaults
<1>2. TypeInv /\ StoryInv /\ FaultInv /\ [Next]_vars => FaultInv'
  BY StepKeepsFaults
<1>3. FaultInv => OneFaultOneAttempt
  BY DEF FaultInv, OwedBy, Owed, OneFaultOneAttempt
<1> QED BY <1>1, <1>2, <1>3, StoryHolds, PTL DEF Spec

-----------------------------------------------------------------------------
(* The policy takes no field from an event that it needs.                     *)
LEMMA DecisionIsValid ==
    ASSUME NEW r, WasRead(r), Decision(r).publish \/ Refused(Decision(r))
    PROVE  Valid(Decision(r).event)
<1> DEFINE e == EventRead(r)
           c == Config.policy
           f == Evaluate(c, e).event
<1>1. Raw(r, e) /\ Valid(e)
  BY NormalizedIsRaw DEF WasRead, EventRead
<1>2. Decision(r).event = f
  BY DEF Decision
<1> HIDE DEF e, c
<1>3. \/ f = e
      \/ /\ e.kind = "issue.comment" /\ Asks(c, e) /\ CommandIn(c, e) # Nil
         /\ f = [e EXCEPT !.command = CommandIn(c, e), !.kind = "issue.command"]
      \/ /\ e.kind = "comment.created" /\ Asks(c, e) /\ CommandIn(c, e) # Nil
         /\ f = [e EXCEPT !.command = CommandIn(c, e), !.kind = "command"]
  BY DEF Evaluate, EvaluateIssueComment, EvaluateComment, Skip, Accept
<1> HIDE DEF f
<1>4. ASSUME NEW kind \in {"issue.command", "command"},
             kind = "issue.command" <=> e.kind = "issue.comment",
             e.kind \in {"issue.comment", "comment.created"},
             CommandIn(c, e) # Nil, Asks(c, e),
             f = [e EXCEPT !.command = CommandIn(c, e), !.kind = kind]
      PROVE  Valid(f)
  <2>1. /\ f.delivery = e.delivery /\ f.kind = kind /\ f.repo = e.repo /\ f.pull = e.pull
        /\ f.issue = e.issue /\ f.comment = e.comment /\ f.command # Nil
    BY <1>1, <1>4 DEF Raw, Record
  <2>2. e.comment # Nil
    BY <1>4 DEF Asks
  <2>3. kind \in IssueKinds <=> e.kind \in IssueKinds
    BY <1>4 DEF IssueKinds
  <2>4. kind \in Known
    BY DEF Known, CommentKinds, IssueKinds
  <2> QED BY <1>1, <2>1, <2>2, <2>3, <2>4 DEF Valid
<1>5. Valid(f)
  BY <1>1, <1>3, <1>4
<1> QED BY <1>2, <1>5

(* What is left of the types: the waker and the faults.                       *)
Bounds == woken \subseteq Slots /\ faults \in 0 .. MayFail

LEMMA StepKeepsBounds ==
    ASSUME TypeInv, Bounds, [Next]_vars
    PROVE  Bounds'
<1>1. UNCHANGED scenario /\ (faults' = faults \/ Blame)
  BY DEF Next, ServeHTTP, Handle, PublishPubSub, PublishMemory, DeadlineInFlight, ResumePublish, Backoff,
         DeadlineInBackoff, AnswerAccepted, React, Wake, Send, Sent, NotSent, Stop, Drain, Exit, Crash,
         Start, Consume, CancelConsumers, vars
<1>2. MayFail \in Nat /\ MayFail' = MayFail
  BY <1>1, ReceiverAssumption DEF MayFail, TypeInv
<1>3. faults' \in 0 .. MayFail
  BY <1>1, <1>2 DEF Bounds, Blame
<1>4. woken' = woken \/ \E s \in Slots : woken' = woken \union {s}
  BY DEF Next, ServeHTTP, Handle, PublishPubSub, PublishMemory, DeadlineInFlight, ResumePublish, Backoff,
         DeadlineInBackoff, AnswerAccepted, React, Wake, Send, Sent, NotSent, Stop, Drain, Exit, Crash,
         Start, Consume, CancelConsumers, vars
<1> QED BY <1>2, <1>3, <1>4 DEF Bounds

LEMMA EventOfDecision ==
    ASSUME NEW r, Decide(r).event # Nil
    PROVE  Decide(r).event = <<Decision(r).event>> /\ Valid(Decision(r).event)
<1>1. ASSUME NEW d, NEW what, d = [Free EXCEPT !.at = "publish", !.event = what, !.attempt = 1]
      PROVE  d.event = what
  BY <1>1 DEF Free
<1>2. ASSUME NEW d, NEW what, d = [Free EXCEPT !.at = "react", !.event = what, !.status = 204,
                                               !.reaction = "refused"]
      PROVE  d.event = what
  BY <1>2 DEF Free
<1>3. \A code : Answer(code).event = Nil
  BY DEF Answer, Free, Nil
<1>4. CASE Publishes(r, Decide(r))
  <2>1. Decide(r).event = <<Decision(r).event>>
    BY <1>1, <1>4 DEF Publishes
  <2>2. WasRead(r) /\ Decision(r).publish
    BY <1>4 DEF Publishes
  <2> QED BY <2>1, <2>2, DecisionIsValid
<1>5. CASE Refuses(r, Decide(r))
  <2>1. Decide(r).event = <<Decision(r).event>>
    BY <1>2, <1>5 DEF Refuses
  <2>2. WasRead(r) /\ Refused(Decision(r))
    BY <1>5 DEF Refuses
  <2> QED BY <2>1, <2>2, DecisionIsValid
<1>6. CASE Answers(Decide(r))
  <2>1. PICK code \in {204, 400, 401, 405, 413, 500} : Decide(r) = Answer(code)
    BY <1>6 DEF Answers
  <2>2. Decide(r).event = Nil
    BY <1>3, <2>1
  <2> QED BY <2>2
<1> QED BY <1>4, <1>5, <1>6, Decided

LEMMA TypesFromStory ==
    ASSUME TypeInv, StoryInv, Bounds
    PROVE  TypeOK
<1>1. ASSUME NEW s \in Slots
      PROVE  /\ requests[s].at \in {"free", "publish", "flight", "failed", "backoff", "published",
                                     "react", "wake", "done", "cut"}
             /\ requests[s].attempt \in 0 .. MaxAttempts
  BY DEF TypeInv, Typed, Stages, Early
<1>2. ASSUME NEW s \in Slots
      PROVE  /\ requests[s].status \in {0, 202, 204, 400, 401, 405, 413, 500, 503}
             /\ requests[s].event # Nil => Valid(Event(s))
  <2> DEFINE q == requests[s]
  <2>1. Story(Deliveries(s), q)
    BY DEF StoryInv
  <2>3. ASSUME Works(Deliveries(s), q), Working(q)
        PROVE  /\ q.status \in {0, 202, 503}
               /\ \E r : q.event = Decide(r).event
    <3>1. q.status \in {0, 202, 503}
      BY <2>3 DEF Working
    <3>2. \E r : q.event = Decide(r).event
      BY <2>3 DEF Works
    <3> QED BY <3>1, <3>2
  <2>4. ASSUME NEW r \in Deliveries(s), IdlesOn(r, q)
        PROVE  /\ q.status \in {0, 204, 400, 401, 405, 413, 500}
               /\ q.event = Decide(r).event
    <3>1. q.status \in {0, 204, 400, 401, 405, 413, 500}
      BY <2>4, IdleIsAnswered
    <3>2. q.event = Decide(r).event
      BY <2>4 DEF IdlesOn
    <3> QED BY <3>1, <3>2
  <2>5. ASSUME NEW r, q.event = Decide(r).event, q.event # Nil
        PROVE  Valid(Event(s))
    <3>1. q.event = <<Decision(r).event>> /\ Valid(Decision(r).event)
      BY <2>5, EventOfDecision
    <3>2. requests[s].event = <<Decision(r).event>>
      BY <3>1
    <3> QED BY <3>1, <3>2 DEF Event
  <2>6. \/ q.status = 0 /\ q.event = Nil
        \/ Works(Deliveries(s), q) /\ Working(q)
        \/ \E r \in Deliveries(s) : IdlesOn(r, q)
    <3> HIDE DEF q
    <3> QED BY <2>1 DEF Story
  <2>7. q.event # Nil => Valid(Event(s))
    <3>1. q.event = Nil \/ \E r : q.event = Decide(r).event
      <4> HIDE DEF q
      <4> QED BY <2>3, <2>4, <2>6
    <3> QED BY <3>1, <2>5
  <2>8. q.status \in {0, 202, 204, 400, 401, 405, 413, 500, 503}
    <3> HIDE DEF q
    <3>1. CASE q.status = 0
      BY <3>1
    <3>2. CASE q.status \in {0, 202, 503}
      BY <3>2
    <3>3. CASE q.status \in {0, 204, 400, 401, 405, 413, 500}
      BY <3>3
    <3>4. CASE Works(Deliveries(s), q) /\ Working(q)
      BY <2>3, <3>2, <3>4
    <3>5. CASE \E r \in Deliveries(s) : IdlesOn(r, q)
      BY <2>4, <3>3, <3>5
    <3> QED BY <2>6, <3>1, <3>4, <3>5
  <2> QED BY <2>7, <2>8
<1>3. ASSUME NEW key \in DOMAIN outgoing, NEW m \in Range(outgoing[key])
      PROVE  requests[m.slot].event # Nil /\ KeyOf(m.slot) = key
  <2>1. Works(Deliveries(m.slot), requests[m.slot]) /\ KeyOf(m.slot) = key
    BY DEF StoryInv, TypeInv
  <2>2. PICK r : requests[m.slot].event = Decide(r).event /\ Decide(r).at = "publish"
    BY <2>1 DEF Works
  <2>3. requests[m.slot].event = <<Decision(r).event>>
    BY <2>2, DecisionOfWork
  <2> QED BY <2>1, <2>3 DEF Nil
<1>4. Published \union woken \subseteq Slots
  BY PublishedIs, RangeOfSeq DEF TypeInv, Bounds
<1> QED BY <1>1, <1>2, <1>3, <1>4 DEF TypeOK, TypeInv, Bounds

(* Type correctness of the server for any deliveries, queue and faults: every *)
(* event of a request holds together, and what the client holds for a key is  *)
(* of that key.                                                               *)
THEOREM TypeCorrect == Spec => []TypeOK
<1>1. Init => Bounds
  <2>1. Init => MayFail \in Nat
    BY ReceiverAssumption DEF Init, MayFail
  <2> QED BY <2>1 DEF Init, Bounds
<1>2. TypeInv /\ Bounds /\ [Next]_vars => Bounds'
  BY StepKeepsBounds
<1>3. TypeInv /\ StoryInv /\ Bounds => TypeOK
  BY TypesFromStory
<1> QED BY <1>1, <1>2, <1>3, StoryHolds, PTL DEF Spec
=============================================================================
