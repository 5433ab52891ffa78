----------------------------- MODULE GitHubHook -----------------------------
(* GitHub's webhooks (internal/webhook/github). A request r carries the       *)
(* secret it was signed with ("" when it has no signature), its headers and   *)
(* the fields of the payload that are read.                                   *)
EXTENDS Events

(* Any configured secret will do, so that one can be rotated.                 *)
Verify(secrets, r) ==
    IF secrets = {} THEN "no_secrets"
    ELSE IF r.signedWith = "" THEN "missing"
    ELSE IF r.signedWith \in secrets THEN "ok"
    ELSE "invalid"

pullRequestKind(action, merged) ==
    CASE action \in {"opened", "reopened"} -> "pr.opened"
      [] action = "synchronize" -> "pr.updated"
      [] action = "ready_for_review" -> "pr.ready_for_review"
      [] action = "review_requested" -> "pr.review_requested"
      [] action = "closed" -> IF merged THEN "pr.merged" ELSE "pr.closed"
      [] OTHER -> ""

(* A head in another repository makes a fork. *)
normalizePullRequest(r) ==
    LET kind == pullRequestKind(r.action, r.merged)
    IN  IF kind = "" THEN Ignored
        ELSE Normalized([NewEvent(r, r.delivery, r.sender, kind) EXCEPT
                 !.pull = <<r.number>>, !.text = r.title,
                 !.fork = r.headRepo # Nil /\ r.headRepo # r.repo])

(* Issues and pull requests share the event; only a member of the payload     *)
(* tells them apart. Here the comment names the app that wrote it.            *)
normalizeIssueComment(r) ==
    LET said == Comment(r.commentId, r.body, r.author, r.app, "", "")
        kind == IF r.onPull THEN "comment.created" ELSE "issue.comment"
        e == [NewEvent(r, r.delivery, r.sender, kind) EXCEPT !.comment = <<said>>]
    IN  IF r.action # "created" THEN Ignored
        ELSE IF r.onPull THEN Normalized([e EXCEPT !.pull = <<r.number>>, !.text = r.title])
        ELSE Normalized([e EXCEPT !.issue = <<r.number>>])

(* Replies are threaded under the comment that started them. *)
normalizeReviewComment(r) ==
    LET thread == IF r.inReplyTo # "" THEN r.inReplyTo ELSE r.commentId
        said == Comment(r.commentId, r.body, r.author, "", r.path, thread)
    IN  IF r.action # "created" THEN Ignored
        ELSE Normalized([NewEvent(r, r.delivery, r.sender, "comment.created") EXCEPT
                 !.pull = <<r.number>>, !.text = r.title, !.comment = <<said>>])

Normalize(r) ==
    IF r.name \notin {"pull_request", "issue_comment", "pull_request_review_comment"}
    THEN Ignored
    ELSE IF r.garbled THEN Malformed
    ELSE CASE r.name = "pull_request" -> normalizePullRequest(r)
           [] r.name = "issue_comment" -> normalizeIssueComment(r)
           [] OTHER -> normalizeReviewComment(r)
=============================================================================
