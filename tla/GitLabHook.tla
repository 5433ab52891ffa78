----------------------------- MODULE GitLabHook -----------------------------
(* GitLab's webhooks (internal/webhook/gitlab). A request carries a shared    *)
(* token, or the keys it was signed with, or both; when it was signed, which  *)
(* headers came along and how far its timestamp is from now.                  *)
EXTENDS Events, FiniteSets

FirstOf(values) == LET given == SelectSeq(values, LAMBDA v : v # "")
                   IN  IF given = <<>> THEN "" ELSE given[1]

(* The key GitLab keeps across retries of one delivery comes first; the event *)
(* id, which recursive webhooks share, only when nothing better arrived.      *)
deliveryID(r) == FirstOf(<<r.webhookId, r.idempotencyKey, r.eventId>>)

(* A replay with another body or an old timestamp does not verify. *)
verifySignature(keys, maxSkew, r) ==
    IF FirstOf(<<r.webhookId, r.idempotencyKey>>) = "" \/ r.skew = Nil THEN "missing"
    ELSE IF Head(r.skew) > maxSkew THEN "invalid"
    ELSE IF r.signedWith \intersect keys # {} THEN "ok"
    ELSE "invalid"

(* A signature counts whenever one is configured and sent; the shared token   *)
(* is for an instance too old to sign.                                        *)
Verify(tokens, keys, maxSkew, r) ==
    IF tokens = {} /\ keys = {} THEN "no_secrets"
    ELSE IF keys # {} /\ r.signedWith # {} THEN verifySignature(keys, maxSkew, r)
    ELSE IF r.token = "" THEN "missing"
    ELSE IF r.token \in tokens THEN "ok"
    ELSE "invalid"

(* "update" is a push, a draft made ready, a reviewer or anything else: what  *)
(* changed decides, in this order.                                            *)
mergeRequestKind(r) ==
    CASE r.action \in {"open", "reopen"} -> "pr.opened"
      [] r.action = "merge" -> "pr.merged"
      [] r.action = "close" -> "pr.closed"
      [] r.action = "update" /\ r.oldRev # "" -> "pr.updated"
      [] r.action = "update" /\ r.oldRev = "" /\ r.draft = <<TRUE, FALSE>>
            -> "pr.ready_for_review"
      [] r.action = "update" /\ r.oldRev = "" /\ r.draft # <<TRUE, FALSE>>
            /\ r.reviewers # Nil /\ Cardinality(r.reviewers[2]) > Cardinality(r.reviewers[1])
            -> "pr.review_requested"
      [] OTHER -> ""

(* A merge request of another project is a fork's. *)
normalizeMergeRequest(r) ==
    IF mergeRequestKind(r) = "" THEN Ignored
    ELSE Normalized([NewEvent(r, deliveryID(r), r.sender, mergeRequestKind(r)) EXCEPT
             !.pull = <<r.number>>, !.text = r.title,
             !.fork = r.sourceProject # 0 /\ r.targetProject # 0
                      /\ r.sourceProject # r.targetProject])

(* Notes on issues, commits and snippets, notes GitLab wrote itself and edits *)
(* are not for kibitz. Every note belongs to a discussion.                    *)
normalizeNote(r) ==
    LET thread == FirstOf(<<r.discussion, r.commentId>>)
        said == Comment(r.commentId, r.body, r.sender, "", FirstOf(r.paths), thread)
    IN  IF r.on # "MergeRequest" \/ r.system \/ r.action \notin {"", "create"} THEN Ignored
        ELSE Normalized([NewEvent(r, deliveryID(r), r.sender, "comment.created") EXCEPT
                 !.pull = <<r.number>>, !.text = r.title, !.comment = <<said>>])

Normalize(r) ==
    IF r.name \notin {"Merge Request Hook", "Note Hook"} THEN Ignored
    ELSE IF r.garbled THEN Malformed
    ELSE IF r.name = "Note Hook" THEN normalizeNote(r)
    ELSE normalizeMergeRequest(r)
=============================================================================
