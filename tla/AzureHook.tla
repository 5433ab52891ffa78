------------------------------ MODULE AzureHook ------------------------------
(* Azure DevOps' service hooks (internal/webhook/azuredevops), which sign     *)
(* nothing: basic authentication, a fixed header, or both. A URL is its host, *)
(* the organization its host names in the legacy form ("" otherwise) and its  *)
(* path; NoURL is one that does not parse. A segment that starts with "_" is  *)
(* one of the service's own routes.                                           *)
EXTENDS Events, SequencesExt, FiniteSets

NoURL == [host |-> "", legacy |-> "", path |-> <<>>]
Routes == {"_git", "_apis"}

(* Both must match where both are configured. *)
Verify(c, r) ==
    LET basic == CASE c.passwords = {} -> "ok"
                   [] c.passwords # {} /\ r.basic = Nil -> "missing"
                   [] OTHER -> IF r.basic[1] = c.user /\ r.basic[2] \in c.passwords
                               THEN "ok" ELSE "invalid"
        header == CASE c.headerValues = {} -> "ok"
                    [] c.headerValues # {} /\ r.header = "" -> "missing"
                    [] OTHER -> IF r.header \in c.headerValues THEN "ok" ELSE "invalid"
    IN  IF c.passwords = {} /\ c.headerValues = {} THEN "no_secrets"
        ELSE IF basic # "ok" THEN basic
        ELSE header

-----------------------------------------------------------------------------
(* Where a delivery came from and whose repository it is about.               *)

firstSegment(path) == IF path = <<>> \/ path[1] \in Routes THEN "" ELSE path[1]

organizationPath(u) ==
    IF u.legacy # "" \/ firstSegment(u.path) = "" THEN <<>> ELSE <<firstSegment(u.path)>>

(* The containers say it, except on a comment, where they carry no address.   *)
instanceURL(r) ==
    LET bases == SelectSeq(r.containers, LAMBDA u : u # NoURL)
        others == SelectSeq(r.urls, LAMBDA u : u # NoURL)
    IN  IF bases # <<>> THEN bases[1]
        ELSE IF others # <<>> THEN [others[1] EXCEPT !.path = organizationPath(others[1])]
        ELSE NoURL

(* The first address that names an organization: by its host, or first in its *)
(* path.                                                                      *)
organizationOf(r) ==
    LET named(u) == IF u.legacy # "" THEN u.legacy ELSE firstSegment(u.path)
        naming == SelectSeq(<<instanceURL(r)>> \o r.urls,
                            LAMBDA u : u.host # "" /\ named(u) # "")
    IN  IF naming = <<>> THEN "" ELSE named(naming[1])

(* Organization, project and repository: two projects may hold the same name. *)
fullName(organization, project, repository) ==
    LET parts == SelectSeq(<<organization, project, repository>>, LAMBDA p : p # "")
    IN  FoldLeft(LAMBDA name, p : IF name = <<>> THEN <<p>> ELSE name \o <<"/", p>>, <<>>, parts)

-----------------------------------------------------------------------------
(* The comment event nests the pull request, the others have it on top; a     *)
(* payload with neither is about nothing.                                     *)
HasPull(r) == r.nested \/ r.number # 0

(* A vote, a reviewer and a push look alike: the status decides what can be   *)
(* decided and the rest may be a push.                                        *)
pullRequestKind(r) ==
    CASE r.status = "completed" -> "pr.merged"
      [] r.status = "abandoned" -> "pr.closed"
      [] OTHER -> CASE r.name = "created" -> "pr.opened"
                    [] r.name = "merged" -> ""
                    [] OTHER -> "pr.updated"

newEvent(r, actor, kind) ==
    [NewEvent(r, r.delivery, actor, kind) EXCEPT
        !.repo = fullName(organizationOf(r), r.project, r.repository),
        !.pull = <<r.number>>, !.text = r.title, !.fork = r.fromFork]

(* Who acted is not in the payload: the author of the pull request stands in. *)
normalizePullRequest(r) ==
    IF ~HasPull(r) \/ pullRequestKind(r) = "" THEN Ignored
    ELSE Normalized(newEvent(r, r.createdBy, pullRequestKind(r)))

(* Only what a person wrote, and only once: an edit sends the same event.     *)
(* When it was written and last changed is counted back from now.             *)
normalizeComment(r) ==
    LET thread == IF r.thread # "" THEN r.thread ELSE r.commentId
        said == Comment(r.commentId, r.body, r.author, "", "", thread)
        edited == r.written # Nil /\ r.updated # Nil /\ Head(r.updated) < Head(r.written)
    IN  IF r.commentId = "" \/ ~HasPull(r) \/ r.commentType \notin {"", "text"} \/ edited
        THEN Ignored
        ELSE Normalized([newEvent(r, r.author, "comment.created") EXCEPT
                 !.comment = <<said>>, !.age = IF r.written = Nil THEN @ ELSE Head(r.written)])

Normalize(r) ==
    IF r.garbled THEN Malformed
    ELSE CASE r.name \in {"created", "updated", "merged"} -> normalizePullRequest(r)
           [] r.name = "commented" -> normalizeComment(r)
           [] OTHER -> Ignored
=============================================================================
