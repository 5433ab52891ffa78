------------------------------- MODULE Events -------------------------------
(* The normalised event every platform's webhook becomes, and what a consumer *)
(* may rely on (internal/event). What may be absent is a sequence of at most  *)
(* one element: <<>> is Go's nil. A full name is a sequence of symbols, "/"   *)
(* among them, because names nest and keys are made by joining them.          *)
EXTENDS Naturals, Sequences

Nil == <<>>

PullKinds == {"pr.opened", "pr.updated", "pr.ready_for_review", "pr.review_requested",
              "pr.closed", "pr.merged"}
IssueKinds == {"issue.comment", "issue.command"}
CommentKinds == {"comment.created", "command"} \union IssueKinds
CommandKinds == {"command", "issue.command"}
Known == PullKinds \union CommentKinds

(* A comment's path is there only on a line of the diff. *)
Comment(id, text, author, app, path, thread) ==
    [id |-> id, text |-> text, author |-> author, app |-> app,
     path |-> path, thread |-> thread]

(* Exactly one of pull request and issue, as the kind says; a comment and a   *)
(* command where the kind promises one.                                       *)
Valid(e) ==
    /\ e.delivery # ""
    /\ e.kind \in Known
    /\ e.repo # <<>>
    /\ LET about == IF e.kind \in IssueKinds THEN e.issue ELSE e.pull
           other == IF e.kind \in IssueKinds THEN e.pull ELSE e.issue
       IN  about # Nil /\ Head(about) > 0 /\ other = Nil
    /\ e.kind \in CommentKinds => e.comment # Nil
    /\ e.kind \in CommandKinds => e.command # Nil

(* What a platform's handler makes of a delivery: nothing to act on, an       *)
(* error, or an event that holds together.                                    *)
Ignored == [is |-> "ignored"]
Malformed == [is |-> "malformed"]
Normalized(e) == IF Valid(e) THEN [is |-> "event", event |-> e] ELSE Malformed

(* What every handler fills in. The age is measured from the first timestamp  *)
(* the payload has, and is 0 when it has none: then the clock is read.        *)
NewEvent(r, delivery, actor, kind) ==
    [platform |-> r.platform, delivery |-> delivery, kind |-> kind, repo |-> r.repo,
     actor |-> actor, app |-> "", pull |-> Nil, issue |-> Nil, comment |-> Nil,
     command |-> Nil, text |-> <<>>, fork |-> FALSE,
     age |-> IF r.age = Nil THEN 0 ELSE Head(r.age)]

(* The id is the platform and its delivery id: the same on a redelivery. *)
Id(e) == <<e.platform, e.delivery>>

(* Mutant: an issue and a pull request of one number share their key. *)
KeyByNumber(e) == <<e.platform, "/">> \o e.repo \o <<"/", Head(e.pull \o e.issue)>>

(* Ordering key in the queue and lock key in the store. *)
Key(e) ==
    LET place == <<e.platform, "/">> \o e.repo
    IN  IF e.issue # Nil THEN place \o <<"/", "issue", "/", Head(e.issue)>>
        ELSE IF e.pull = Nil THEN place
        ELSE place \o <<"/", Head(e.pull)>>

(* The transport carries the schema version; a build reads only its own. *)
Encode(e, version) == [version |-> version, event |-> e]
Decode(data, version) == IF data.version = version THEN <<data.event>> ELSE Nil

(* The comment a reaction goes to. *)
CommentOf(e) ==
    IF e.comment = Nil \/ e.comment[1].id = "" \/ e.pull \o e.issue = Nil THEN Nil
    ELSE <<[platform |-> e.platform, id |-> e.comment[1].id, thread |-> e.comment[1].thread,
            inline |-> e.comment[1].path # "", onIssue |-> e.pull = Nil,
            number |-> Head(e.pull \o e.issue)]>>
=============================================================================
