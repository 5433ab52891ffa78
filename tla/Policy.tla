------------------------------- MODULE Policy -------------------------------
(* Which events are work (internal/policy). *)
EXTENDS Events, Wildcard, Markdown

-----------------------------------------------------------------------------
(* What a text asks for, once its code is stripped: speech is what is left.   *)

(* The mention has to stand on its own. *)
MentionedIn(speech, mention) ==
    /\ mention # ""
    /\ \E i \in DOMAIN speech : \E j \in DOMAIN speech[i] :
          LET w == speech[i][j]
          IN  w.says = mention /\ "name" \notin {w.before, w.after}

Mentions(text, mention) == MentionedIn(StripCode(text), mention)

knownCommands == {"review", "explain", "answer", "ignore", "help", "implement", "plan"}
issueCommands == {"implement", "plan", "help"}

(* The first line with anything on it opens with the mention and names a      *)
(* command; a first line that was all code comes up empty.                    *)
CommandNamed(text, speech, mention) ==
    LET content == {i \in DOMAIN text : text[i] # <<>>}
        first == IF content = {} THEN <<>> ELSE speech[Min(content)]
    IN  IF /\ mention # ""
           /\ Len(first) >= 2
           /\ first[1] = Word(mention)
           /\ first[2] \in {Word(c) : c \in knownCommands}
        THEN <<first[2].says>>
        ELSE Nil

ParseCommand(text, mention) == CommandNamed(text, StripCode(text), mention)

(* Reference: what a person who reads the rendered text would say it asks.    *)
AskedOf(text, mention) ==
    LET command == CommandNamed(text, Speech(text), mention)
    IN  IF ~MentionedIn(Speech(text), mention) THEN "nothing"
        ELSE IF command = Nil THEN "question"
        ELSE command[1]

-----------------------------------------------------------------------------
(* The rules. A configuration c is a record; its lists may be empty.          *)

(* Mutant: only names are compared. *)
isSelfByLogin(c, login, app) == login # "" /\ login \in c.botLogins

(* An app id survives renaming; the logins are for events that name no app.   *)
isSelf(c, login, app) ==
    \/ c.appID # "" /\ app = c.appID
    \/ login # "" /\ login \in c.botLogins

(* The comment's own author is asked about, on that platform only where the   *)
(* entry names one. Nobody to check is nobody on the list.                    *)
mayAsk(c, e) ==
    LET author == IF e.comment # Nil /\ e.comment[1].author # "" THEN e.comment[1].author
                  ELSE e.actor
    IN  \/ c.commenters = {}
        \/ /\ author # ""
           /\ \E entry \in c.commenters : /\ entry.platform \in {"", e.platform}
                                          /\ entry.login \in {"*", author}

(* The mention counts as a keyword. *)
wanted(c, e) ==
    \/ c.keywords = {}
    \/ /\ e.pull # Nil
       /\ \/ Mentions(e.text, c.mention)
          \/ \E i \in DOMAIN e.text : \E j \in DOMAIN StripCode(e.text)[i] :
                StripCode(e.text)[i][j].says \in c.keywords

Skip(reason, e) == [publish |-> FALSE, reason |-> reason, event |-> e]
Accept(e) == [publish |-> TRUE, reason |-> "accepted", event |-> e]

(* Mutant: a comment that names no command is refused aloud as well. *)
RefusedOrUnclear(decision) == decision.reason \in {"actor_not_allowed", "no_command"}

Refused(decision) == decision.reason = "actor_not_allowed"

Asks(c, e) == e.comment # Nil /\ Mentions(e.comment[1].text, c.mention)
CommandIn(c, e) == ParseCommand(e.comment[1].text, c.mention)

(* A comment on an issue is work only when it names one of the commands that  *)
(* mean something without a diff.                                             *)
EvaluateIssueComment(c, e) ==
    IF ~Asks(c, e) THEN Skip("no_mention", e)
    ELSE IF CommandIn(c, e) = Nil THEN Skip("no_command", e)
    ELSE IF CommandIn(c, e)[1] \notin issueCommands THEN Skip("command_not_for_issue", e)
    ELSE IF ~mayAsk(c, e) THEN Skip("actor_not_allowed", e)
    ELSE Accept([e EXCEPT !.command = CommandIn(c, e), !.kind = "issue.command"])

(* On a pull request a mention without a command is a question. *)
EvaluateComment(c, e) ==
    IF ~Asks(c, e) THEN Skip("no_mention", e)
    ELSE IF ~mayAsk(c, e) THEN Skip("actor_not_allowed", e)
    ELSE IF CommandIn(c, e) = Nil THEN Accept(e)
    ELSE Accept([e EXCEPT !.command = CommandIn(c, e), !.kind = "command"])

Evaluate(c, e) ==
    IF e.kind \notin Known THEN Skip("unknown_kind", e)
    ELSE IF \/ isSelf(c, e.actor, e.app)
            \/ e.comment # Nil /\ isSelf(c, e.comment[1].author, e.comment[1].app)
         THEN Skip("self_authored", e)
    ELSE IF ~MatchAny(c.allowedRepos, e.repo) THEN Skip("repo_not_allowed", e)
    ELSE IF c.maxEventAge > 0 /\ e.age > c.maxEventAge THEN Skip("stale", e)
    ELSE IF e.kind = "issue.comment" THEN EvaluateIssueComment(c, e)
    ELSE IF e.kind = "comment.created" THEN EvaluateComment(c, e)
    ELSE IF e.kind # "command" /\ ~wanted(c, e) THEN Skip("no_keyword", e)
    ELSE Accept(e)
=============================================================================
