----------------------------- MODULE RepoConfig -----------------------------
(* What a repository's .kibitz.yaml may say (internal/repoconfig), and the   *)
(* settings a review runs with once it is laid over the deployment's         *)
(* (internal/worker/settings.go). A path and a pattern are sequences of      *)
(* symbols; a setting the file leaves out is Unset; a guideline is the place *)
(* it was written in.                                                        *)
EXTENDS Integers, Sequences, FiniteSets, SequencesExt, Wildcard

CONSTANT Unset  \* a key the file does not have

Version == 1
Severities == <<"critical", "high", "medium", "low", "info">>
Known(severity) == severity \in Range(Severities)
Rank(severity) == CHOOSE r \in DOMAIN Severities : Severities[r] = severity

\* Anything is serious enough for a threshold that is no severity.
AtLeast(severity, threshold) ==
    Known(severity) /\ (Known(threshold) => Rank(severity) <= Rank(threshold))

Kinds == {"pr_opened", "pr_updated", "pr_ready_for_review", "pr_review_requested", "command"}

-----------------------------------------------------------------------------
(* Path patterns. translate cuts a pattern into matchers: dirs is any number *)
(* of whole directories, any is anything, segment anything but a separator.  *)
Cut(path, symbol) == IF path # <<>> /\ Last(path) = symbol THEN Front(path) ELSE path
ValidPattern(pattern) == pattern # <<>> /\ Head(pattern) # "/" /\ Cut(pattern, "/") # <<>>

Translate(pattern) ==
    LET at(i, symbol) == i <= Len(pattern) /\ pattern[i] = symbol
        from[i \in 1 .. Len(pattern) + 3] ==
            IF i > Len(pattern) THEN <<>>
            ELSE IF at(i, "*") /\ at(i + 1, "*") /\ at(i + 2, "/") THEN <<"dirs">> \o from[i + 3]
            ELSE IF at(i, "*") /\ at(i + 1, "*") THEN <<"any">> \o from[i + 2]
            ELSE IF at(i, "*") THEN <<"segment">> \o from[i + 1]
            ELSE IF at(i, "?") THEN <<"one">> \o from[i + 1]
            ELSE <<pattern[i]>> \o from[i + 1]
    IN  from[1]

\* A pattern also covers what lies under what it names.
Covers(pattern, path) ==
    LET matchers == Translate(Cut(pattern, "/"))
        end == Len(path) + 1
        ends(m, n) == CASE m = "dirs"    -> {n} \cup {k \in n + 1 .. end : path[k - 1] = "/"}
                        [] m = "any"     -> n .. end
                        [] m = "segment" -> {k \in n .. end : "/" \notin Range(SubSeq(path, n, k - 1))}
                        [] m = "one"     -> {k \in {n + 1} : k <= end /\ path[n] # "/"}
                        [] OTHER         -> {k \in {n + 1} : k <= end /\ path[n] = m}
        reach[i \in 0 .. Len(matchers)] ==
            IF i = 0 THEN {1} ELSE UNION {ends(matchers[i], n) : n \in reach[i - 1]}
    IN  \E n \in reach[Len(matchers)] : n = end \/ path[n] = "/"

Relative(path) == IF IsPrefix(<<".", "/">>, path) THEN SubSeq(path, 3, Len(path)) ELSE path
Matched(filter, path) == \E i \in DOMAIN filter : Covers(filter[i], Relative(path))

-----------------------------------------------------------------------------
(* Reading the file. Its outcome is the settings it asks for, or the reason  *)
(* none of it is used.                                                       *)
Valid(review) ==
    review # Unset =>
        /\ review.minSeverity # Unset => Known(review.minSeverity)
        /\ review.maxComments # Unset => review.maxComments >= 0
        /\ review.triggers \subseteq Kinds
        /\ \A i \in DOMAIN review.ignore : ValidPattern(review.ignore[i])

Parse(file) ==
    IF file.form # "mapping" THEN [config |-> Unset, notes |-> {}]
    ELSE IF file.config.version > Version THEN [config |-> Unset, notes |-> {}]
    ELSE [config |-> IF Valid(file.config.review) THEN file.config ELSE Unset,
          notes |-> file.config.unknown]

Or(asked, base) == IF asked = Unset THEN base ELSE asked

ApplyImplement(asked, base) ==
    IF asked = Unset THEN [base EXCEPT !.enabled = FALSE]
    ELSE [base EXCEPT !.enabled = base.deployment /\ asked.enabled = TRUE,
                      !.actors = asked.actors, !.paths = asked.paths,
                      !.commands = asked.commands]

ApplyReview(r, out) ==
    [out EXCEPT !.review = Or(r.enabled, @),
                !.skipDraft = Or(r.skipDraft, @),
                !.triggers = IF r.triggers = {} THEN @ ELSE r.triggers,
                !.language = Or(r.language, @),
                !.model = Or(r.model, @),
                !.minSeverity = Or(r.minSeverity, @),
                !.maxComments = IF r.maxComments # Unset /\ r.maxComments < @ THEN r.maxComments ELSE @,
                !.focus = IF r.focus = <<>> THEN @ ELSE r.focus,
                !.ignore = @ \o r.ignore]

Apply(config, base) ==
    LET out == [base EXCEPT
                  !.guidelines = IF config.guidelines THEN Append(@, ".kibitz.yaml") ELSE @,
                  !.answer = Or(config.answer, @),
                  !.mcp = Or(config.mcp, @),
                  !.implement = ApplyImplement(config.implement, @)]
    IN  IF config.review = Unset THEN out ELSE ApplyReview(config.review, out)

Allows(implement, actor) == actor # "" /\ actor \in implement.actors

\* No triggers at all ask for every kind.
ReviewsKind(settings, kind) ==
    settings.review /\ (settings.triggers = {} \/ kind = "command" \/ kind \in settings.triggers)

-----------------------------------------------------------------------------
(* Laying it over the deployment's settings.                                 *)
DefaultMaxComments == 20

Defaults(deployment) ==
    [review |-> TRUE, answer |-> TRUE, triggers |-> {}, mcp |-> {}, focus |-> <<>>, ignore |-> <<>>,
     implement |-> [deployment |-> deployment.implement, enabled |-> FALSE,
                    actors |-> {}, paths |-> <<>>, commands |-> <<>>],
     skipDraft |-> deployment.skipDraft, language |-> deployment.language,
     model |-> deployment.model, minSeverity |-> deployment.minSeverity,
     guidelines |-> deployment.guidelines,
     maxComments |-> IF deployment.maxComments <= 0 THEN DefaultMaxComments
                     ELSE deployment.maxComments]

\* The convention files of the default branch, in their order: found, empty,
\* too long, missing, or in an error.
GuidelinesOf(conventions) ==
    LET present(c) == c.state \in {"found", "long"}
        names == [i \in DOMAIN conventions |-> conventions[i]]
    IN  [found |-> SelectSeq(names, present),
         notes |-> {<<c.path, c.state>> : c \in {d \in Range(conventions) : d.state \in {"long", "error"}}}]

SettingsFor(deployment, conventions, file) ==
    LET read   == GuidelinesOf(conventions)
        paths  == [i \in DOMAIN read.found |-> read.found[i].path]
        base   == [Defaults(deployment) EXCEPT !.guidelines = @ \o paths]
        parsed == Parse(file)
        asked  == Apply(parsed.config, base)
        refused == asked.mcp \ deployment.servers
    IN  IF file.form \in {"missing", "unsupported"}
        THEN [settings |-> base, notes |-> read.notes]
        ELSE IF parsed.config = Unset  \* unreadable, not YAML, too new or wrong
        THEN [settings |-> base, notes |-> read.notes \cup parsed.notes \cup {<<".kibitz.yaml", "unused">>}]
        ELSE [settings |-> [asked EXCEPT !.mcp = @ \cap deployment.servers],
              notes |-> read.notes \cup parsed.notes \cup {<<s, "refused">> : s \in refused}]
=============================================================================
