---------------------------- MODULE ReviewRequest ----------------------------
(* What a review runs with: the model, the engine and the focus the command   *)
(* that asked for it may choose (internal/worker/settings.go), those of its   *)
(* triage pass (worker/triage.go), and which deployments a worker starts with *)
(* (internal/config). A word of a command, a model and a pattern for models   *)
(* are sequences of symbols; a command is its name and its words, or Unset.   *)
EXTENDS RepoConfig

Engines == {"opencode", "pi", "adk"}
Own == ""  \* no engine but the deployment's

Without(prefix, word) == SubSeq(word, Len(prefix) + 1, Len(word))

-----------------------------------------------------------------------------
(* Only adk runs some models and not others.                                 *)
Vertex == <<"google-vertex", "/">>
IsGemini(model) ==
    LET name == IF IsPrefix(Vertex, model) THEN Without(Vertex, model) ELSE model
    IN  IsPrefix(<<"gemini-">>, name) /\ "/" \notin Range(name)
CanRun(engine, model) == engine = "adk" => IsGemini(model)

(* A worker does not start with models adk cannot run, patterns included.    *)
RequireADK(deployment) ==
    deployment.engine = "adk" =>
        /\ \A model \in {deployment.model, deployment.triageModel} \cup Range(deployment.commandModels) :
              model = <<>> \/ IsGemini(model)
        /\ ~deployment.implement
RequireCommandEngines(deployment) == deployment.commandEngines \subseteq Engines

-----------------------------------------------------------------------------
(* "--flag value" or "--flag=value". A flag on its own takes the next word,  *)
(* whatever that is.                                                         *)
FlagValues(args, flag) ==
    LET assigned == <<flag, "=">>
        read(s, word) ==
            CASE s.takes                  -> [takes |-> FALSE, values |-> Append(s.values, word)]
              [] IsPrefix(assigned, word) -> [s EXCEPT !.values = Append(@, Without(assigned, word))]
              [] OTHER                    -> [s EXCEPT !.takes = word = <<flag>>]
    IN  FoldLeft(read, [takes |-> FALSE, values |-> <<>>], args).values
ParseFlag(args, flag) ==
    LET values == FlagValues(args, flag) IN IF values = <<>> THEN <<>> ELSE Last(values)
ParseFocus(args) ==
    LET isItem(symbol) == symbol # "," IN SelectSeq(FlattenSeq(FlagValues(args, "--focus")), isItem)

FocusOf(command, focus) ==
    LET asked == IF command = Unset THEN <<>> ELSE ParseFocus(command.args)
    IN  IF asked = <<>> THEN focus ELSE asked

AskedOf(command, flag) ==
    IF command # Unset /\ command.name = "review" THEN ParseFlag(command.args, flag) ELSE <<>>

(* A request that cannot be honoured does not stop the review: it is noted.  *)
CommandModel(deployment, command, model) ==
    LET asked == AskedOf(command, "--model")
    IN  IF asked \in {<<>>, model} THEN [model |-> model, notes |-> {}]
        ELSE IF MatchAny(deployment.commandModels, asked)
        THEN [model |-> asked, notes |-> {<<"--model", asked, "used">>}]
        ELSE [model |-> model, notes |-> {<<"--model", asked, "refused">>}]

CommandEngine(deployment, command, model) ==
    LET asked == AskedOf(command, "--engine")
    IN  IF asked \in {<<>>, <<deployment.engine>>} THEN [engine |-> Own, notes |-> {}]
        ELSE IF \E e \in deployment.commandEngines \ {deployment.engine} : asked = <<e>> /\ CanRun(e, model)
        THEN [engine |-> asked[1], notes |-> {<<"--engine", asked, "used">>}]
        ELSE [engine |-> Own, notes |-> {<<"--engine", asked, "refused">>}]

-----------------------------------------------------------------------------
(* The passes of a review: request is the model and the engine it runs with. *)
Requested(deployment, command, model) ==
    LET chosen == CommandModel(deployment, command, model)
        on     == CommandEngine(deployment, command, chosen.model)
    IN  [model |-> chosen.model, engine |-> on.engine, notes |-> chosen.notes \cup on.notes]

EngineFor(deployment, request) ==
    IF request.engine = Own THEN deployment.engine ELSE request.engine

TriageModel(deployment, request) ==
    IF deployment.triageModel = <<>> THEN request.model ELSE deployment.triageModel

\* Mutant of TriageEngine: the engine the command asked for, whatever the model.
TriageAsAsked(deployment, request) == EngineFor(deployment, request)

\* The deployment's own engine takes over what the one asked for cannot run.
TriageEngine(deployment, request) ==
    IF request.engine # Own /\ ~CanRun(request.engine, TriageModel(deployment, request))
    THEN deployment.engine ELSE EngineFor(deployment, request)
=============================================================================
