---------------------------- MODULE ReportProofs ----------------------------
(* A review, for every deployment, repository, command, pull request and      *)
(* agent: RequestHonoured, FindingsFit and SaidOrShown hold of it.            *)
EXTENDS ReviewReport, FiniteSetTheorems, SequenceTheorems, FunctionTheorems, WellFoundedInduction, TLAPS

(* What a command may choose. Most of it is a fact about the choices, which a  *)
(* review makes anew in each pass; what it remembers of them is the invariant. *)
Inv ==
    /\ RequireCommandEngines(Deployment)
    /\ \A p \in passes :
          /\ p.engine # Deployment.engine => Runs(p) /\ p.engine \in Deployment.commandEngines
          /\ \/ p.model \in {Deployment.triageModel, Settings.model}
             \/ MatchAny(Deployment.commandModels, p.model)
    /\ talk \in {Own, Deployment.engine}
    /\ pc \in {"review", "fallback", "done"} => summary.notes = Resolved.notes \cup Request.notes

-----------------------------------------------------------------------------
(* A model is the one the review would run with, or one the deployment lets  *)
(* a comment choose; if it is not the one that was asked for, that is noted. *)
LEMMA ModelOfCommand ==
    ASSUME NEW d, NEW command, NEW model
    PROVE  LET chosen == CommandModel(d, command, model)
               asked  == AskedOf(command, "--model")
           IN  /\ chosen.model = model \/ MatchAny(d.commandModels, chosen.model)
               /\ asked \in {<<>>, chosen.model} \/ <<"--model", asked, "refused">> \in chosen.notes
<1> DEFINE asked == AskedOf(command, "--model")
<1>1. CASE asked \in {<<>>, model}
  BY <1>1 DEF CommandModel
<1>2. CASE asked \notin {<<>>, model} /\ MatchAny(d.commandModels, asked)
  BY <1>2 DEF CommandModel
<1>3. CASE asked \notin {<<>>, model} /\ ~MatchAny(d.commandModels, asked)
  BY <1>3 DEF CommandModel
<1> QED BY <1>1, <1>2, <1>3

(* An engine a command chose is another one than the deployment's, one the   *)
(* deployment lets it choose, and one that runs the model.                   *)
LEMMA EngineOfCommand ==
    ASSUME NEW d, NEW command, NEW model, RequireCommandEngines(d)
    PROVE  LET on    == CommandEngine(d, command, model)
               asked == AskedOf(command, "--engine")
           IN  /\ \/ on.engine = Own
                  \/ /\ on.engine \in d.commandEngines \ {d.engine}
                     /\ CanRun(on.engine, model)
                     /\ asked = <<on.engine>>
               /\ \/ on.engine # Own \/ asked \in {<<>>, <<d.engine>>}
                  \/ <<"--engine", asked, "refused">> \in on.notes
<1> DEFINE asked == AskedOf(command, "--engine")
           takes(e) == asked = <<e>> /\ CanRun(e, model)
<1>1. CASE asked \in {<<>>, <<d.engine>>}
  BY <1>1 DEF CommandEngine
<1>2. CASE asked \notin {<<>>, <<d.engine>>} /\ \E e \in d.commandEngines \ {d.engine} : takes(e)
  <2>1. PICK e \in d.commandEngines \ {d.engine} : takes(e)
    BY <1>2
  <2>2. CommandEngine(d, command, model) = [engine |-> asked[1], notes |-> {<<"--engine", asked, "used">>}]
    BY <1>2 DEF CommandEngine
  <2>3. asked = <<e>> /\ CanRun(e, model)
    BY <2>1
  <2>4. asked[1] = e
    BY <2>3
  <2>5. CommandEngine(d, command, model).engine = e
    BY <2>2, <2>4
  <2>6. e # Own
    BY DEF RequireCommandEngines, Engines, Own
  <2> HIDE DEF asked, takes
  <2> QED BY <2>3, <2>5, <2>6 DEF asked
<1>3. CASE asked \notin {<<>>, <<d.engine>>} /\ ~\E e \in d.commandEngines \ {d.engine} : takes(e)
  BY <1>3 DEF CommandEngine
<1> QED BY <1>1, <1>2, <1>3

(* What a review is asked to run with, both choices together.                *)
LEMMA WhatIsRequested ==
    ASSUME NEW d, NEW command, NEW model, RequireCommandEngines(d)
    PROVE  LET request == Requested(d, command, model)
               asked(flag) == AskedOf(command, flag)
               own == EngineFor(d, request)
           IN  /\ request.model = model \/ MatchAny(d.commandModels, request.model)
               /\ request.engine # Own => /\ request.engine \in d.commandEngines \ {d.engine}
                                          /\ CanRun(request.engine, request.model)
               /\ asked("--model") \in {<<>>, request.model}
                     \/ <<"--model", asked("--model"), "refused">> \in request.notes
               /\ asked("--engine") \in {<<>>, <<own>>}
                     \/ <<"--engine", asked("--engine"), "refused">> \in request.notes
<1> DEFINE chosen == CommandModel(d, command, model)
           on == CommandEngine(d, command, chosen.model)
           request == Requested(d, command, model)
<1>1. request.model = chosen.model /\ request.engine = on.engine /\ request.notes = chosen.notes \cup on.notes
  BY DEF Requested
<1>2. /\ chosen.model = model \/ MatchAny(d.commandModels, chosen.model)
      /\ \/ AskedOf(command, "--model") \in {<<>>, chosen.model}
         \/ <<"--model", AskedOf(command, "--model"), "refused">> \in chosen.notes
  BY ModelOfCommand
<1>3. /\ \/ on.engine = Own
         \/ /\ on.engine \in d.commandEngines \ {d.engine}
            /\ CanRun(on.engine, chosen.model)
            /\ AskedOf(command, "--engine") = <<on.engine>>
      /\ \/ on.engine # Own \/ AskedOf(command, "--engine") \in {<<>>, <<d.engine>>}
         \/ <<"--engine", AskedOf(command, "--engine"), "refused">> \in on.notes
  BY EngineOfCommand
<1>4. EngineFor(d, request) = IF on.engine = Own THEN d.engine ELSE on.engine
  BY <1>1 DEF EngineFor
<1> HIDE DEF chosen, on, request
<1> QED BY <1>1, <1>2, <1>3, <1>4 DEF request

-----------------------------------------------------------------------------
(* Whatever a command asked for, a pass of a review runs on an engine that    *)
(* can run its model, or on the deployment's own: the triage pass, whose      *)
(* model is another one, falls back to it (settings.go:246, triage.go:96).    *)
THEOREM PassesRun ==
    ASSUME NEW d, NEW command, NEW model, RequireCommandEngines(d)
    PROVE  LET request == Requested(d, command, model)
               triage  == TriageEngine(d, request)
               review  == EngineFor(d, request)
           IN  /\ triage # d.engine => /\ triage \in d.commandEngines
                                       /\ CanRun(triage, TriageModel(d, request))
               /\ review # d.engine => /\ review \in d.commandEngines
                                       /\ CanRun(review, request.model)
<1> DEFINE request == Requested(d, command, model)
<1>1. request.engine # Own => /\ request.engine \in d.commandEngines
                              /\ CanRun(request.engine, request.model)
  BY WhatIsRequested
<1> HIDE DEF request
<1> QED BY <1>1 DEF EngineFor, TriageEngine, request

LEMMA TriagePassFits ==
    ASSUME Inv, NEW p, p.engine = TriageEngine(Deployment, Request), p.model = TriageModel(Deployment, Request)
    PROVE  /\ p.engine # Deployment.engine => Runs(p) /\ p.engine \in Deployment.commandEngines
           /\ \/ p.model \in {Deployment.triageModel, Settings.model}
              \/ MatchAny(Deployment.commandModels, p.model)
<1>1. p.engine # Deployment.engine => Runs(p) /\ p.engine \in Deployment.commandEngines
  BY PassesRun DEF Inv, Request, Runs
<1>2. Request.model = Settings.model \/ MatchAny(Deployment.commandModels, Request.model)
  BY WhatIsRequested DEF Inv, Request
<1> QED BY <1>1, <1>2 DEF TriageModel

LEMMA ReviewPassFits ==
    ASSUME Inv
    PROVE  LET p == ReviewPass
           IN  /\ p.engine # Deployment.engine => Runs(p) /\ p.engine \in Deployment.commandEngines
               /\ \/ p.model \in {Deployment.triageModel, Settings.model}
                  \/ MatchAny(Deployment.commandModels, p.model)
<1>1. ReviewPass.engine = EngineFor(Deployment, Request) /\ ReviewPass.model = Request.model
  BY DEF ReviewPass
<1>2. ReviewPass.engine # Deployment.engine => Runs(ReviewPass) /\ ReviewPass.engine \in Deployment.commandEngines
  BY <1>1, PassesRun DEF Inv, Request, Runs
<1>3. Request.model = Settings.model \/ MatchAny(Deployment.commandModels, Request.model)
  BY WhatIsRequested DEF Inv, Request
<1> QED BY <1>1, <1>2, <1>3

(* The deployment, the settings and the request are the pull request's.       *)
LEMMA SameRequest ==
    ASSUME pull' = pull
    PROVE  /\ Deployment' = Deployment /\ Settings' = Settings /\ Resolved' = Resolved
           /\ Request' = Request /\ ReviewPass' = ReviewPass
BY DEF Deployment, Settings, Resolved, Request, ReviewPass

-----------------------------------------------------------------------------
(* Steps that ask the agent nothing and say nothing keep Inv.                *)
LEMMA QuietKeepsInv ==
    ASSUME Inv, pull' = pull, passes' = passes, talk' = talk, summary' = summary,
           pc' \in {"review", "fallback", "done"} => pc \in {"review", "fallback", "done"}
    PROVE  Inv'
BY SameRequest DEF Inv, Runs

LEMMA TriageKeepsInv ==
    ASSUME Inv, Triage
    PROVE  Inv'
<1> DEFINE pass == [mode   |-> "triage", focus |-> <<>>,
                    engine |-> TriageEngine(Deployment, Request),
                    model  |-> TriageModel(Deployment, Request)]
<1>1. pull' = pull /\ talk' = talk /\ summary' = summary /\ pc' = "agent"
  BY DEF Triage, Keep
<1>2. passes' = passes \/ passes' = passes \cup {pass}
  BY DEF Triage
<1>3. CASE passes' = passes
  BY <1>1, <1>3, QuietKeepsInv
<1>4. CASE passes' = passes \cup {pass}
  <2>1. pass.engine = TriageEngine(Deployment, Request) /\ pass.model = TriageModel(Deployment, Request)
    OBVIOUS
  <2> HIDE DEF pass
  <2>2. /\ pass.engine # Deployment.engine => Runs(pass) /\ pass.engine \in Deployment.commandEngines
        /\ \/ pass.model \in {Deployment.triageModel, Settings.model}
           \/ MatchAny(Deployment.commandModels, pass.model)
    BY <2>1, TriagePassFits
  <2> QED BY <1>1, <1>4, <2>2, SameRequest DEF Inv, Runs
<1> QED BY <1>2, <1>3, <1>4

LEMMA AgentKeepsInv ==
    ASSUME Inv, RunAgent \/ RefuseModel
    PROVE  Inv'
<1>1. pull' = pull /\ summary' = summary /\ passes' = passes \cup {ReviewPass}
  BY DEF RunAgent, RefuseModel, Keep
<1>2. pc' \notin {"review", "fallback", "done"}
  BY DEF RunAgent, RefuseModel, Fail
<1>3. talk' = talk \/ (Request.engine = Own /\ talk' = ReviewPass.engine)
  BY DEF RunAgent, RefuseModel
<1>4. talk' \in {Own, Deployment.engine}
  BY <1>3 DEF Inv, ReviewPass, EngineFor
<1> QED BY <1>1, <1>2, <1>4, ReviewPassFits, SameRequest DEF Inv, Runs

LEMMA SummaryKeepsInv ==
    ASSUME Inv, UpsertSummary \/ UpsertFindings
    PROVE  Inv'
<1>1. pull' = pull /\ passes' = passes /\ talk' = talk
  BY DEF UpsertSummary, UpsertFindings, Keep
<1>2. summary'.notes = Resolved.notes \cup Request.notes
  BY DEF UpsertSummary, UpsertFindings, Named
<1> QED BY <1>1, <1>2, SameRequest DEF Inv, Runs

LEMMA DiffKeepsInv ==
    ASSUME Inv, ReadSettings \/ FetchDiff \/ FailDiff \/ Fill \/ EndFill \/ Incremental \/ FailCompare
    PROVE  Inv'
<1>1. pull' = pull /\ passes' = passes /\ talk' = talk /\ summary' = summary
  BY DEF ReadSettings, FetchDiff, FailDiff, Fill, EndFill, Incremental, FailCompare, Got, Since, Keep, report_vars
<1>2. pc' \notin {"review", "fallback", "done"} \/ pc' = pc
  BY DEF ReadSettings, FetchDiff, FailDiff, Fill, EndFill, Incremental, FailCompare, Got, Since, Fail
<1> QED BY <1>1, <1>2, QuietKeepsInv

LEMMA PostKeepsInv ==
    ASSUME Inv, \/ FailAgent \/ FailSummary \/ CreateReviewAtOnce \/ PlaceComment \/ RefuseComment
                \/ FailReview \/ EndReview
    PROVE  Inv'
<1>1. pull' = pull /\ passes' = passes /\ talk' = talk /\ summary' = summary
  BY DEF FailAgent, FailSummary, CreateReviewAtOnce, PlaceComment, RefuseComment, FailReview, EndReview,
         Keep, report_vars
<1>2. pc' = "failed" \/ pc \in {"review", "fallback", "done"}
  BY DEF FailAgent, FailSummary, CreateReviewAtOnce, PlaceComment, RefuseComment, FailReview, EndReview,
         OneByOne, Fail
<1> QED BY <1>1, <1>2, QuietKeepsInv

-----------------------------------------------------------------------------
LEMMA InvHonours == Inv => RequestHonoured
<1> SUFFICES ASSUME Inv
             PROVE  RequestHonoured
  OBVIOUS
<1>1. /\ AskedOf(pull.command, "--model") \in {<<>>, Request.model}
            \/ <<"--model", AskedOf(pull.command, "--model"), "refused">> \in Request.notes
      /\ AskedOf(pull.command, "--engine") \in {<<>>, <<ReviewPass.engine>>}
            \/ <<"--engine", AskedOf(pull.command, "--engine"), "refused">> \in Request.notes
  BY WhatIsRequested DEF Inv, Request, ReviewPass
<1>2. pc = "done" => summary.notes = Resolved.notes \cup Request.notes
  BY DEF Inv
<1> QED BY <1>1, <1>2 DEF RequestHonoured, Inv

(* For all deployments, repositories, commands and pull requests: no engine a *)
(* command chose is given a model it cannot run, no model is one nobody       *)
(* allowed, what was refused is said, and the conversation that is remembered *)
(* is the deployment's own engine's.                                          *)
THEOREM RequestHonouredTheorem == Spec => []RequestHonoured
<1>1. Init => Inv
  BY DEF Init, Inv, Deployment
<1>2. Inv /\ [Next]_vars => Inv'
  <2> SUFFICES ASSUME Inv, [Next]_vars
               PROVE  Inv'
    OBVIOUS
  <2>1. CASE UNCHANGED vars
    BY <2>1, QuietKeepsInv DEF vars, report_vars
  <2> QED BY <2>1, TriageKeepsInv, AgentKeepsInv, SummaryKeepsInv, DiffKeepsInv, PostKeepsInv DEF Next
<1> QED BY <1>1, <1>2, InvHonours, PTL DEF Spec

-----------------------------------------------------------------------------
(* Sequences and folds over them, by induction on how far they have come.      *)

(* Induction, for the set of the numbers a fact holds of.                     *)
LEMMA Induction ==
    ASSUME NEW T, 0 \in T, \A n \in Nat : n \in T => n + 1 \in T
    PROVE  \A n \in Nat : n \in T
<1> DEFINE U == {n \in Nat : n \notin T}
<1> SUFFICES ASSUME U # {} PROVE FALSE
  OBVIOUS
<1>1. PICK k \in U : \A o \in U : ~(<<o, k>> \in OpToRel(<, Nat))
  BY NatLessThanWellFounded, WFMin
<1>2. \A o \in U : ~(o < k)
  BY <1>1 DEF OpToRel
<1>3. k - 1 \in Nat /\ k - 1 < k /\ k = (k - 1) + 1
  OBVIOUS
<1> QED BY <1>2, <1>3

(* The least number of a set of them, and the greatest of a bounded one.        *)
LEMMA Least ==
    ASSUME NEW T \in SUBSET Nat, T # {}
    PROVE  Min(T) \in T /\ \A o \in T : Min(T) <= o
<1>1. PICK k \in T : \A o \in T : ~(<<o, k>> \in OpToRel(<, Nat))
  BY NatLessThanWellFounded, WFMin
<1>2. \A o \in T : o \in Nat /\ k \in Nat
  OBVIOUS
<1>3. \A o \in T : ~(o < k)
  BY <1>1, <1>2 DEF OpToRel
<1>4. \A o \in T : k <= o
  BY <1>2, <1>3
<1>5. Min(T) = CHOOSE x \in T : \A y \in T : x <= y
  BY DEF Min
<1> QED BY <1>4, <1>5

LEMMA Greatest ==
    ASSUME NEW n \in Nat, NEW s \in SUBSET (1 .. n), s # {}
    PROVE  Max(s) \in s /\ \A e \in s : e <= Max(s)
<1> DEFINE T == {m \in Nat : \A e \in s : e <= m}
<1>1. n \in T
  OBVIOUS
<1>2. Min(T) \in T /\ \A o \in T : Min(T) <= o
  BY <1>1, Least
<1> DEFINE m == Min(T)
<1>3. m \in s
  <2> SUFFICES ASSUME m \notin s PROVE FALSE
    OBVIOUS
  <2>1. PICK e \in s : TRUE
    OBVIOUS
  <2>2. m \in Nat /\ \A d \in s : d <= m /\ d # m
    BY <1>2
  <2>3. e \in Nat /\ e < m
    BY <2>1, <2>2
  <2>4. m - 1 \in Nat /\ \A d \in s : d <= m - 1
    BY <2>2, <2>3
  <2> QED BY <1>2, <2>2, <2>4
<1>4. \A e \in s : e <= m
  BY <1>2
<1> HIDE DEF T
<1> QED BY <1>3, <1>4 DEF Max

(* The recursion over the sets of positions, the largest first, by which a   *)
(* fold is defined, has a solution.                                          *)
IsFold(h, n, base, step) ==
    h = [s \in SUBSET (1 .. n) |-> IF s = {} THEN base ELSE step[<<h[s \ {Max(s)}], Max(s)>>]]

LEMMA FoldExists ==
    ASSUME NEW n \in Nat, NEW State, NEW base \in State, NEW step \in [State \X (1 .. n) -> State]
    PROVE  \E h \in [SUBSET (1 .. n) -> State] : IsFold(h, n, base, step)
<1> DEFINE Folds(m, h) == 
             \A s \in SUBSET (1 .. m) : h[s] = IF s = {} THEN base ELSE step[<<h[s \ {Max(s)}], Max(s)>>]
           Exists(m) == m <= n => \E h \in [SUBSET (1 .. m) -> State] : Folds(m, h)
           T == {m \in Nat : Exists(m)}
<1>1. Exists(0)
  <2> DEFINE h == [s \in SUBSET (1 .. 0) |-> base]
  <2>1. h \in [SUBSET (1 .. 0) -> State] /\ 1 .. 0 = {}
    OBVIOUS
  <2>2. Folds(0, h)
    OBVIOUS
  <2> QED BY <2>1, <2>2
<1>2. ASSUME NEW m \in Nat, Exists(m)
      PROVE  Exists(m + 1)
  <2> SUFFICES ASSUME m + 1 <= n
               PROVE  \E h \in [SUBSET (1 .. m + 1) -> State] : Folds(m + 1, h)
    OBVIOUS
  <2>1. PICK g \in [SUBSET (1 .. m) -> State] : Folds(m, g)
    <3>1. m <= n
      OBVIOUS
    <3> HIDE DEF Folds
    <3> QED BY <1>2, <3>1
  <2> DEFINE h == [s \in SUBSET (1 .. m + 1) |->
                      IF m + 1 \in s THEN step[<<g[s \ {m + 1}], m + 1>>] ELSE g[s]]
  <2>2. \A s \in SUBSET (1 .. m + 1) : s \ {m + 1} \in SUBSET (1 .. m)
    OBVIOUS
  <2>3. \A s \in SUBSET (1 .. m + 1) : m + 1 \notin s => s \in SUBSET (1 .. m)
    OBVIOUS
  <2>4. m + 1 \in 1 .. n
    OBVIOUS
  <2>5. h \in [SUBSET (1 .. m + 1) -> State]
    <3> SUFFICES ASSUME NEW s \in SUBSET (1 .. m + 1)
                 PROVE  h[s] \in State
      OBVIOUS
    <3>1. CASE m + 1 \in s
      <4>1. g[s \ {m + 1}] \in State
        BY <2>2
      <4> QED BY <3>1, <4>1, <2>4
    <3>2. CASE m + 1 \notin s
      BY <2>3, <3>2
    <3> QED BY <3>1, <3>2
  <2>6. ASSUME NEW s \in SUBSET (1 .. m + 1)
        PROVE  h[s] = IF s = {} THEN base ELSE step[<<h[s \ {Max(s)}], Max(s)>>]
    <3>1. CASE m + 1 \in s
      <4>1. Max(s) = m + 1
        <5>1. m + 1 \in Nat /\ s # {}
          BY <3>1
        <5>2. Max(s) \in s /\ \A e \in s : e <= Max(s)
          BY <5>1, Greatest
        <5>3. Max(s) \in 1 .. m + 1 /\ m + 1 <= Max(s)
          BY <5>2, <3>1
        <5> QED BY <5>3
      <4>2. h[s \ {m + 1}] = g[s \ {m + 1}]
        BY <2>2
      <4>3. h[s] = step[<<g[s \ {m + 1}], m + 1>>]
        BY <3>1
      <4> HIDE DEF h
      <4> QED BY <4>1, <4>2, <4>3, <3>1
    <3>2. CASE m + 1 \notin s /\ s # {}
      <4>1. s \in SUBSET (1 .. m)
        BY <2>3, <3>2
      <4>2. Max(s) \in s
        BY <4>1, <3>2, Greatest
      <4>3. s \ {Max(s)} \in SUBSET (1 .. m) /\ m + 1 \notin s \ {Max(s)}
        BY <4>1, <3>2
      <4>4. h[s \ {Max(s)}] = g[s \ {Max(s)}] /\ h[s] = g[s]
        BY <4>3, <4>1, <3>2
      <4>5. g[s] = step[<<g[s \ {Max(s)}], Max(s)>>]
        BY <2>1, <4>1, <3>2
      <4> HIDE DEF h
      <4> QED BY <4>4, <4>5, <3>2
    <3>3. CASE s = {}
      <4>1. h[s] = g[s] /\ s \in SUBSET (1 .. m)
        BY <3>3
      <4>2. g[s] = base
        BY <2>1, <4>1, <3>3
      <4> HIDE DEF h
      <4> QED BY <3>3, <4>1, <4>2
    <3> QED BY <3>1, <3>2, <3>3
  <2> HIDE DEF h
  <2> QED BY <2>5, <2>6
<1>3. Exists(n)
  <2> HIDE DEF Exists
  <2>1. 0 \in T /\ \A m \in Nat : m \in T => m + 1 \in T
    BY <1>1, <1>2
  <2> HIDE DEF T
  <2>2. n \in T
    BY <2>1, Induction
  <2> QED BY <2>2 DEF T
<1>4. PICK h \in [SUBSET (1 .. n) -> State] : Folds(n, h)
  <2>1. n <= n
    OBVIOUS
  <2> HIDE DEF Folds
  <2> QED BY <1>3, <2>1
<1>5. IsFold(h, n, base, step)
  BY <1>4 DEF IsFold
<1> QED BY <1>5

LEMMA UpTo ==
    ASSUME NEW n \in Nat, NEW k \in 1 .. n
    PROVE  /\ 1 .. k \in SUBSET (1 .. n) /\ 1 .. k # {}
           /\ Max(1 .. k) = k
           /\ (1 .. k) \ {k} = 1 .. (k - 1)
<1>1. 1 .. k \in SUBSET (1 .. n) /\ 1 .. k # {} /\ k \in 1 .. k /\ k \in Nat
  OBVIOUS
<1>2. Max(1 .. k) \in 1 .. k /\ \A e \in 1 .. k : e <= Max(1 .. k)
  BY <1>1, Greatest
<1>3. Max(1 .. k) = k
  BY <1>1, <1>2
<1>4. (1 .. k) \ {k} = 1 .. (k - 1)
  OBVIOUS
<1> QED BY <1>1, <1>3, <1>4

(* Only, one member at a time.                                                  *)
LEMMA OnlySteps ==
    ASSUME NEW S, NEW s \in Seq(S), NEW set
    PROVE  \E at : /\ at[0] = <<>> /\ Only(s, set) = at[Len(s)]
                   /\ \A k \in 1 .. Len(s) :
                         at[k] = IF s[k] \in set THEN Append(at[k - 1], s[k]) ELSE at[k - 1]
<1> DEFINE n == Len(s)
           add(kept, e) == IF e \in set THEN Append(kept, e) ELSE kept
           Eq(h) == h = [t \in SUBSET (DOMAIN s) |-> IF t = {} THEN <<>> ELSE add(h[t \ {Max(t)}], s[Max(t)])]
           iter == CHOOSE h : Eq(h)
           step == [p \in Seq(S) \X (1 .. n) |-> add(p[1], s[p[2]])]
<1>1. n \in Nat /\ DOMAIN s = 1 .. n
  OBVIOUS
<1>2. Only(s, set) = iter[DOMAIN s]
  BY DEF Only, FoldLeft, MapThenFoldSet
<1>3. step \in [Seq(S) \X (1 .. n) -> Seq(S)]
  <2>1. ASSUME NEW r \in Seq(S), NEW i \in 1 .. n
        PROVE  add(r, s[i]) \in Seq(S)
    OBVIOUS
  <2> QED BY <2>1
<1>4. <<>> \in Seq(S)
  OBVIOUS
<1>5. PICK h \in [SUBSET (1 .. n) -> Seq(S)] : IsFold(h, n, <<>>, step)
  <2> HIDE DEF step, n
  <2> QED BY <1>1, <1>3, <1>4, FoldExists
<1>6. Eq(h)
  <2>1. ASSUME NEW t \in SUBSET (1 .. n), t # {}
        PROVE  step[<<h[t \ {Max(t)}], Max(t)>>] = add(h[t \ {Max(t)}], s[Max(t)])
    <3>1. Max(t) \in 1 .. n
      <4> HIDE DEF n
      <4> QED BY <2>1, <1>1, Greatest
    <3>2. h[t \ {Max(t)}] \in Seq(S)
      <4>1. t \ {Max(t)} \in SUBSET (1 .. n)
        OBVIOUS
      <4> HIDE DEF n
      <4> QED BY <4>1
    <3> HIDE DEF add, n
    <3> QED BY <3>1, <3>2
  <2> HIDE DEF step, add, n
  <2> QED BY <2>1, <1>5, <1>1 DEF IsFold
<1>7. Eq(iter)
  <2> HIDE DEF Eq
  <2> QED BY <1>6
<1> DEFINE at == [k \in 0 .. n |-> iter[1 .. k]]
<1>8. iter[{}] = <<>> /\ \A k \in 1 .. n : iter[1 .. k] = add(iter[1 .. (k - 1)], s[k])
  <2> HIDE DEF add, iter, n
  <2>1. iter[{}] = <<>>
    BY <1>7
  <2>2. ASSUME NEW k \in 1 .. n
        PROVE  iter[1 .. k] = add(iter[1 .. (k - 1)], s[k])
    <3>1. /\ 1 .. k \in SUBSET (1 .. n) /\ 1 .. k # {}
          /\ Max(1 .. k) = k /\ (1 .. k) \ {k} = 1 .. (k - 1)
      BY <1>1, UpTo
    <3> QED BY <1>7, <1>1, <3>1
  <2> QED BY <2>1, <2>2
<1>9. at[0] = <<>> /\ Only(s, set) = at[n] /\ \A k \in 1 .. n : at[k] = add(at[k - 1], s[k])
  <2>1. 1 .. 0 = {} /\ 0 \in 0 .. n /\ n \in 0 .. n /\ \A k \in 1 .. n : k \in 0 .. n /\ k - 1 \in 0 .. n
    BY <1>1
  <2> HIDE DEF add, iter, n
  <2> QED BY <2>1, <1>8, <1>2, <1>1
<1> HIDE DEF at, iter
<1> QED BY <1>9

(* Where the members of r are in s: in order, and every one that is in set.  *)
Picks(r, s, k, pos, set) ==
    /\ pos \in [1 .. Len(r) -> 1 .. k]
    /\ \A i, j \in 1 .. Len(r) : i < j => pos[i] < pos[j]
    /\ \A i \in 1 .. Len(r) : r[i] = s[pos[i]] /\ r[i] \in set
    /\ \A j \in 1 .. k : s[j] \in set => \E i \in 1 .. Len(r) : pos[i] = j

(* What Only picks: positions in order, and all of those in the set.            *)
LEMMA OnlyPicks ==
    ASSUME NEW S, NEW s \in Seq(S), NEW set
    PROVE  /\ Only(s, set) \in Seq(S)
           /\ \E pos : Picks(Only(s, set), s, Len(s), pos, set)
<1> DEFINE n == Len(s)
<1>1. n \in Nat
  OBVIOUS
<1>2. PICK at : /\ at[0] = <<>> /\ Only(s, set) = at[n]
                /\ \A k \in 1 .. n : at[k] = IF s[k] \in set THEN Append(at[k - 1], s[k]) ELSE at[k - 1]
  BY OnlySteps
<1> DEFINE Done(k) == k <= n => at[k] \in Seq(S) /\ \E pos : Picks(at[k], s, k, pos, set)
           T == {k \in Nat : Done(k)}
<1>3. Done(0)
  <2>1. at[0] \in Seq(S) /\ Len(at[0]) = 0
    BY <1>2
  <2>2. Picks(at[0], s, 0, [i \in {} |-> 0], set)
    BY <2>1 DEF Picks
  <2> QED BY <2>1, <2>2
<1>4. ASSUME NEW k \in Nat, Done(k)
      PROVE  Done(k + 1)
  <2> SUFFICES ASSUME k + 1 <= n
               PROVE  at[k + 1] \in Seq(S) /\ \E pos : Picks(at[k + 1], s, k + 1, pos, set)
    OBVIOUS
  <2>1. at[k] \in Seq(S) /\ \E pos : Picks(at[k], s, k, pos, set)
    BY <1>4, <1>1
  <2>2. PICK pos : Picks(at[k], s, k, pos, set)
    BY <2>1
  <2>3. at[k + 1] = IF s[k + 1] \in set THEN Append(at[k], s[k + 1]) ELSE at[k]
    <3>1. k + 1 \in 1 .. n /\ (k + 1) - 1 = k
      BY <1>1
    <3> QED BY <1>2, <3>1
  <2> DEFINE r == at[k]  m == Len(at[k])
  <2>4. r \in Seq(S) /\ m \in Nat
    BY <2>1
  <2>5. CASE s[k + 1] \in set
    <3> DEFINE q == [i \in 1 .. m + 1 |-> IF i = m + 1 THEN k + 1 ELSE pos[i]]
    <3>1. s[k + 1] \in S
      BY <1>1
    <3>2. /\ at[k + 1] = Append(r, s[k + 1]) /\ at[k + 1] \in Seq(S) /\ Len(at[k + 1]) = m + 1
          /\ \A i \in 1 .. m : at[k + 1][i] = r[i]
          /\ at[k + 1][m + 1] = s[k + 1]
      BY <2>3, <2>4, <2>5, <3>1, AppendProperties
    <3>a. \A i \in 1 .. m : pos[i] \in 1 .. k
      BY <2>2 DEF Picks
    <3> HIDE DEF r, m
    <3>3. \A i \in 1 .. m : q[i] = pos[i] /\ pos[i] \in 1 .. k /\ i \in 1 .. m + 1
      BY <3>a, <2>4
    <3>4. q[m + 1] = k + 1 /\ m + 1 \in 1 .. m + 1
      BY <2>4
    <3>5. q \in [1 .. m + 1 -> 1 .. k + 1]
      BY <3>a, <2>4
    <3>6. \A i \in 1 .. m + 1 : i = m + 1 \/ i \in 1 .. m
      BY <2>4
    <3> HIDE DEF q
    <3>7. ASSUME NEW i \in 1 .. m + 1, NEW j \in 1 .. m + 1, i < j
          PROVE  q[i] < q[j]
      <4>1. i \in 1 .. m /\ pos[i] \in 1 .. k
        BY <3>7, <3>6, <3>3, <2>4
      <4>2. CASE j = m + 1
        BY <4>1, <4>2, <3>3, <3>4
      <4>3. CASE j \in 1 .. m
        BY <4>1, <4>3, <3>3, <3>7, <2>2 DEF Picks, m, r
      <4> QED BY <4>2, <4>3, <3>6
    <3>8. ASSUME NEW i \in 1 .. m + 1
          PROVE  at[k + 1][i] = s[q[i]] /\ at[k + 1][i] \in set
      <4>1. CASE i = m + 1
        BY <4>1, <3>2, <3>4, <2>5
      <4>2. CASE i \in 1 .. m
        BY <4>2, <3>2, <3>3, <2>2 DEF Picks, m, r
      <4> QED BY <4>1, <4>2, <3>6
    <3>9. ASSUME NEW j \in 1 .. k + 1, s[j] \in set
          PROVE  \E i \in 1 .. m + 1 : q[i] = j
      <4>1. CASE j = k + 1
        BY <4>1, <3>4
      <4>2. CASE j # k + 1
        <5>1. j \in 1 .. k
          BY <4>2
        <5>2. PICK i \in 1 .. m : pos[i] = j
          BY <5>1, <3>9, <2>2 DEF Picks, m, r
        <5> QED BY <5>2, <3>3
      <4> QED BY <4>1, <4>2
    <3>10. Picks(at[k + 1], s, k + 1, q, set)
      BY <3>2, <3>5, <3>7, <3>8, <3>9 DEF Picks
    <3> QED BY <3>2, <3>10
  <2>6. CASE s[k + 1] \notin set
    <3>1. at[k + 1] = at[k]
      BY <2>3, <2>6
    <3>2. pos \in [1 .. m -> 1 .. k + 1]
      BY <2>2 DEF Picks
    <3>3. \A j \in 1 .. k + 1 : s[j] \in set => j \in 1 .. k
      BY <2>6
    <3>4. Picks(at[k], s, k + 1, pos, set)
      BY <3>2, <3>3, <2>2 DEF Picks
    <3> QED BY <3>1, <3>4, <2>1
  <2> QED BY <2>5, <2>6
<1>5. Done(n)
  <2> HIDE DEF Done
  <2>1. 0 \in T /\ \A m \in Nat : m \in T => m + 1 \in T
    BY <1>3, <1>4
  <2> HIDE DEF T
  <2>2. n \in T
    BY <2>1, <1>1, Induction
  <2> QED BY <2>2 DEF T
<1> QED BY <1>5, <1>2, <1>1

KeyOf(c) == <<c.path, c.line, c.title>>

SiftStates(C, positions) ==
    [kept : Seq({Shorten(C[i], positions) : i \in 1 .. Len(C)}), seen : SUBSET {KeyOf(C[i]) : i \in 1 .. Len(C)},
     belowSeverity : Nat, outOfDiff : Nat, duplicate : Nat]

(* One comment: it is kept, or dropped and counted.                          *)
Fit(c, positions, low) == AtLeast(c.severity, low) /\ LineAllowed(positions, c.path, c.line)
Keeps(a, b, c, positions) ==
    /\ b.kept = Append(a.kept, Shorten(c, positions)) /\ b.seen = a.seen \cup {KeyOf(c)}
    /\ b.belowSeverity + b.outOfDiff + b.duplicate = a.belowSeverity + a.outOfDiff + a.duplicate
Drops(a, b) ==
    /\ b.kept = a.kept /\ b.seen = a.seen
    /\ b.belowSeverity + b.outOfDiff + b.duplicate = a.belowSeverity + a.outOfDiff + a.duplicate + 1

LEMMA SiftCases ==
    ASSUME NEW C, NEW positions, NEW low, NEW a \in SiftStates(C, positions), NEW i \in 1 .. Len(C),
           NEW c, c = C[i], NEW b, b = SiftComment(a, c, positions, low)
    PROVE  /\ b \in SiftStates(C, positions)
           /\ IF Fit(c, positions, low) /\ KeyOf(c) \notin a.seen THEN Keeps(a, b, c, positions) ELSE Drops(a, b)
<1> DEFINE strict == ~AtLeast(c.severity, low)
           away == ~LineAllowed(positions, c.path, c.line)
           S == {Shorten(C[j], positions) : j \in 1 .. Len(C)}
           K == {KeyOf(C[j]) : j \in 1 .. Len(C)}
<1>1. /\ a.kept \in Seq(S) /\ a.seen \in SUBSET K
      /\ a.belowSeverity \in Nat /\ a.outOfDiff \in Nat /\ a.duplicate \in Nat
      /\ a = [kept |-> a.kept, seen |-> a.seen, belowSeverity |-> a.belowSeverity, outOfDiff |-> a.outOfDiff,
              duplicate |-> a.duplicate]
  BY DEF SiftStates
<1>2. Shorten(c, positions) \in S /\ KeyOf(c) \in K
  OBVIOUS
<1>x. Fit(c, positions, low) <=> ~strict /\ ~away
  BY DEF Fit
<1>y. SiftStates(C, positions) = [kept : Seq(S), seen : SUBSET K, belowSeverity : Nat, outOfDiff : Nat, duplicate : Nat]
  BY DEF SiftStates
<1>3. CASE strict
  <2>1. b = [a EXCEPT !.belowSeverity = @ + 1]
    BY <1>3 DEF SiftComment
  <2> HIDE DEF S, K, strict, away
  <2>2. b = [kept |-> a.kept, seen |-> a.seen, belowSeverity |-> a.belowSeverity + 1, outOfDiff |-> a.outOfDiff,
             duplicate |-> a.duplicate]
    BY <1>1, <2>1
  <2>3. b \in SiftStates(C, positions)
    BY <1>1, <2>2, <1>y
  <2>4. Drops(a, b)
    BY <1>1, <2>2 DEF Drops
  <2> QED BY <1>3, <1>x, <2>3, <2>4
<1>4. CASE ~strict /\ away
  <2>1. b = [a EXCEPT !.outOfDiff = @ + 1]
    BY <1>4 DEF SiftComment
  <2> HIDE DEF S, K, strict, away
  <2>2. b = [kept |-> a.kept, seen |-> a.seen, belowSeverity |-> a.belowSeverity, outOfDiff |-> a.outOfDiff + 1,
             duplicate |-> a.duplicate]
    BY <1>1, <2>1
  <2>3. b \in SiftStates(C, positions)
    BY <1>1, <2>2, <1>y
  <2>4. Drops(a, b)
    BY <1>1, <2>2 DEF Drops
  <2> QED BY <1>4, <1>x, <2>3, <2>4
<1>5. CASE ~strict /\ ~away /\ KeyOf(c) \in a.seen
  <2>1. b = [a EXCEPT !.duplicate = @ + 1]
    BY <1>5 DEF SiftComment, KeyOf
  <2> HIDE DEF S, K, strict, away
  <2>2. b = [kept |-> a.kept, seen |-> a.seen, belowSeverity |-> a.belowSeverity, outOfDiff |-> a.outOfDiff,
             duplicate |-> a.duplicate + 1]
    BY <1>1, <2>1
  <2>3. b \in SiftStates(C, positions)
    BY <1>1, <2>2, <1>y
  <2>4. Drops(a, b)
    BY <1>1, <2>2 DEF Drops
  <2> QED BY <1>5, <1>x, <2>3, <2>4
<1>6. CASE ~strict /\ ~away /\ KeyOf(c) \notin a.seen
  <2>1. b = [a EXCEPT !.seen = @ \cup {KeyOf(c)}, !.kept = Append(@, Shorten(c, positions))]
    BY <1>6 DEF SiftComment, KeyOf
  <2> HIDE DEF S, K, strict, away
  <2>2. b = [kept |-> Append(a.kept, Shorten(c, positions)), seen |-> a.seen \cup {KeyOf(c)},
             belowSeverity |-> a.belowSeverity, outOfDiff |-> a.outOfDiff, duplicate |-> a.duplicate]
    BY <1>1, <2>1
  <2>3. Append(a.kept, Shorten(c, positions)) \in Seq(S) /\ a.seen \cup {KeyOf(c)} \in SUBSET K
    BY <1>1, <1>2
  <2>4. b \in SiftStates(C, positions)
    BY <1>1, <2>2, <2>3, <1>y
  <2>5. Keeps(a, b, c, positions)
    BY <1>1, <2>2 DEF Keeps
  <2> QED BY <1>6, <1>x, <2>4, <2>5
<1> HIDE DEF strict, away
<1> QED BY <1>3, <1>4, <1>5, <1>6

(* Sift, one comment at a time.                                                 *)
LEMMA SiftSteps ==
    ASSUME NEW S, NEW C \in Seq(S), NEW positions, NEW low
    PROVE  \E at : /\ at[0] = Unsifted /\ Sift(C, positions, low) = at[Len(C)]
                   /\ \A k \in 1 .. Len(C) : at[k] = SiftComment(at[k - 1], C[k], positions, low)
<1> DEFINE n == Len(C)
           State == SiftStates(C, positions)
           op(a, c) == SiftComment(a, c, positions, low)
           Eq(h) == h = [t \in SUBSET (DOMAIN C) |-> IF t = {} THEN Unsifted ELSE op(h[t \ {Max(t)}], C[Max(t)])]
           iter == CHOOSE h : Eq(h)
           step == [p \in State \X (1 .. n) |-> op(p[1], C[p[2]])]
<1>1. n \in Nat /\ DOMAIN C = 1 .. n
  OBVIOUS
<1>2. Sift(C, positions, low) = iter[DOMAIN C]
  BY DEF Sift, FoldLeft, MapThenFoldSet
<1>3. step \in [State \X (1 .. n) -> State]
  <2>1. ASSUME NEW a \in State, NEW i \in 1 .. n
        PROVE  op(a, C[i]) \in State
    BY SiftCases
  <2> HIDE DEF op, State
  <2> QED BY <2>1
<1>4. Unsifted \in State
  BY DEF Unsifted, SiftStates
<1>5. PICK h \in [SUBSET (1 .. n) -> State] : IsFold(h, n, Unsifted, step)
  <2> HIDE DEF step, n, State
  <2> QED BY <1>1, <1>3, <1>4, FoldExists
<1>6. Eq(h)
  <2>1. ASSUME NEW t \in SUBSET (1 .. n), t # {}
        PROVE  step[<<h[t \ {Max(t)}], Max(t)>>] = op(h[t \ {Max(t)}], C[Max(t)])
    <3>1. Max(t) \in 1 .. n
      <4> HIDE DEF n
      <4> QED BY <2>1, <1>1, Greatest
    <3>2. h[t \ {Max(t)}] \in State
      <4>1. t \ {Max(t)} \in SUBSET (1 .. n)
        OBVIOUS
      <4> HIDE DEF n, State
      <4> QED BY <4>1
    <3> HIDE DEF op, n, State
    <3> QED BY <3>1, <3>2
  <2> HIDE DEF step, op, n, State
  <2> QED BY <2>1, <1>5, <1>1 DEF IsFold
<1>7. Eq(iter)
  <2> HIDE DEF Eq
  <2> QED BY <1>6
<1> DEFINE at == [k \in 0 .. n |-> iter[1 .. k]]
<1>8. iter[{}] = Unsifted /\ \A k \in 1 .. n : iter[1 .. k] = op(iter[1 .. (k - 1)], C[k])
  <2> HIDE DEF op, iter, n
  <2>1. iter[{}] = Unsifted
    BY <1>7
  <2>2. ASSUME NEW k \in 1 .. n
        PROVE  iter[1 .. k] = op(iter[1 .. (k - 1)], C[k])
    <3>1. /\ 1 .. k \in SUBSET (1 .. n) /\ 1 .. k # {}
          /\ Max(1 .. k) = k /\ (1 .. k) \ {k} = 1 .. (k - 1)
      BY <1>1, UpTo
    <3> QED BY <1>7, <1>1, <3>1
  <2> QED BY <2>1, <2>2
<1>9. at[0] = Unsifted /\ Sift(C, positions, low) = at[n] /\ \A k \in 1 .. n : at[k] = op(at[k - 1], C[k])
  <2>1. 1 .. 0 = {} /\ 0 \in 0 .. n /\ n \in 0 .. n /\ \A k \in 1 .. n : k \in 0 .. n /\ k - 1 \in 0 .. n
    BY <1>1
  <2> HIDE DEF op, iter, n
  <2> QED BY <2>1, <1>8, <1>2, <1>1
<1> HIDE DEF at, iter
<1> QED BY <1>9

(* What is kept of the first k comments comes from the positions src: the    *)
(* first of those that fit with the same key, and all of these.              *)
FirstFit(C, positions, low, i) ==
    /\ Fit(C[i], positions, low)
    /\ \A h \in 1 .. i - 1 : Fit(C[h], positions, low) => KeyOf(C[h]) # KeyOf(C[i])
Sources(C, positions, low, kept, k, src) ==
    /\ src \in [1 .. Len(kept) -> 1 .. k]
    /\ \A i, j \in 1 .. Len(kept) : i < j => src[i] < src[j]
    /\ \A j \in 1 .. Len(kept) : /\ FirstFit(C, positions, low, src[j])
                                 /\ kept[j] = Shorten(C[src[j]], positions)
    /\ \A i \in 1 .. k : FirstFit(C, positions, low, i) => \E j \in 1 .. Len(kept) : src[j] = i
Sifted(C, positions, low, a, k) ==
    /\ a \in SiftStates(C, positions)
    /\ a.seen = {KeyOf(C[i]) : i \in {h \in 1 .. k : Fit(C[h], positions, low)}}
    /\ Len(a.kept) + (a.belowSeverity + a.outOfDiff + a.duplicate) = k
    /\ \E src : Sources(C, positions, low, a.kept, k, src)

LEMMA SiftedStep ==
    ASSUME NEW S, NEW C \in Seq(S), NEW positions, NEW low, NEW k \in Nat, k + 1 <= Len(C),
           NEW a, Sifted(C, positions, low, a, k),
           NEW b, b = SiftComment(a, C[k + 1], positions, low)
    PROVE  Sifted(C, positions, low, b, k + 1)
<1> DEFINE c == C[k + 1]
           m == Len(a.kept)
           V == {Shorten(C[i], positions) : i \in 1 .. Len(C)}
           fit(i) == Fit(C[i], positions, low)
           first(i) == FirstFit(C, positions, low, i)
<1>1. k + 1 \in 1 .. Len(C) /\ a \in SiftStates(C, positions)
  BY DEF Sifted
<1>2. /\ b \in SiftStates(C, positions)
      /\ IF fit(k + 1) /\ KeyOf(c) \notin a.seen THEN Keeps(a, b, c, positions) ELSE Drops(a, b)
  BY <1>1, SiftCases
<1>3. a.kept \in Seq(V) /\ m \in Nat /\ a.belowSeverity \in Nat /\ a.outOfDiff \in Nat /\ a.duplicate \in Nat
  BY <1>1 DEF SiftStates
<1>4. b.belowSeverity \in Nat /\ b.outOfDiff \in Nat /\ b.duplicate \in Nat
  BY <1>2 DEF SiftStates
<1> DEFINE before == a.belowSeverity + a.outOfDiff + a.duplicate
           after == b.belowSeverity + b.outOfDiff + b.duplicate
<1>a. before \in Nat /\ after \in Nat
  <2>1. \A x, y, z \in Nat : x + y + z \in Nat
    OBVIOUS
  <2> QED BY <1>3, <1>4, <2>1
<1>5. PICK src : Sources(C, positions, low, a.kept, k, src)
  BY DEF Sifted
<1>6. a.seen = {KeyOf(C[i]) : i \in {h \in 1 .. k : fit(h)}}
  BY DEF Sifted
<1>7. m + before = k
  BY DEF Sifted
<1>8. first(k + 1) <=> fit(k + 1) /\ KeyOf(c) \notin a.seen
  <2>1. (k + 1) - 1 = k
    OBVIOUS
  <2>2. KeyOf(c) \notin a.seen <=> \A h \in 1 .. k : fit(h) => KeyOf(C[h]) # KeyOf(c)
    BY <1>6
  <2> QED BY <2>1, <2>2 DEF FirstFit
<1>9. CASE first(k + 1)
  <2>1. Keeps(a, b, c, positions)
    BY <1>2, <1>8, <1>9
  <2>2. b.seen = {KeyOf(C[i]) : i \in {h \in 1 .. k + 1 : fit(h)}}
    <3>1. \A i : i \in {h \in 1 .. k + 1 : fit(h)} <=> i = k + 1 \/ i \in {h \in 1 .. k : fit(h)}
      BY <1>8, <1>9
    <3>2. b.seen = a.seen \cup {KeyOf(C[k + 1])}
      BY <2>1 DEF Keeps
    <3> QED BY <3>1, <3>2, <1>6
  <2>3. /\ b.kept = Append(a.kept, Shorten(c, positions)) /\ Len(b.kept) = m + 1
        /\ \A i \in 1 .. m : b.kept[i] = a.kept[i]
        /\ b.kept[m + 1] = Shorten(c, positions)
    <3>1. Shorten(c, positions) \in V
      BY <1>1
    <3>2. b.kept = Append(a.kept, Shorten(c, positions))
      BY <2>1 DEF Keeps
    <3> HIDE DEF V
    <3> QED BY <3>1, <3>2, <1>3, AppendProperties
  <2>4. Len(b.kept) + after = k + 1
    <3>1. after = before
      BY <2>1 DEF Keeps
    <3> HIDE DEF m, before, after, V
    <3> QED BY <3>1, <2>3, <1>3, <1>a, <1>7
  <2> DEFINE q == [i \in 1 .. m + 1 |-> IF i = m + 1 THEN k + 1 ELSE src[i]]
  <2>5. \A i \in 1 .. m : src[i] \in 1 .. k
    BY <1>5 DEF Sources
  <2> HIDE DEF m
  <2>6. /\ \A i \in 1 .. m : q[i] = src[i] /\ i \in 1 .. m + 1 /\ i # m + 1
        /\ q[m + 1] = k + 1 /\ m + 1 \in 1 .. m + 1
        /\ \A i \in 1 .. m + 1 : i = m + 1 \/ i \in 1 .. m
    BY <1>3
  <2>7. q \in [1 .. m + 1 -> 1 .. k + 1]
    BY <2>5, <1>3
  <2> HIDE DEF q
  <2>8. ASSUME NEW i \in 1 .. m + 1, NEW j \in 1 .. m + 1, i < j
        PROVE  q[i] < q[j]
    <3>1. i \in 1 .. m
      BY <2>8, <2>6, <1>3
    <3>2. CASE j = m + 1
      BY <3>1, <3>2, <2>5, <2>6
    <3>3. CASE j \in 1 .. m
      BY <3>1, <3>3, <2>6, <2>8, <1>5 DEF Sources, m
    <3> QED BY <3>2, <3>3, <2>6
  <2>9. ASSUME NEW j \in 1 .. m + 1
        PROVE  first(q[j]) /\ b.kept[j] = Shorten(C[q[j]], positions)
    <3>1. CASE j = m + 1
      BY <3>1, <2>3, <2>6, <1>9
    <3>2. CASE j \in 1 .. m
      BY <3>2, <2>3, <2>6, <1>5 DEF Sources, m
    <3> QED BY <3>1, <3>2, <2>6
  <2>10. ASSUME NEW i \in 1 .. k + 1, first(i)
         PROVE  \E j \in 1 .. m + 1 : q[j] = i
    <3>1. CASE i = k + 1
      BY <3>1, <2>6
    <3>2. CASE i # k + 1
      <4>1. i \in 1 .. k
        BY <3>2
      <4>2. PICK j \in 1 .. m : src[j] = i
        BY <4>1, <2>10, <1>5 DEF Sources, m
      <4> QED BY <4>2, <2>6
    <3> QED BY <3>1, <3>2
  <2>11. Sources(C, positions, low, b.kept, k + 1, q)
    BY <2>3, <2>7, <2>8, <2>9, <2>10 DEF Sources
  <2> QED BY <1>2, <2>2, <2>4, <2>11 DEF Sifted
<1>10. CASE ~first(k + 1)
  <2>1. Drops(a, b)
    BY <1>2, <1>8, <1>10
  <2>2. b.kept = a.kept /\ b.seen = a.seen
    BY <2>1 DEF Drops
  <2>3. b.seen = {KeyOf(C[i]) : i \in {h \in 1 .. k + 1 : fit(h)}}
    <3>1. CASE ~fit(k + 1)
      <4>1. \A i : i \in {h \in 1 .. k + 1 : fit(h)} <=> i \in {h \in 1 .. k : fit(h)}
        BY <3>1
      <4> QED BY <4>1, <2>2, <1>6
    <3>2. CASE fit(k + 1) /\ KeyOf(c) \in a.seen
      <4>1. \A i : i \in {h \in 1 .. k + 1 : fit(h)} <=> i = k + 1 \/ i \in {h \in 1 .. k : fit(h)}
        BY <3>2
      <4> QED BY <4>1, <3>2, <2>2, <1>6
    <3> QED BY <3>1, <3>2, <1>8, <1>10
  <2>4. Len(b.kept) + after = k + 1
    <3>1. after = before + 1
      BY <2>1 DEF Drops
    <3>2. Len(b.kept) = m
      BY <2>2
    <3> HIDE DEF m, before, after, V
    <3> QED BY <3>1, <3>2, <1>3, <1>a, <1>7
  <2>5. src \in [1 .. m -> 1 .. k + 1]
    BY <1>5 DEF Sources
  <2>6. \A i \in 1 .. k + 1 : first(i) => i \in 1 .. k
    BY <1>10
  <2>7. Sources(C, positions, low, b.kept, k + 1, src)
    BY <2>2, <2>5, <2>6, <1>5 DEF Sources
  <2> QED BY <1>2, <2>3, <2>4, <2>7 DEF Sifted
<1> QED BY <1>9, <1>10

(* All comments sifted.                                                         *)
LEMMA SiftResult ==
    ASSUME NEW S, NEW C \in Seq(S), NEW positions, NEW low
    PROVE  Sifted(C, positions, low, Sift(C, positions, low), Len(C))
<1> DEFINE n == Len(C)
<1>1. n \in Nat
  OBVIOUS
<1>2. PICK at : /\ at[0] = Unsifted /\ Sift(C, positions, low) = at[n]
                /\ \A k \in 1 .. n : at[k] = SiftComment(at[k - 1], C[k], positions, low)
  BY SiftSteps
<1> DEFINE Done(k) == k <= n => Sifted(C, positions, low, at[k], k)
           T == {k \in Nat : Done(k)}
<1>3. Done(0)
  <2>1. at[0] \in SiftStates(C, positions)
    BY <1>2 DEF Unsifted, SiftStates
  <2>2. /\ at[0].kept = <<>> /\ at[0].seen = {}
        /\ at[0].belowSeverity = 0 /\ at[0].outOfDiff = 0 /\ at[0].duplicate = 0
    BY <1>2 DEF Unsifted
  <2>3. Sources(C, positions, low, at[0].kept, 0, [i \in {} |-> 0])
    <3>1. Len(<<>>) = 0 /\ 1 .. 0 = {}
      OBVIOUS
    <3> QED BY <2>2, <3>1 DEF Sources
  <2>4. at[0].seen = {KeyOf(C[i]) : i \in {h \in 1 .. 0 : Fit(C[h], positions, low)}}
    BY <2>2
  <2>5. Len(at[0].kept) + (at[0].belowSeverity + at[0].outOfDiff + at[0].duplicate) = 0
    BY <2>2
  <2> QED BY <2>1, <2>3, <2>4, <2>5 DEF Sifted
<1>4. ASSUME NEW k \in Nat, Done(k)
      PROVE  Done(k + 1)
  <2> SUFFICES ASSUME k + 1 <= n
               PROVE  Sifted(C, positions, low, at[k + 1], k + 1)
    OBVIOUS
  <2>1. Sifted(C, positions, low, at[k], k)
    BY <1>4, <1>1
  <2>2. at[k + 1] = SiftComment(at[k], C[k + 1], positions, low)
    <3>1. k + 1 \in 1 .. n /\ (k + 1) - 1 = k
      BY <1>1
    <3> QED BY <1>2, <3>1
  <2> QED BY <2>1, <2>2, SiftedStep
<1>5. Done(n)
  <2> HIDE DEF Done
  <2>1. 0 \in T /\ \A m \in Nat : m \in T => m + 1 \in T
    BY <1>3, <1>4
  <2> HIDE DEF T
  <2>2. n \in T
    BY <2>1, <1>1, Induction
  <2> QED BY <2>2 DEF T
<1> QED BY <1>5, <1>2, <1>1

(* The sort: a rearrangement of all that was found, by severity.             *)
Rearranges(q, n) ==
    /\ q \in [1 .. n -> 1 .. n]
    /\ \A i, j \in 1 .. n : q[i] = q[j] => i = j
    /\ \A i \in 1 .. n : \E p \in 1 .. n : q[p] = i

LEMMA OntoItself ==
    ASSUME NEW n \in Nat, NEW f \in [1 .. n -> 1 .. n], \A i, j \in 1 .. n : f[i] = f[j] => i = j
    PROVE  \A p \in 1 .. n : \E i \in 1 .. n : f[i] = p
<1>1. f \in Injection(1 .. n, 1 .. n)
  BY Fun_IsInj
<1>2. IsFiniteSet(1 .. n)
  BY FS_Interval
<1>3. f \in Surjection(1 .. n, 1 .. n)
  BY <1>1, <1>2, FS_Injection
<1>4. \A p \in 1 .. n : \E i \in DOMAIN f : f[i] = p
  BY <1>3 DEF Surjection, Range
<1> QED BY <1>4

LEMMA SortFacts ==
    ASSUME NEW S, NEW found \in Seq(S), \A i \in 1 .. Len(found) : Rank(found[i].severity) \in Int
    PROVE  \E q : /\ Rearranges(q, Len(found))
                  /\ MostSeriousFirst(found) = [p \in 1 .. Len(found) |-> found[q[p]]]
                  /\ \A p, r \in 1 .. Len(found) :
                        p < r => Rank(found[q[p]].severity) <= Rank(found[q[r]].severity)
<1> DEFINE n == Len(found)
           rank(i) == Rank(found[i].severity)
           earlier(i) == {j \in DOMAIN found : Before(found, j, i)}
           place(i) == 1 + Cardinality(earlier(i))
           q == [p \in DOMAIN found |-> CHOOSE i \in DOMAIN found : place(i) = p]
           f == [i \in 1 .. n |-> place(i)]
<1>1. n \in Nat /\ DOMAIN found = 1 .. n /\ IsFiniteSet(1 .. n) /\ Cardinality(1 .. n) = n
  <2>1. n \in Nat /\ DOMAIN found = 1 .. n
    OBVIOUS
  <2> HIDE DEF n
  <2>2. IsFiniteSet(1 .. n) /\ Cardinality(1 .. n) = n
    BY <2>1, FS_Interval
  <2> QED BY <2>1, <2>2
<1> HIDE DEF n
<1>2. \A i, j \in 1 .. n : Before(found, j, i) <=> rank(j) < rank(i) \/ (rank(j) = rank(i) /\ j < i)
  BY DEF Before
<1>r. \A i \in 1 .. n : rank(i) \in Int
  BY DEF n
<1> HIDE DEF rank
<1>3. \A i \in 1 .. n : earlier(i) = {j \in 1 .. n : rank(j) < rank(i) \/ (rank(j) = rank(i) /\ j < i)}
  BY <1>1, <1>2
<1> HIDE DEF earlier
<1>4. \A i \in 1 .. n : /\ earlier(i) \in SUBSET (1 .. n) /\ i \notin earlier(i)
                        /\ IsFiniteSet(earlier(i)) /\ Cardinality(earlier(i)) \in Nat
                        /\ Cardinality(earlier(i)) < n
  <2> SUFFICES ASSUME NEW i \in 1 .. n
               PROVE  /\ earlier(i) \in SUBSET (1 .. n) /\ i \notin earlier(i)
                      /\ IsFiniteSet(earlier(i)) /\ Cardinality(earlier(i)) \in Nat
                      /\ Cardinality(earlier(i)) < n
    OBVIOUS
  <2>1. earlier(i) \in SUBSET (1 .. n) /\ i \notin earlier(i)
    BY <1>3, <1>r
  <2>2. IsFiniteSet(earlier(i)) /\ Cardinality(earlier(i)) <= n /\ Cardinality(earlier(i)) # n
    BY <2>1, <1>1, FS_Subset
  <2>3. Cardinality(earlier(i)) \in Nat
    BY <2>2, FS_CardinalityType
  <2> QED BY <2>1, <2>2, <2>3, <1>1
<1>5. ASSUME NEW i \in 1 .. n, NEW k \in 1 .. n, i \in earlier(k)
      PROVE  place(i) < place(k)
  <2>1. earlier(i) \in SUBSET earlier(k)
    BY <1>3, <1>r, <1>5
  <2>2. i \notin earlier(i) /\ IsFiniteSet(earlier(k)) /\ Cardinality(earlier(k)) \in Nat /\ Cardinality(earlier(i)) \in Nat
    BY <1>4
  <2>3. Cardinality(earlier(i)) <= Cardinality(earlier(k)) /\ Cardinality(earlier(i)) # Cardinality(earlier(k))
    BY <2>1, <2>2, <1>5, FS_Subset
  <2> QED BY <2>2, <2>3
<1>6. \A i, k \in 1 .. n : i # k => i \in earlier(k) \/ k \in earlier(i)
  BY <1>3, <1>r
<1>7. \A i \in 1 .. n : place(i) \in 1 .. n
  BY <1>4, <1>1
<1>8. \A i, k \in 1 .. n : place(i) = place(k) => i = k
  <2> SUFFICES ASSUME NEW i \in 1 .. n, NEW k \in 1 .. n, i # k
               PROVE  place(i) # place(k)
    OBVIOUS
  <2>1. place(i) \in Int /\ place(k) \in Int
    BY <1>7
  <2>2. place(i) < place(k) \/ place(k) < place(i)
    BY <1>5, <1>6
  <2> HIDE DEF place
  <2> QED BY <2>1, <2>2
<1> HIDE DEF place
<1>9. \A p \in 1 .. n : \E i \in 1 .. n : place(i) = p
  <2>1. f \in [1 .. n -> 1 .. n] /\ \A i, k \in 1 .. n : f[i] = f[k] => i = k
    BY <1>7, <1>8
  <2>2. \A p \in 1 .. n : \E i \in 1 .. n : f[i] = p
    <3> HIDE DEF f
    <3> QED BY <2>1, <1>1, OntoItself
  <2> QED BY <2>2
<1>10. \A p \in 1 .. n : q[p] \in 1 .. n /\ place(q[p]) = p
  BY <1>9, <1>1
<1>11. q \in [1 .. n -> 1 .. n]
  BY <1>10, <1>1
<1>12. MostSeriousFirst(found) = [p \in 1 .. n |-> found[q[p]]]
  BY <1>1 DEF MostSeriousFirst, place, earlier
<1> HIDE DEF q
<1>13. \A i, j \in 1 .. n : q[i] = q[j] => i = j
  BY <1>10
<1>14. \A i \in 1 .. n : \E p \in 1 .. n : q[p] = i
  BY <1>7, <1>8, <1>10
<1>15. ASSUME NEW p \in 1 .. n, NEW r \in 1 .. n, p < r
       PROVE  rank(q[p]) <= rank(q[r])
  <2>1. q[p] \in 1 .. n /\ q[r] \in 1 .. n /\ place(q[p]) = p /\ place(q[r]) = r
    BY <1>10
  <2>2. q[r] \notin earlier(q[p])
    <3>1. q[r] \in earlier(q[p]) => place(q[r]) < place(q[p])
      BY <2>1, <1>5
    <3> QED BY <3>1, <2>1, <1>15
  <2>3. q[p] \in earlier(q[r])
    BY <2>1, <2>2, <1>6, <1>15
  <2>4. rank(q[p]) \in Int /\ rank(q[r]) \in Int
    BY <2>1, <1>r
  <2>5. rank(q[p]) < rank(q[r]) \/ rank(q[p]) = rank(q[r])
    BY <2>1, <2>3, <1>3
  <2> QED BY <2>4, <2>5
<1> QED BY <1>11, <1>12, <1>13, <1>14, <1>15 DEF n, rank, Rearranges

LEMMA LeastOfTwo ==
    ASSUME NEW x \in Int, NEW y \in Int
    PROVE  Min({x, y}) = IF x <= y THEN x ELSE y
<1> DEFINE m == IF x <= y THEN x ELSE y
<1>1. m \in {x, y} /\ \A e \in {x, y} : m <= e
  OBVIOUS
<1>2. \A e \in {x, y} : (\A o \in {x, y} : e <= o) => e = m
  OBVIOUS
<1> HIDE DEF m
<1>3. Min({x, y}) = m
  BY <1>1, <1>2 DEF Min
<1> QED BY <1>3 DEF m

LEMMA GreatestOfTwo ==
    ASSUME NEW x \in Int, NEW y \in Int
    PROVE  Max({x, y}) = IF x <= y THEN y ELSE x
<1> DEFINE m == IF x <= y THEN y ELSE x
<1>1. m \in {x, y} /\ \A e \in {x, y} : m >= e
  OBVIOUS
<1>2. \A e \in {x, y} : (\A o \in {x, y} : e >= o) => e = m
  OBVIOUS
<1> HIDE DEF m
<1>3. Max({x, y}) = m
  BY <1>1, <1>2 DEF Max
<1> QED BY <1>3 DEF m

(* The first n members of a sequence.                                        *)
LEMMA FirstOfMany ==
    ASSUME NEW S, NEW s \in Seq(S), NEW n \in Int
    PROVE  /\ First(n, s) \in Seq(S)
           /\ Len(First(n, s)) = IF n <= 0 THEN 0 ELSE IF n <= Len(s) THEN n ELSE Len(s)
           /\ \A i \in 1 .. Len(First(n, s)) : First(n, s)[i] = s[i]
<1> DEFINE k == Min({n, Len(s)})
           first == SubSeq(s, 1, k)
<1>1. Len(s) \in Nat /\ k = IF n <= Len(s) THEN n ELSE Len(s)
  BY LeastOfTwo
<1> HIDE DEF k
<1>2. k \in Int /\ \A i \in 1 .. k : s[i] \in S
  BY <1>1
<1>3. /\ first \in Seq(S) /\ Len(first) = IF 1 <= k THEN k ELSE 0
      /\ \A i \in 1 .. k : first[i] = s[1 + i - 1]
  BY <1>2, SubSeqProperties
<1> HIDE DEF first
<1>4. Len(first) = IF n <= 0 THEN 0 ELSE IF n <= Len(s) THEN n ELSE Len(s)
  BY <1>1, <1>3
<1>5. \A i \in 1 .. Len(first) : first[i] = s[i]
  BY <1>1, <1>3, <1>4
<1> QED BY <1>3, <1>4, <1>5 DEF First, first, k

LEMMA Counted ==
    ASSUME NEW n \in Nat, NEW S, NEW f \in [1 .. n -> S],
           \A i, j \in 1 .. n : f[i] = f[j] => i = j, \A e \in S : \E i \in 1 .. n : f[i] = e
    PROVE  IsFiniteSet(S) /\ Cardinality(S) = n
<1>1. IsFiniteSet(1 .. n) /\ Cardinality(1 .. n) = n
  BY FS_Interval
<1>2. f \in Surjection(1 .. n, S)
  BY DEF Surjection
<1>3. f \in Injection(1 .. n, S)
  BY Fun_IsInj
<1>4. IsFiniteSet(S) /\ (Cardinality(S) = Cardinality(1 .. n) <=> f \in Injection(1 .. n, S))
  BY <1>1, <1>2, FS_Surjection
<1> QED BY <1>1, <1>3, <1>4

-----------------------------------------------------------------------------
LEMMA RankOfKnown ==
    ASSUME NEW s, Known(s)
    PROVE  Rank(s) \in 1 .. 5 /\ Severities[Rank(s)] = s
<1>1. DOMAIN Severities = 1 .. 5
  BY DEF Severities
<1>2. \E r \in DOMAIN Severities : Severities[r] = s
  BY DEF Known, Range
<1> QED BY <1>1, <1>2 DEF Rank

LEMMA ShortenKeeps ==
    ASSUME NEW c, IsComment(c), NEW positions
    PROVE  LET f == Shorten(c, positions)
           IN  /\ f.path = c.path /\ f.line = c.line /\ f.severity = c.severity /\ f.title = c.title
               /\ [c EXCEPT !.end = f.end] = f
               /\ f.end = c.end \/ (f.end = 0 /\ ~LineAllowed(positions, c.path, c.end))
<1> DEFINE f == Shorten(c, positions)
<1>1. CASE c.end > c.line /\ ~LineAllowed(positions, c.path, c.end)
  <2>1. f = [c EXCEPT !.end = 0]
    BY <1>1 DEF Shorten
  <2>2. f = [path |-> c.path, line |-> c.line, end |-> 0, severity |-> c.severity, title |-> c.title, body |-> c.body]
    BY <2>1 DEF IsComment
  <2> QED BY <1>1, <2>1, <2>2
<1>2. CASE ~(c.end > c.line /\ ~LineAllowed(positions, c.path, c.end))
  <2>1. f = c
    BY <1>2 DEF Shorten
  <2>2. [c EXCEPT !.end = c.end] = c
    BY DEF IsComment
  <2> QED BY <2>1, <2>2
<1> QED BY <1>1, <1>2

FitKeys(C, positions, low) ==
    {KeyOf(C[i]) : i \in {h \in 1 .. Len(C) : Fit(C[h], positions, low)}}

(* Where the findings come from: each from the first comment of its key that *)
(* fits, none twice, and what is left out is no more serious.                *)
Posted(C, positions, low, findings, from) ==
    /\ from \in [1 .. Len(findings) -> 1 .. Len(C)]
    /\ \A p, r \in 1 .. Len(findings) : from[p] = from[r] => p = r
    /\ \A p \in 1 .. Len(findings) : /\ FirstFit(C, positions, low, from[p])
                                     /\ findings[p] = Shorten(C[from[p]], positions)
    /\ \A i \in 1 .. Len(C) :
          FirstFit(C, positions, low, i) =>
              \/ \E p \in 1 .. Len(findings) : from[p] = i
              \/ \A p \in 1 .. Len(findings) : Rank(C[from[p]].severity) <= Rank(C[i].severity)

(* Where a comment fits, there is a first one of its key that does.             *)
LEMMA FirstOfKey ==
    ASSUME NEW S, NEW C \in Seq(S), NEW positions, NEW low, NEW i \in 1 .. Len(C), Fit(C[i], positions, low)
    PROVE  \E h \in 1 .. i : FirstFit(C, positions, low, h) /\ KeyOf(C[h]) = KeyOf(C[i])
<1> DEFINE T == {h \in 1 .. i : Fit(C[h], positions, low) /\ KeyOf(C[h]) = KeyOf(C[i])}
<1>1. T \in SUBSET Nat /\ i \in T
  OBVIOUS
<1>2. Min(T) \in T /\ \A o \in T : Min(T) <= o
  BY <1>1, Least
<1> DEFINE h == Min(T)
<1>3. h \in T /\ h \in 1 .. i /\ \A o \in T : h <= o
  BY <1>2
<1> HIDE DEF h
<1>4. \A o \in 1 .. h - 1 : Fit(C[o], positions, low) => KeyOf(C[o]) # KeyOf(C[h])
  BY <1>3
<1> QED BY <1>3, <1>4 DEF FirstFit

(* As many are kept as there are keys that fit.                                 *)
LEMMA KeptOncePerKey ==
    ASSUME NEW S, NEW C \in Seq(S), NEW positions, NEW low, NEW kept, NEW src, Len(kept) \in Nat,
           Sources(C, positions, low, kept, Len(C), src)
    PROVE  Cardinality(FitKeys(C, positions, low)) = Len(kept)
<1> DEFINE n == Len(kept)
           K == FitKeys(C, positions, low)
           f == [j \in 1 .. n |-> KeyOf(C[src[j]])]
<1>1. n \in Nat /\ src \in [1 .. n -> 1 .. Len(C)]
  BY DEF Sources
<1>2. \A j \in 1 .. n : FirstFit(C, positions, low, src[j])
  BY DEF Sources
<1>3. \A i, j \in 1 .. n : i < j => src[i] < src[j]
  BY DEF Sources
<1>4. \A i \in 1 .. Len(C) : FirstFit(C, positions, low, i) => \E j \in 1 .. n : src[j] = i
  BY DEF Sources
<1> HIDE DEF n
<1>5. \A j \in 1 .. n : f[j] \in K
  BY <1>1, <1>2 DEF FitKeys, FirstFit
<1>6. \A i, j \in 1 .. n : i < j => f[i] # f[j]
  <2> SUFFICES ASSUME NEW i \in 1 .. n, NEW j \in 1 .. n, i < j
               PROVE  KeyOf(C[src[i]]) # KeyOf(C[src[j]])
    OBVIOUS
  <2>1. src[i] \in 1 .. src[j] - 1
    BY <1>1, <1>3
  <2> QED BY <2>1, <1>2 DEF FirstFit
<1>7. \A i, j \in 1 .. n : f[i] = f[j] => i = j
  <2> HIDE DEF f
  <2> QED BY <1>6, <1>1
<1>8. \A e \in K : \E j \in 1 .. n : f[j] = e
  <2> SUFFICES ASSUME NEW i \in 1 .. Len(C), Fit(C[i], positions, low)
               PROVE  \E j \in 1 .. n : f[j] = KeyOf(C[i])
    BY DEF FitKeys
  <2>1. PICK h \in 1 .. i : FirstFit(C, positions, low, h) /\ KeyOf(C[h]) = KeyOf(C[i])
    BY FirstOfKey
  <2>2. PICK j \in 1 .. n : src[j] = h
    BY <2>1, <1>4
  <2>3. f[j] = KeyOf(C[i])
    BY <2>1, <2>2
  <2> QED BY <2>3
<1>9. f \in [1 .. n -> K]
  BY <1>5
<1> HIDE DEF f, K
<1>10. Cardinality(K) = n
  BY <1>1, <1>7, <1>8, <1>9, Counted
<1> QED BY <1>10 DEF K, n

LEMMA KeptIsKnown ==
    ASSUME NEW c, NEW positions, NEW low, IsComment(c), Fit(c, positions, low)
    PROVE  Rank(Shorten(c, positions).severity) \in Int
<1>1. Known(c.severity)
  BY DEF Fit, AtLeast
<1> QED BY <1>1, RankOfKnown, ShortenKeeps

(* What a review keeps of an answer, whatever the agent wrote: every finding is *)
(* the first comment of its path, line and title that is serious enough and at a *)
(* line the diff shows, none of those left out is more serious than one that is *)
(* kept, there are as many as the cap allows, and the counts name all the others *)
(* (reviewer/output.go Sanitize).                                               *)
THEOREM SanitizeFacts ==
    ASSUME NEW S, NEW output, output.comments \in Seq(S),
           \A i \in 1 .. Len(output.comments) : IsComment(output.comments[i]),
           NEW positions, NEW limits, limits.maxComments \in Int
    PROVE  LET C == output.comments
               r == Sanitize(output, positions, limits)
               low == limits.minSeverity
           IN  /\ r.findings \in Seq({Shorten(C[i], positions) : i \in 1 .. Len(C)})
               /\ Len(r.findings) = Min({Cardinality(FitKeys(C, positions, low)), Max({0, limits.maxComments})})
               /\ Len(r.findings) + Dropped(r) = Len(C)
               /\ \E from : Posted(C, positions, low, r.findings, from)
<1> DEFINE C == output.comments
           low == limits.minSeverity
           a == Sift(C, positions, low)
           cap == IF limits.maxComments < 0 THEN 0 ELSE limits.maxComments
           sorted == MostSeriousFirst(a.kept)
           chosen == SubSeq(sorted, 1, Min({cap, Len(sorted)}))
           r == Sanitize(output, positions, limits)
           V == {Shorten(C[i], positions) : i \in 1 .. Len(C)}
           m == Len(a.kept)
           k == Len(chosen)
<1>1. Sifted(C, positions, low, a, Len(C))
  BY SiftResult
<1>2. r = [findings |-> chosen, outOfDiff |-> a.outOfDiff, belowSeverity |-> a.belowSeverity,
           duplicate |-> a.duplicate, excess |-> Len(sorted) - Len(chosen)]
  BY DEF Sanitize
<1>c. C \in Seq(S) /\ \A i \in 1 .. Len(C) : IsComment(C[i])
  OBVIOUS
<1>cap. cap \in Nat /\ cap = Max({0, limits.maxComments})
  BY GreatestOfTwo
<1> HIDE DEF a, r, cap, C, low
<1>3. /\ a.kept \in Seq(V)
      /\ a.belowSeverity \in Nat /\ a.outOfDiff \in Nat /\ a.duplicate \in Nat
      /\ m + (a.belowSeverity + a.outOfDiff + a.duplicate) = Len(C)
  BY <1>1 DEF Sifted, SiftStates
<1>4. PICK src : Sources(C, positions, low, a.kept, Len(C), src)
  BY <1>1 DEF Sifted
<1>5. m \in Nat /\ DOMAIN a.kept = 1 .. m
  BY <1>3
<1>6. /\ src \in [1 .. m -> 1 .. Len(C)]
      /\ \A i, j \in 1 .. m : i < j => src[i] < src[j]
      /\ \A j \in 1 .. m : FirstFit(C, positions, low, src[j]) /\ a.kept[j] = Shorten(C[src[j]], positions)
      /\ \A i \in 1 .. Len(C) : FirstFit(C, positions, low, i) => \E j \in 1 .. m : src[j] = i
  BY <1>4 DEF Sources
<1>7. Cardinality(FitKeys(C, positions, low)) = m
  BY <1>4, <1>5, <1>c, KeptOncePerKey
<1>n. m \in Nat
  BY <1>5
<1>v. a.kept \in [1 .. m -> V]
  BY <1>3, <1>5
<1> HIDE DEF V, m, sorted, chosen, k
<1>8. \A j \in 1 .. m : Rank(a.kept[j].severity) \in Int
  <2> TAKE j \in 1 .. m
  <2>1. src[j] \in 1 .. Len(C) /\ Fit(C[src[j]], positions, low) /\ a.kept[j] = Shorten(C[src[j]], positions)
    BY <1>6 DEF FirstFit
  <2>2. IsComment(C[src[j]])
    BY <2>1, <1>c
  <2> QED BY <2>1, <2>2, KeptIsKnown
<1>9. PICK q : /\ Rearranges(q, m) /\ sorted = [p \in 1 .. m |-> a.kept[q[p]]]
               /\ \A p, t \in 1 .. m : p < t => Rank(a.kept[q[p]].severity) <= Rank(a.kept[q[t]].severity)
  BY <1>3, <1>8, SortFacts DEF sorted, m
<1>10. /\ q \in [1 .. m -> 1 .. m] /\ \A i, j \in 1 .. m : q[i] = q[j] => i = j
       /\ \A i \in 1 .. m : \E p \in 1 .. m : q[p] = i
  BY <1>9 DEF Rearranges
<1>11. sorted \in Seq(V) /\ Len(sorted) = m
  <2>1. \A p \in 1 .. m : a.kept[q[p]] \in V
    BY <1>10, <1>v
  <2> QED BY <2>1, <1>9, <1>n
<1>12. /\ chosen \in Seq(V) /\ k = (IF cap <= m THEN cap ELSE m)
       /\ \A i \in 1 .. k : chosen[i] = sorted[i]
  <2>a. sorted \in Seq(V) /\ cap \in Int
    BY <1>11, <1>cap
  <2>1. /\ chosen \in Seq(V)
        /\ Len(chosen) = IF cap <= 0 THEN 0 ELSE IF cap <= Len(sorted) THEN cap ELSE Len(sorted)
        /\ \A i \in 1 .. Len(chosen) : chosen[i] = sorted[i]
    BY <2>a, FirstOfMany DEF chosen, First
  <2>2. Len(chosen) = IF cap <= m THEN cap ELSE m
    BY <2>1, <1>11, <1>n, <1>cap
  <2> QED BY <2>1, <2>2 DEF k
<1>k. k = IF cap <= m THEN cap ELSE m
  BY <1>12
<1>l. cap \in Nat
  BY <1>cap
<1>13. k \in Nat /\ k <= m /\ \A p \in 1 .. k : p \in 1 .. m
  BY <1>k, <1>l, <1>n
<1>14. k = Min({m, Max({0, limits.maxComments})})
  <2>1. Min({m, cap}) = IF m <= cap THEN m ELSE cap
    BY <1>l, <1>n, LeastOfTwo
  <2>2. k = Min({m, cap})
    BY <2>1, <1>k, <1>l, <1>n
  <2> QED BY <2>2, <1>cap
<1>15. k + Dropped(r) = Len(C)
  <2>1. /\ r.outOfDiff = a.outOfDiff /\ r.belowSeverity = a.belowSeverity /\ r.duplicate = a.duplicate
        /\ r.excess = m - k
    BY <1>2, <1>11 DEF k
  <2>2. Dropped(r) = a.outOfDiff + a.belowSeverity + a.duplicate + (m - k)
    BY <2>1 DEF Dropped
  <2> QED BY <2>2, <1>3, <1>5, <1>13
<1> DEFINE from == [p \in 1 .. k |-> src[q[p]]]
<1>16. from \in [1 .. k -> 1 .. Len(C)]
  BY <1>6, <1>10, <1>13
<1>17. \A p, t \in 1 .. k : from[p] = from[t] => p = t
  <2>1. \A i, j \in 1 .. m : src[i] = src[j] => i = j
    BY <1>6, <1>5
  <2> QED BY <2>1, <1>10, <1>13
<1>18. \A p \in 1 .. k : FirstFit(C, positions, low, from[p]) /\ chosen[p] = Shorten(C[from[p]], positions)
  BY <1>6, <1>9, <1>10, <1>12, <1>13
<1>19. ASSUME NEW i \in 1 .. Len(C), FirstFit(C, positions, low, i), ~\E p \in 1 .. k : from[p] = i
       PROVE  \A p \in 1 .. k : Rank(C[from[p]].severity) <= Rank(C[i].severity)
  <2>1. PICK j \in 1 .. m : src[j] = i
    BY <1>6, <1>19
  <2>2. PICK t \in 1 .. m : q[t] = j
    BY <1>10
  <2>3. t > k
    BY <2>1, <2>2, <1>19, <1>13
  <2> HIDE DEF from
  <2> TAKE p \in 1 .. k
  <2>a. p \in 1 .. m /\ p < t
    BY <2>3, <1>13, <1>n
  <2>4. p \in 1 .. m /\ p < t /\ q[p] \in 1 .. m
    BY <2>a, <1>10
  <2>5. Rank(a.kept[q[p]].severity) <= Rank(a.kept[j].severity)
    BY <2>2, <2>4, <1>9
  <2>6. a.kept[q[p]].severity = C[from[p]].severity /\ a.kept[j].severity = C[i].severity
    <3>1. \A h \in 1 .. m : src[h] \in 1 .. Len(C) /\ a.kept[h] = Shorten(C[src[h]], positions)
      BY <1>6
    <3>2. \A h \in 1 .. m : a.kept[h].severity = C[src[h]].severity
      BY <3>1, <1>c, ShortenKeeps
    <3> QED BY <3>2, <2>1, <2>4 DEF from
  <2> QED BY <2>5, <2>6
<1> HIDE DEF from
<1>20. Posted(C, positions, low, chosen, from)
  BY <1>16, <1>17, <1>18, <1>19 DEF Posted, k
<1> QED BY <1>2, <1>7, <1>12, <1>14, <1>15, <1>20 DEF C, low, r, V, k

ReadStates == [lines : SUBSET Int, current : Int]

(* What one raw line does to what was read.                                  *)
LEMMA ReadCases ==
    ASSUME NEW a \in ReadStates, NEW raw, raw.tag = "@@" => raw.new.start \in Nat
    PROVE  /\ raw.tag = "@@" /\ raw.new.start <= 0 => ReadRaw(a, raw) = a
           /\ raw.tag = "@@" /\ raw.new.start > 0 =>
                 ReadRaw(a, raw) = [lines |-> a.lines, current |-> raw.new.start]
           /\ raw.tag # "@@" /\ (a.current = 0 \/ raw.tag \in {"-", "no newline"}) => ReadRaw(a, raw) = a
           /\ raw.tag # "@@" /\ a.current # 0 /\ raw.tag \notin {"-", "no newline"} =>
                 ReadRaw(a, raw) = [lines |-> a.lines \cup {a.current}, current |-> a.current + 1]
<1>1. a = [lines |-> a.lines, current |-> a.current]
  BY DEF ReadStates
<1>2. raw.tag = "@@" /\ raw.new.start <= 0 => ReadRaw(a, raw) = a
  BY DEF ReadRaw
<1>3. raw.tag = "@@" /\ raw.new.start > 0 => ReadRaw(a, raw) = [lines |-> a.lines, current |-> raw.new.start]
  BY DEF ReadRaw
<1>4. raw.tag # "@@" /\ (a.current = 0 \/ raw.tag \in {"-", "no newline"}) => ReadRaw(a, raw) = a
  BY DEF ReadRaw
<1>5. raw.tag # "@@" /\ a.current # 0 /\ raw.tag \notin {"-", "no newline"} =>
         ReadRaw(a, raw) = [lines |-> a.lines \cup {a.current}, current |-> a.current + 1]
  BY DEF ReadRaw
<1> QED BY <1>2, <1>3, <1>4, <1>5

LEMMA PatchIsSequence ==
    ASSUME NEW patch, NEW ended, WellFormed(patch, ended)
    PROVE  Len(patch) \in Nat /\ DOMAIN patch = 1 .. Len(patch)
<1>1. patch \in Seq(Range(patch))
  BY DEF WellFormed
<1> DEFINE R == Range(patch)
<1> HIDE DEF R
<1>2. patch \in Seq(R)
  BY <1>1 DEF R
<1> QED BY <1>2

LEMMA ReadStays ==
    ASSUME NEW patch, NEW ended, WellFormed(patch, ended), NEW a \in ReadStates, NEW i \in 1 .. Len(patch)
    PROVE  ReadRaw(a, patch[i]) \in ReadStates
<1> DEFINE raw == patch[i]
           b == ReadRaw(a, raw)
<1>1. a = [lines |-> a.lines, current |-> a.current] /\ a.lines \in SUBSET Int /\ a.current \in Int
  BY DEF ReadStates
<1>2. raw.tag = "@@" => raw.new.start \in Nat
  BY PatchIsSequence DEF WellFormed, Heads
<1> HIDE DEF raw
<1>3. raw.tag = "@@" => raw.new.start <= 0 \/ raw.new.start > 0
  BY <1>2
<1>4. \/ b = a
      \/ raw.tag = "@@" /\ b = [lines |-> a.lines, current |-> raw.new.start]
      \/ b = [lines |-> a.lines \cup {a.current}, current |-> a.current + 1]
  BY ReadCases, <1>2, <1>3, Zenon
<1> HIDE DEF b
<1>5. CASE raw.tag = "@@" /\ b = [lines |-> a.lines, current |-> raw.new.start]
  <2>1. \E x : x \in Int /\ b = [lines |-> a.lines, current |-> x]
    <3>1. raw.new.start \in Int
      BY <1>2, <1>5
    <3> QED BY <1>5, <3>1, Zenon
  <2>2. b \in ReadStates
    BY <1>1, <2>1 DEF ReadStates
  <2> QED BY <2>2 DEF b, raw
<1>6. CASE ~(raw.tag = "@@" /\ b = [lines |-> a.lines, current |-> raw.new.start])
  <2>1. b = a \/ b = [lines |-> a.lines \cup {a.current}, current |-> a.current + 1]
    BY <1>4, <1>6, Zenon
  <2>2. b \in ReadStates
    BY <1>1, <2>1 DEF ReadStates
  <2> QED BY <2>2 DEF b, raw
<1> QED BY <1>5, <1>6

(* CommentableLines, one raw line at a time.                                    *)
LEMMA PatchSteps ==
    ASSUME NEW patch, NEW ended, WellFormed(patch, ended)
    PROVE  \E at : /\ at[0] = [lines |-> {}, current |-> 0]
                   /\ CommentableLines(patch) = at[Len(patch)].lines
                   /\ \A k \in 1 .. Len(patch) : at[k] = ReadRaw(at[k - 1], patch[k])
<1> DEFINE n == Len(patch)
           State == ReadStates
           base == [lines |-> {}, current |-> 0]
           Eq(h) == h = [t \in SUBSET (DOMAIN patch) |->
                            IF t = {} THEN base ELSE ReadRaw(h[t \ {Max(t)}], patch[Max(t)])]
           iter == CHOOSE h : Eq(h)
           step == [p \in State \X (1 .. n) |-> ReadRaw(p[1], patch[p[2]])]
<1>1. n \in Nat /\ DOMAIN patch = 1 .. n
  BY PatchIsSequence
<1>2. CommentableLines(patch) = iter[DOMAIN patch].lines
  BY DEF CommentableLines, FoldLeft, MapThenFoldSet
<1>3. step \in [State \X (1 .. n) -> State]
  <2>1. \A a \in State, i \in 1 .. n : ReadRaw(a, patch[i]) \in State
    BY ReadStays
  <2> HIDE DEF State
  <2> QED BY <2>1
<1>4. base \in State
  BY DEF ReadStates
<1>5. PICK h \in [SUBSET (1 .. n) -> State] : IsFold(h, n, base, step)
  <2> HIDE DEF step, n, State, base
  <2> QED BY <1>1, <1>3, <1>4, FoldExists
<1>6. Eq(h)
  <2>1. ASSUME NEW t \in SUBSET (1 .. n), t # {}
        PROVE  step[<<h[t \ {Max(t)}], Max(t)>>] = ReadRaw(h[t \ {Max(t)}], patch[Max(t)])
    <3>1. Max(t) \in 1 .. n
      <4> HIDE DEF n
      <4> QED BY <2>1, <1>1, Greatest
    <3>2. h[t \ {Max(t)}] \in State
      <4>1. t \ {Max(t)} \in SUBSET (1 .. n)
        OBVIOUS
      <4> HIDE DEF n, State
      <4> QED BY <4>1
    <3> HIDE DEF n, State
    <3> QED BY <3>1, <3>2
  <2> HIDE DEF step, n, State, base
  <2> QED BY <2>1, <1>5, <1>1 DEF IsFold
<1>7. Eq(iter)
  <2> HIDE DEF Eq
  <2> QED BY <1>6
<1> DEFINE at == [k \in 0 .. n |-> iter[1 .. k]]
<1>8. iter[{}] = base /\ \A k \in 1 .. n : iter[1 .. k] = ReadRaw(iter[1 .. (k - 1)], patch[k])
  <2> HIDE DEF iter, n, base
  <2>1. iter[{}] = base
    BY <1>7
  <2>2. ASSUME NEW k \in 1 .. n
        PROVE  iter[1 .. k] = ReadRaw(iter[1 .. (k - 1)], patch[k])
    <3>1. /\ 1 .. k \in SUBSET (1 .. n) /\ 1 .. k # {}
          /\ Max(1 .. k) = k /\ (1 .. k) \ {k} = 1 .. (k - 1)
      BY <1>1, UpTo
    <3> QED BY <1>7, <1>1, <3>1
  <2> QED BY <2>1, <2>2
<1>9. at[0] = base /\ CommentableLines(patch) = at[n].lines /\ \A k \in 1 .. n : at[k] = ReadRaw(at[k - 1], patch[k])
  <2>1. 1 .. 0 = {} /\ 0 \in 0 .. n /\ n \in 0 .. n /\ \A k \in 1 .. n : k \in 0 .. n /\ k - 1 \in 0 .. n
    BY <1>1
  <2> HIDE DEF iter, n, base
  <2> QED BY <2>1, <1>8, <1>2, <1>1
<1> HIDE DEF at, iter
<1> QED BY <1>9

(* The lines of the new side that the hunk at h has shown after k raw lines. *)
SoFar(patch, h, k) == {p \in 1 .. k : /\ p > h /\ patch[p].tag \in {" ", "+", ""}
                                      /\ \A g \in Heads(patch) : g > h => p < g}
NewStart(patch, h) == patch[h].new.start
Latest(patch, h, k) == h \in Heads(patch) /\ h <= k /\ \A g \in Heads(patch) : g <= k => g <= h

HunksRead(patch, s, k) ==
    /\ \A h : Latest(patch, h, k) =>
          s.current = IF NewStart(patch, h) = 0 THEN 0
                      ELSE NewStart(patch, h) + Cardinality(SoFar(patch, h, k))
    /\ \A line : line \in s.lines <=>
          /\ line \in Int
          /\ \E h \in Heads(patch) : /\ h <= k /\ NewStart(patch, h) > 0 /\ NewStart(patch, h) <= line
                                     /\ line < NewStart(patch, h) + Cardinality(SoFar(patch, h, k))

LEMMA SoFarIsFinite ==
    ASSUME NEW patch, NEW h, NEW k \in Nat
    PROVE  IsFiniteSet(SoFar(patch, h, k)) /\ Cardinality(SoFar(patch, h, k)) \in Nat
<1>1. SoFar(patch, h, k) \in SUBSET (1 .. k)
  BY DEF SoFar
<1>2. IsFiniteSet(1 .. k)
  BY FS_Interval
<1> QED BY <1>1, <1>2, FS_Subset, FS_CardinalityType

LEMMA NextUpTo ==
    ASSUME NEW k \in Nat
    PROVE  1 .. k + 1 = (1 .. k) \cup {k + 1} /\ k + 1 \notin 1 .. k /\ k + 1 \in 1 .. k + 1
  OBVIOUS

LEMMA NothingSoFar ==
    ASSUME NEW patch, NEW k \in Nat
    PROVE  Cardinality(SoFar(patch, k, k)) = 0
<1>1. \A p \in 1 .. k : ~(p > k)
  OBVIOUS
<1>2. SoFar(patch, k, k) = {}
  BY <1>1 DEF SoFar
<1> QED BY <1>2, FS_EmptySet

LEMMA SameSoFar ==
    ASSUME NEW patch, NEW h, NEW k \in Nat,
           \/ patch[k + 1].tag \notin {" ", "+", ""}
           \/ \E g \in Heads(patch) : g > h /\ ~(k + 1 < g)
    PROVE  SoFar(patch, h, k + 1) = SoFar(patch, h, k)
<1>1. k + 1 \notin SoFar(patch, h, k + 1)
  BY DEF SoFar
<1>2. 1 .. k + 1 = (1 .. k) \cup {k + 1}
  BY NextUpTo
<1> QED BY <1>1, <1>2 DEF SoFar

(* A raw line that shows a line of the new side is one more for its hunk.       *)
LEMMA OneMore ==
    ASSUME NEW patch, NEW h, NEW k \in Nat, k + 1 > h, patch[k + 1].tag \in {" ", "+", ""},
           \A g \in Heads(patch) : g > h => k + 1 < g
    PROVE  Cardinality(SoFar(patch, h, k + 1)) = Cardinality(SoFar(patch, h, k)) + 1
<1>1. k + 1 \in SoFar(patch, h, k + 1)
  BY NextUpTo DEF SoFar
<1>2. 1 .. k + 1 = (1 .. k) \cup {k + 1} /\ k + 1 \notin 1 .. k
  BY NextUpTo
<1>3. SoFar(patch, h, k + 1) = SoFar(patch, h, k) \cup {k + 1} /\ k + 1 \notin SoFar(patch, h, k)
  BY <1>1, <1>2 DEF SoFar
<1> QED BY <1>3, SoFarIsFinite, FS_AddElement

LEMMA HeadFacts ==
    ASSUME NEW patch, NEW ended, WellFormed(patch, ended)
    PROVE  /\ \A h \in Heads(patch) : h \in 1 .. Len(patch) /\ NewStart(patch, h) \in Nat
           /\ \A g, h \in Heads(patch) : g < h => NewStart(patch, g) < NewStart(patch, h)
           /\ 1 \in Heads(patch)
           /\ \A p \in 1 .. Len(patch) : patch[p].tag = "@@" <=> p \in Heads(patch)
<1>1. DOMAIN patch = 1 .. Len(patch)
  BY PatchIsSequence
<1>2. \A p \in 1 .. Len(patch) : patch[p].tag = "@@" <=> p \in Heads(patch)
  BY <1>1 DEF Heads
<1>3. \A h \in Heads(patch) : h \in 1 .. Len(patch)
  BY <1>1 DEF Heads
<1> QED BY <1>2, <1>3 DEF WellFormed, NewStart

(* The hunk a raw line is in.                                                   *)
LEMMA LatestHead ==
    ASSUME NEW patch, NEW ended, WellFormed(patch, ended), NEW k \in 1 .. Len(patch)
    PROVE  \E h : Latest(patch, h, k)
<1> DEFINE n == Len(patch)
           H == {h \in Heads(patch) : h <= k}
<1>1. n \in Nat /\ k \in 1 .. n
  BY PatchIsSequence
<1>2. H \in SUBSET (1 .. n) /\ H # {}
  BY <1>1, HeadFacts
<1> HIDE DEF n
<1>3. Max(H) \in H /\ \A e \in H : e <= Max(H)
  <2> HIDE DEF H
  <2> QED BY <1>1, <1>2, Greatest
<1> QED BY <1>3 DEF Latest

(* The next raw line is a header.                                            *)
LEMMA HeadRead ==
    ASSUME NEW patch, NEW ended, WellFormed(patch, ended), NEW k \in Nat, k + 1 \in Heads(patch),
           NEW a \in ReadStates, HunksRead(patch, a, k), k = 0 => a.current = 0,
           NEW b, b = ReadRaw(a, patch[k + 1])
    PROVE  HunksRead(patch, b, k + 1)
<1> DEFINE N(h) == NewStart(patch, h)
           c(h) == Cardinality(SoFar(patch, h, k))
           d(h) == Cardinality(SoFar(patch, h, k + 1))
<1>1. \A h \in Heads(patch) : h \in Nat /\ N(h) \in Nat /\ c(h) \in Nat
  BY HeadFacts, SoFarIsFinite
<1>2. \A g, h \in Heads(patch) : g < h => N(g) < N(h)
  BY HeadFacts
<1>3. d(k + 1) = 0
  BY NothingSoFar
<1>4. patch[k + 1].tag = "@@"
  BY DEF Heads
<1>5. \A h \in Heads(patch) : d(h) = IF h = k + 1 THEN 0 ELSE c(h)
  <2>1. \A h \in Heads(patch) : SoFar(patch, h, k + 1) = SoFar(patch, h, k)
    BY <1>4, SameSoFar
  <2> QED BY <2>1, <1>3
<1>6. b.lines = a.lines /\ b.current = N(k + 1)
  <2>1. CASE N(k + 1) > 0
    <3>1. patch[k + 1].new.start > 0 /\ patch[k + 1].new.start \in Nat
      BY <2>1, HeadFacts DEF NewStart
    <3>2. b = [lines |-> a.lines, current |-> patch[k + 1].new.start]
      BY <3>1, <1>4, ReadCases
    <3> QED BY <3>2 DEF NewStart
  <2>2. CASE N(k + 1) = 0
    <3>1. patch[k + 1].new.start <= 0 /\ patch[k + 1].new.start \in Nat
      BY <2>2, HeadFacts DEF NewStart
    <3>2. b = a
      BY <3>1, <1>4, ReadCases
    <3>3. k = 0
      <4>1. 1 \in Heads(patch)
        BY HeadFacts
      <4>2. ~(1 < k + 1)
        BY <4>1, <1>1, <1>2, <2>2
      <4> QED BY <4>2
    <3> QED BY <3>2, <3>3, <2>2
  <2>3. N(k + 1) \in Nat
    BY <1>1
  <2> HIDE DEF N
  <2> QED BY <2>1, <2>2, <2>3
<1> HIDE DEF N, c, d
<1>7. ASSUME NEW h, Latest(patch, h, k + 1)
      PROVE  b.current = IF N(h) = 0 THEN 0 ELSE N(h) + d(h)
  <2>1. h = k + 1
    BY <1>7, <1>1 DEF Latest
  <2> QED BY <2>1, <1>6, <1>1, <1>3
<1>8. \A line : line \in b.lines <=>
         line \in Int /\ \E h \in Heads(patch) : h <= k + 1 /\ N(h) > 0 /\ N(h) <= line /\ line < N(h) + d(h)
  <2>1. \A line : line \in a.lines <=>
           line \in Int /\ \E h \in Heads(patch) : h <= k /\ N(h) > 0 /\ N(h) <= line /\ line < N(h) + c(h)
    BY DEF HunksRead, N, c
  <2> TAKE line
  <2> SUFFICES ASSUME line \in Int
               PROVE  line \in b.lines <=>
                         \E h \in Heads(patch) : h <= k + 1 /\ N(h) > 0 /\ N(h) <= line /\ line < N(h) + d(h)
    BY <2>1, <1>6
  <2>2. \A h \in Heads(patch) : (h <= k /\ N(h) > 0 /\ N(h) <= line /\ line < N(h) + c(h))
                             <=> (h <= k + 1 /\ N(h) > 0 /\ N(h) <= line /\ line < N(h) + d(h))
    BY <1>1, <1>5
  <2> QED BY <2>1, <2>2, <1>6, Zenon
<1> QED BY <1>7, <1>8 DEF HunksRead, N, d

(* The next raw line is none.                                                *)
LEMMA LineRead ==
    ASSUME NEW patch, NEW ended, WellFormed(patch, ended), NEW k \in 1 .. Len(patch), k + 1 <= Len(patch),
           k + 1 \notin Heads(patch),
           NEW a \in ReadStates, HunksRead(patch, a, k), NEW b, b = ReadRaw(a, patch[k + 1])
    PROVE  HunksRead(patch, b, k + 1)
<1> DEFINE N(h) == NewStart(patch, h)
           c(h) == Cardinality(SoFar(patch, h, k))
           d(h) == Cardinality(SoFar(patch, h, k + 1))
           line(s, m, h, l) == h <= m /\ N(h) > 0 /\ N(h) <= l /\ l < N(h) + s
           counted == patch[k + 1].tag \in {" ", "+", ""}
<1>a. Len(patch) \in Nat /\ k \in Nat
  BY PatchIsSequence
<1>1. \A h \in Heads(patch) : h \in Nat /\ N(h) \in Nat /\ c(h) \in Nat
  BY HeadFacts, SoFarIsFinite, <1>a
<1>2. \A g, h \in Heads(patch) : g < h => N(g) < N(h)
  BY HeadFacts
<1>3. PICK z : Latest(patch, z, k)
  BY LatestHead
<1>4. z \in Heads(patch) /\ z <= k /\ \A g \in Heads(patch) : g <= k + 1 => g <= z
  <2>1. z \in Heads(patch) /\ z <= k /\ \A g \in Heads(patch) : g <= k => g <= z
    BY <1>3 DEF Latest
  <2>2. \A g \in Heads(patch) : g <= k + 1 => g <= k
    BY <1>1, <1>a
  <2> QED BY <2>1, <2>2
<1>5. patch[k + 1].tag # "@@" /\ patch[k + 1].tag \in {" ", "+", "-", "no newline", ""}
  <2>1. k + 1 \in DOMAIN patch
    BY PatchIsSequence, <1>a
  <2>2. patch[k + 1].tag # "@@"
    BY <2>1 DEF Heads
  <2>3. \/ patch[k + 1].tag \in {"@@", " ", "+", "-", "no newline"}
        \/ patch[k + 1].tag = ""
    BY <2>1 DEF WellFormed
  <2> QED BY <2>2, <2>3
<1>6. a.current = (IF N(z) = 0 THEN 0 ELSE N(z) + c(z))
  BY <1>3 DEF HunksRead
<1>7. \A l : l \in a.lines <=> l \in Int /\ \E h \in Heads(patch) : line(c(h), k, h, l)
  BY DEF HunksRead
<1>8. \A h \in Heads(patch) : h # z => ~(h <= k + 1) \/ d(h) = c(h)
  <2> SUFFICES ASSUME NEW h \in Heads(patch), h # z, h <= k + 1
               PROVE  d(h) = c(h)
    OBVIOUS
  <2>1. z > h /\ ~(k + 1 < z)
    BY <1>1, <1>4, <1>a
  <2>2. SoFar(patch, h, k + 1) = SoFar(patch, h, k)
    BY <2>1, <1>4, <1>a, SameSoFar
  <2> QED BY <2>2
<1>9. d(z) = IF counted THEN c(z) + 1 ELSE c(z)
  <2>1. CASE counted
    <3>1. \A g \in Heads(patch) : g > z => k + 1 < g
      BY <1>1, <1>4, <1>a
    <3>2. k + 1 > z
      BY <1>1, <1>4, <1>a
    <3> QED BY <2>1, <3>1, <3>2, <1>a, OneMore
  <2>2. CASE ~counted
    <3>1. SoFar(patch, z, k + 1) = SoFar(patch, z, k)
      BY <2>2, <1>a, SameSoFar
    <3> QED BY <2>2, <3>1
  <2> QED BY <2>1, <2>2
<1>10. N(z) = 0 => \A h \in Heads(patch) : h <= k + 1 => h = z
  <2> SUFFICES ASSUME N(z) = 0, NEW h \in Heads(patch), h <= k + 1, h # z PROVE FALSE
    OBVIOUS
  <2>1. h < z
    BY <1>1, <1>4
  <2> QED BY <2>1, <1>1, <1>2, <1>4
<1>11. IF a.current = 0 \/ ~counted THEN b = a
       ELSE b.lines = a.lines \cup {a.current} /\ b.current = a.current + 1
  <2>1. ~counted <=> patch[k + 1].tag \in {"-", "no newline"}
    BY <1>5
  <2>2. CASE a.current = 0 \/ ~counted
    <3>1. patch[k + 1].tag # "@@" /\ (a.current = 0 \/ patch[k + 1].tag \in {"-", "no newline"})
      BY <2>1, <2>2, <1>5
    <3>2. ReadRaw(a, patch[k + 1]) = a
      BY <3>1, ReadCases
    <3> QED BY <2>2, <3>2
  <2>3. CASE ~(a.current = 0 \/ ~counted)
    <3>1. patch[k + 1].tag # "@@" /\ a.current # 0 /\ patch[k + 1].tag \notin {"-", "no newline"}
      BY <2>1, <2>3, <1>5
    <3>2. b = [lines |-> a.lines \cup {a.current}, current |-> a.current + 1]
      BY <3>1, ReadCases
    <3>3. b.lines = a.lines \cup {a.current} /\ b.current = a.current + 1
      BY <3>2
    <3> HIDE DEF counted
    <3> QED BY <2>3, <3>3, Zenon
  <2> QED BY <2>2, <2>3
<1> HIDE DEF N, c, d, counted
<1>12. b.current = IF N(z) = 0 THEN 0 ELSE N(z) + d(z)
  BY <1>1, <1>4, <1>6, <1>9, <1>11
<1>13. ASSUME NEW h, Latest(patch, h, k + 1)
       PROVE  h = z
  <2>1. h \in Heads(patch) /\ h <= k + 1 /\ z <= h
    BY <1>13, <1>1, <1>4, <1>a DEF Latest
  <2> QED BY <2>1, <1>1, <1>4
<1>14. ASSUME NEW l \in Int
       PROVE  l \in b.lines <=> \E h \in Heads(patch) : line(d(h), k + 1, h, l)
  <2>1. \A h \in Heads(patch) : h # z => (line(c(h), k, h, l) <=> line(d(h), k + 1, h, l))
    <3> SUFFICES ASSUME NEW h \in Heads(patch), h # z
                 PROVE  line(c(h), k, h, l) <=> line(d(h), k + 1, h, l)
      OBVIOUS
    <3>1. h <= k + 1 <=> h <= k
      BY <1>1, <1>4, <1>a
    <3>2. h <= k + 1 => d(h) = c(h)
      BY <1>8
    <3> QED BY <3>1, <3>2
  <2>2. l \in b.lines <=> l \in a.lines \/ (N(z) # 0 /\ counted /\ l = N(z) + c(z))
    BY <1>1, <1>4, <1>6, <1>11
  <2>3. line(d(z), k + 1, z, l) <=> line(c(z), k, z, l) \/ (N(z) # 0 /\ counted /\ l = N(z) + c(z))
    <3>1. z <= k /\ z <= k + 1 /\ N(z) \in Nat /\ c(z) \in Nat
      BY <1>1, <1>4, <1>a
    <3>2. CASE counted
      <4>1. d(z) = c(z) + 1
        BY <3>2, <1>9
      <4> QED BY <3>1, <3>2, <4>1
    <3>3. CASE ~counted
      <4>1. d(z) = c(z)
        BY <3>3, <1>9
      <4> QED BY <3>1, <3>3, <4>1
    <3> QED BY <3>2, <3>3
  <2> HIDE DEF line
  <2>4. l \in a.lines <=> \E h \in Heads(patch) : line(c(h), k, h, l)
    BY <1>7
  <2> QED BY <2>1, <2>2, <2>3, <2>4, <1>4, Zenon
<1>15. \A l : l \in b.lines => l \in Int
  <2>1. a.current \in Int
    BY <1>1, <1>4, <1>6
  <2>2. \A l \in a.lines : l \in Int
    BY <1>7, Zenon
  <2> QED BY <1>11, <2>1, <2>2
<1>16. \A l : l \in b.lines <=> l \in Int /\ \E h \in Heads(patch) : line(d(h), k + 1, h, l)
  <2> HIDE DEF line
  <2> QED BY <1>14, <1>15
<1>17. \A h : Latest(patch, h, k + 1) => b.current = IF N(h) = 0 THEN 0 ELSE N(h) + d(h)
  BY <1>12, <1>13
<1> QED BY <1>16, <1>17 DEF HunksRead, N, d, line

ShownLine(patch, ended, line) ==
    \E h \in Heads(patch) :
        LET new == patch[h].new
        IN  /\ new.start > 0 /\ new.start <= line
            /\ \/ line < new.start + new.count
               \/ ended /\ line = new.start + new.count /\ \A g \in Heads(patch) : patch[g].new.start <= new.start

(* All of it read, a hunk has shown the lines it says it has; a patch that    *)
(* ends with a newline, one more.                                            *)
LEMMA WholeHunk ==
    ASSUME NEW patch, NEW ended \in BOOLEAN, WellFormed(patch, ended), NEW h \in Heads(patch)
    PROVE  /\ patch[h].new.count \in Nat
           /\ Cardinality(SoFar(patch, h, Len(patch))) =
                 IF ended /\ \A g \in Heads(patch) : NewStart(patch, g) <= NewStart(patch, h)
                 THEN patch[h].new.count + 1 ELSE patch[h].new.count
<1> DEFINE n == Len(patch)
           B == Body(patch, h, "+")
           M == SoFar(patch, h, n)
           last == \A g \in Heads(patch) : NewStart(patch, g) <= NewStart(patch, h)
<1>1. n \in Nat /\ DOMAIN patch = 1 .. n
  BY PatchIsSequence
<1>2. h \in 1 .. n /\ \A g \in Heads(patch) : g \in 1 .. n /\ NewStart(patch, g) \in Nat
  BY HeadFacts
<1>3. \A f, g \in Heads(patch) : f < g => NewStart(patch, f) < NewStart(patch, g)
  BY HeadFacts
<1>4. last <=> \A g \in Heads(patch) : ~(g > h)
  <2>1. ASSUME last, NEW g \in Heads(patch) PROVE ~(g > h)
    BY <2>1, <1>2, <1>3
  <2>2. ASSUME \A g \in Heads(patch) : ~(g > h), NEW g \in Heads(patch)
        PROVE  NewStart(patch, g) <= NewStart(patch, h)
    <3>1. g = h \/ g < h
      BY <2>2, <1>2
    <3>2. NewStart(patch, g) \in Nat /\ NewStart(patch, h) \in Nat
      BY <1>2
    <3> QED BY <3>1, <3>2, <1>3
  <2> QED BY <2>1, <2>2
<1>5. \A p \in 1 .. n : patch[p].tag = "" => ended /\ p = n
  BY <1>1 DEF WellFormed
<1>6. ended => patch[n].tag = "" /\ n \in 1 .. n /\ n > h
  <2> SUFFICES ASSUME ended PROVE patch[n].tag = "" /\ n \in 1 .. n /\ n > h
    OBVIOUS
  <2>1. patch[n].tag = ""
    BY DEF WellFormed
  <2>2. patch[h].tag = "@@"
    BY DEF Heads
  <2>3. n # h
    BY <2>1, <2>2
  <2> HIDE DEF n
  <2>4. n \in Nat /\ h \in 1 .. n
    BY <1>1, <1>2
  <2>5. n \in 1 .. n /\ n > h
    BY <2>4, <2>3
  <2> QED BY <2>1, <2>5
<1>7. patch[h].new.count = Cardinality(B)
  BY DEF WellFormed
<1> HIDE DEF n
<1>n. n \in Nat
  BY <1>1
<1>g. \A g \in Heads(patch) : ~(n < g)
  <2> TAKE g \in Heads(patch)
  <2>1. g \in 1 .. n
    BY <1>2
  <2>2. g <= n /\ g \in Int
    BY <2>1
  <2> QED BY <2>2, <1>n
<1>8. B \in SUBSET (1 .. n)
  BY <1>1 DEF Body
<1>9. IsFiniteSet(B) /\ Cardinality(B) \in Nat
  <2>1. IsFiniteSet(1 .. n)
    BY <1>1, FS_Interval
  <2> HIDE DEF B
  <2> QED BY <2>1, <1>8, FS_Subset, FS_CardinalityType
<1>10. B = {p \in 1 .. n : /\ p > h /\ patch[p].tag \in {" ", "+"}
                           /\ \A g \in Heads(patch) : g > h => p < g}
  BY <1>1 DEF Body
<1>11. M = {p \in 1 .. n : /\ p > h /\ patch[p].tag \in {" ", "+", ""}
                           /\ \A g \in Heads(patch) : g > h => p < g}
  BY DEF SoFar
<1> HIDE DEF B, M
<1>12. CASE ended /\ last
  <2>1. n \in M /\ n \notin B
    BY <1>4, <1>6, <1>10, <1>11, <1>12
  <2>2. M = B \cup {n}
    BY <2>1, <1>5, <1>10, <1>11
  <2>3. Cardinality(M) = Cardinality(B) + 1
    BY <2>1, <2>2, <1>9, FS_AddElement
  <2> QED BY <2>3, <1>12, <1>7, <1>9 DEF M, n
<1>13. CASE ~(ended /\ last)
  <2>1. \A p \in M : patch[p].tag # ""
    <3> SUFFICES ASSUME NEW p \in M, patch[p].tag = "" PROVE FALSE
      OBVIOUS
    <3>1. ended /\ p = n /\ ~last
      BY <1>5, <1>11, <1>13
    <3>2. PICK g \in Heads(patch) : g > h
      BY <3>1, <1>4
    <3>3. n < g
      BY <3>1, <3>2, <1>11
    <3> QED BY <3>3, <1>g
  <2>2. M = B
    BY <2>1, <1>10, <1>11
  <2> QED BY <2>2, <1>13, <1>7, <1>9 DEF M, n
<1> QED BY <1>12, <1>13

(* The lines that may be commented on are those of the new side that a hunk of  *)
(* the patch shows, no others, and the line after the last one where the patch  *)
(* ends with a newline (reviewer/diffmap.go commentableLines).                  *)
THEOREM LinesOfPatch ==
    ASSUME NEW patch, NEW ended \in BOOLEAN, WellFormed(patch, ended), NEW line \in Int
    PROVE  line \in CommentableLines(patch) <=> ShownLine(patch, ended, line)
<1> DEFINE n == Len(patch)
<1>1. n \in Nat /\ 1 <= n
  BY PatchIsSequence, HeadFacts
<1>2. PICK at : /\ at[0] = [lines |-> {}, current |-> 0] /\ CommentableLines(patch) = at[n].lines
                /\ \A k \in 1 .. n : at[k] = ReadRaw(at[k - 1], patch[k])
  BY PatchSteps
<1> HIDE DEF n
<1> DEFINE Done(k) == k <= n => at[k] \in ReadStates /\ HunksRead(patch, at[k], k)
           T == {k \in Nat : Done(k)}
<1>3. Done(0)
  <2>1. at[0] \in ReadStates /\ at[0].lines = {}
    BY <1>2 DEF ReadStates
  <2>2. \A h \in Heads(patch) : ~(h <= 0)
    BY HeadFacts
  <2>3. HunksRead(patch, at[0], 0)
    BY <2>1, <2>2 DEF HunksRead, Latest
  <2> QED BY <2>1, <2>3
<1>4. ASSUME NEW k \in Nat, Done(k) PROVE Done(k + 1)
  <2> SUFFICES ASSUME k + 1 <= n PROVE at[k + 1] \in ReadStates /\ HunksRead(patch, at[k + 1], k + 1)
    OBVIOUS
  <2> DEFINE a == at[k]
             b == at[k + 1]
  <2>1. a \in ReadStates /\ HunksRead(patch, a, k)
    BY <1>1, <1>4
  <2>2. k + 1 \in 1 .. n /\ k + 1 - 1 = k
    BY <1>1
  <2>3. b = ReadRaw(a, patch[k + 1])
    BY <2>2, <1>2
  <2>4. k = 0 => a.current = 0
    BY <1>2
  <2> HIDE DEF a, b
  <2>5. b \in ReadStates
    BY <2>1, <2>2, <2>3, ReadStays DEF n
  <2>6. HunksRead(patch, b, k + 1)
    <3>1. CASE k + 1 \in Heads(patch)
      BY <3>1, <2>1, <2>3, <2>4, HeadRead
    <3>2. CASE k + 1 \notin Heads(patch)
      <4>1. k # 0
        BY <3>2, HeadFacts
      <4>2. k \in 1 .. n
        BY <4>1, <2>2, <1>1
      <4> QED BY <4>2, <3>2, <2>1, <2>2, <2>3, LineRead DEF n
    <3> QED BY <3>1, <3>2
  <2> QED BY <2>5, <2>6 DEF a, b
<1>5. 0 \in T /\ \A k \in Nat : k \in T => k + 1 \in T
  BY <1>3, <1>4
<1>6. n \in T
  <2> HIDE DEF T
  <2> QED BY <1>1, <1>5, Induction
<1>7. HunksRead(patch, at[n], n)
  BY <1>1, <1>6
<1>8. line \in CommentableLines(patch) <=>
         \E h \in Heads(patch) : /\ h <= n /\ NewStart(patch, h) > 0 /\ NewStart(patch, h) <= line
                                 /\ line < NewStart(patch, h) + Cardinality(SoFar(patch, h, n))
  BY <1>2, <1>7 DEF HunksRead
<1>9. ASSUME NEW h \in Heads(patch)
      PROVE  LET new == patch[h].new
             IN  (h <= n /\ NewStart(patch, h) <= line /\ line < NewStart(patch, h) + Cardinality(SoFar(patch, h, n)))
                 <=> /\ new.start <= line
                     /\ \/ line < new.start + new.count
                        \/ /\ ended /\ line = new.start + new.count
                           /\ \A g \in Heads(patch) : patch[g].new.start <= new.start
  <2> DEFINE N == patch[h].new.start
             c == patch[h].new.count
             d == Cardinality(SoFar(patch, h, n))
             last == ended /\ \A g \in Heads(patch) : patch[g].new.start <= patch[h].new.start
  <2>1. h <= n /\ N \in Nat
    BY HeadFacts, <1>1 DEF NewStart, n
  <2>2. c \in Nat /\ d = IF last THEN c + 1 ELSE c
    BY WholeHunk DEF NewStart, n
  <2> HIDE DEF N, c, d, last
  <2>3. (N <= line /\ line < N + d) <=> (N <= line /\ (line < N + c \/ (last /\ line = N + c)))
    <3>1. CASE last
      <4>1. d = c + 1
        BY <3>1, <2>2
      <4> QED BY <4>1, <3>1, <2>1, <2>2
    <3>2. CASE ~last
      <4>1. d = c
        BY <3>2, <2>2
      <4> QED BY <4>1, <3>2, <2>1, <2>2
    <3> QED BY <3>1, <3>2
  <2> QED BY <2>1, <2>3 DEF N, c, d, last, NewStart
<1> QED BY <1>8, <1>9 DEF ShownLine, NewStart

-----------------------------------------------------------------------------
(* The diff engine: what it computes of two files is a unified diff.           *)

(* A function whose every value is computed from the one before exists.      *)
IsChain(f, n, first, succ) == f = [i \in 1 .. n |-> IF i = 1 THEN first ELSE succ[<<f[i - 1], i>>]]

LEMMA Recursion ==
    ASSUME NEW n \in Nat, NEW State, NEW first \in State, NEW succ \in [State \X (1 .. n) -> State]
    PROVE  \E f \in [1 .. n -> State] : IsChain(f, n, first, succ)
<1> DEFINE step == [x \in State \X (1 .. n) |-> IF x[2] = 1 THEN first ELSE succ[x]]
<1>1. step \in [State \X (1 .. n) -> State]
  OBVIOUS
<1>2. \A s \in State, i \in 1 .. n : step[<<s, i>>] = IF i = 1 THEN first ELSE succ[<<s, i>>]
  OBVIOUS
<1> HIDE DEF step
<1>3. PICK h \in [SUBSET (1 .. n) -> State] : IsFold(h, n, first, step)
  BY <1>1, FoldExists
<1> DEFINE f == [i \in 1 .. n |-> h[1 .. i]]
<1>4. ASSUME NEW i \in 1 .. n
      PROVE  /\ f[i] \in State
             /\ f[i] = IF i = 1 THEN first ELSE succ[<<f[i - 1], i>>]
  <2>1. /\ 1 .. i \in SUBSET (1 .. n) /\ 1 .. i # {} /\ Max(1 .. i) = i
        /\ (1 .. i) \ {i} = 1 .. (i - 1)
    BY UpTo
  <2>2. h[1 .. i] \in State /\ f[i] = h[1 .. i]
    BY <2>1
  <2>3. h[1 .. i] = step[<<h[1 .. (i - 1)], i>>]
    BY <1>3, <2>1 DEF IsFold
  <2>4. 1 .. (i - 1) \in SUBSET (1 .. n) /\ h[1 .. (i - 1)] \in State
    <3>1. 1 .. (i - 1) \in SUBSET (1 .. n)
      OBVIOUS
    <3> QED BY <3>1
  <2>5. CASE i = 1
    BY <2>2, <2>3, <2>4, <2>5, <1>2
  <2>6. CASE i # 1
    <3>1. i - 1 \in 1 .. n
      BY <2>6
    <3>2. f[i - 1] = h[1 .. (i - 1)]
      BY <3>1
    <3> QED BY <2>2, <2>3, <2>4, <2>6, <1>2, <3>2
  <2> QED BY <2>5, <2>6
<1> HIDE DEF f
<1>5. f = [i \in 1 .. n |-> f[i]]
  BY DEF f
<1>6. IsChain(f, n, first, succ)
  BY <1>4, <1>5 DEF IsChain
<1>7. f \in [1 .. n -> State]
  BY <1>4, <1>5
<1> QED BY <1>6, <1>7

(* A sequence is one of its own members.                                        *)
LEMMA SequenceOfItsRange ==
    ASSUME NEW s, s \in Seq(Range(s))
    PROVE  Len(s) \in Nat /\ DOMAIN s = 1 .. Len(s) /\ \A i \in 1 .. Len(s) : s[i] \in Range(s)
<1> DEFINE R == Range(s)
<1> HIDE DEF R
<1>1. s \in Seq(R)
  BY DEF R
<1>2. Len(s) \in Nat /\ DOMAIN s = 1 .. Len(s) /\ \A i \in 1 .. Len(s) : s[i] \in R
  BY <1>1
<1> QED BY <1>2 DEF R

LEMMA InItsRange ==
    ASSUME NEW S, NEW s \in Seq(S)
    PROVE  s \in Seq(Range(s)) /\ Range(s) \in SUBSET S
<1>1. Len(s) \in Nat /\ s \in [1 .. Len(s) -> S]
  OBVIOUS
<1>2. \A i \in 1 .. Len(s) : s[i] \in Range(s) /\ s[i] \in S
  BY <1>1 DEF Range
<1> DEFINE R == Range(s)
           n == Len(s)
<1>3. R \in SUBSET S
  BY <1>1 DEF Range
<1> HIDE DEF R, n
<1>4. s = [i \in 1 .. n |-> s[i]] /\ n \in Nat /\ \A i \in 1 .. n : s[i] \in R
  BY <1>1, <1>2 DEF R, n
<1>5. s \in Seq(R)
  BY <1>4
<1> QED BY <1>3, <1>5 DEF R

(* The sequences of a sequence, joined one after the other.                     *)
LEMMA FlattenSteps ==
    ASSUME NEW S, NEW ss \in Seq(Seq(S)), ss # <<>>
    PROVE  \E f \in [1 .. Len(ss) -> Seq(S)] :
               /\ f[1] = ss[1] /\ FlattenSeq(ss) = f[Len(ss)]
               /\ \A i \in 2 .. Len(ss) : f[i] = f[i - 1] \o ss[i]
<1> DEFINE n == Len(ss)
           Eq(f) == f = [i \in 1 .. n |-> IF i = 1 THEN ss[i] ELSE f[i - 1] \o ss[i]]
           flatten == CHOOSE f : Eq(f)
           succ == [x \in Seq(S) \X (1 .. n) |-> x[1] \o ss[x[2]]]
<1>1. n \in Nat /\ n # 0 /\ 1 \in 1 .. n /\ \A i \in 1 .. n : ss[i] \in Seq(S)
  OBVIOUS
<1>2. FlattenSeq(ss) = flatten[n]
  BY <1>1 DEF FlattenSeq
<1>3. succ \in [Seq(S) \X (1 .. n) -> Seq(S)]
  <2>1. ASSUME NEW r \in Seq(S), NEW i \in 1 .. n
        PROVE  r \o ss[i] \in Seq(S)
    BY <1>1
  <2> QED BY <2>1
<1> HIDE DEF n
<1>4. PICK f \in [1 .. n -> Seq(S)] : IsChain(f, n, ss[1], succ)
  <2>1. ss[1] \in Seq(S)
    BY <1>1
  <2> HIDE DEF succ
  <2> QED BY <1>1, <1>3, <2>1, Recursion
<1>5. ASSUME NEW i \in 1 .. n
      PROVE  f[i] = IF i = 1 THEN ss[i] ELSE f[i - 1] \o ss[i]
  <2>1. CASE i = 1
    BY <1>4, <2>1 DEF IsChain
  <2>2. CASE i # 1
    <3>1. i - 1 \in 1 .. n
      BY <1>1, <2>2
    <3>2. succ[<<f[i - 1], i>>] = f[i - 1] \o ss[i]
      BY <3>1
    <3> HIDE DEF succ
    <3> QED BY <3>2, <2>2, <1>4 DEF IsChain
  <2> QED BY <2>1, <2>2
<1>6. Eq(f)
  <2>1. f = [i \in 1 .. n |-> f[i]]
    OBVIOUS
  <2> QED BY <2>1, <1>5
<1>7. Eq(flatten)
  <2> HIDE DEF Eq
  <2> QED BY <1>6
<1> HIDE DEF flatten
<1>8. /\ flatten[1] = ss[1] /\ \A i \in 2 .. n : flatten[i] = flatten[i - 1] \o ss[i]
  <2>1. 1 \in 1 .. n /\ \A i \in 2 .. n : i \in 1 .. n /\ i # 1
    BY <1>1
  <2>2. \A i \in 1 .. n : flatten[i] = IF i = 1 THEN ss[i] ELSE flatten[i - 1] \o ss[i]
    BY <1>7
  <2> QED BY <2>1, <2>2
<1>9. f[1] = ss[1] /\ \A i \in 2 .. n : f[i] = f[i - 1] \o ss[i]
  <2>1. 1 \in 1 .. n /\ \A i \in 2 .. n : i \in 1 .. n /\ i # 1
    BY <1>1
  <2> QED BY <2>1, <1>5
<1>10. \A i \in 1 .. n : f[i] = flatten[i]
  <2> DEFINE T == {i \in Nat : i + 1 \in 1 .. n => f[i + 1] = flatten[i + 1]}
  <2>1. 0 \in T
    BY <1>8, <1>9
  <2>2. ASSUME NEW i \in Nat, i \in T PROVE i + 1 \in T
    <3>1. (i + 1) + 1 \in 1 .. n => i + 1 \in 1 .. n /\ (i + 1) + 1 \in 2 .. n /\ ((i + 1) + 1) - 1 = i + 1
      BY <1>1
    <3>2. i + 1 \in 1 .. n => f[i + 1] = flatten[i + 1]
      BY <2>2
    <3>3. ASSUME (i + 1) + 1 \in 1 .. n PROVE f[(i + 1) + 1] = flatten[(i + 1) + 1]
      <4>1. f[(i + 1) + 1] = f[i + 1] \o ss[(i + 1) + 1]
        BY <3>1, <3>3, <1>9
      <4>2. flatten[(i + 1) + 1] = flatten[i + 1] \o ss[(i + 1) + 1]
        BY <3>1, <3>3, <1>8
      <4> QED BY <4>1, <4>2, <3>1, <3>2, <3>3
    <3>4. i + 1 \in Nat
      OBVIOUS
    <3> QED BY <3>3, <3>4
  <2> HIDE DEF T
  <2>3. \A i \in Nat : i \in T
    BY <2>1, <2>2, Induction
  <2>4. ASSUME NEW i \in 1 .. n PROVE f[i] = flatten[i]
    <3>1. i - 1 \in Nat /\ (i - 1) + 1 = i
      BY <1>1
    <3> QED BY <3>1, <2>3 DEF T
  <2> QED BY <2>4
<1>11. FlattenSeq(ss) = f[n]
  BY <1>2, <1>10, <1>1
<1> QED BY <1>9, <1>11 DEF n

(* The raw lines that show a line of the new side.                           *)
NewLines(s) == {p \in DOMAIN s : s[p].tag \in {" ", "+"}}

LEMMA CountShifted ==
    ASSUME NEW n \in Nat, NEW k \in Nat, NEW A \in SUBSET (1 .. n)
    PROVE  IsFiniteSet(A) /\ IsFiniteSet({p + k : p \in A}) /\ Cardinality({p + k : p \in A}) = Cardinality(A)
<1> DEFINE B == {p + k : p \in A}
           f == [p \in A |-> p + k]
<1>1. IsFiniteSet(A)
  <2>1. IsFiniteSet(1 .. n)
    BY FS_Interval
  <2> QED BY <2>1, FS_Subset
<1>2. f \in Surjection(A, B)
  BY DEF Surjection
<1>3. f \in Injection(A, B)
  <2>1. f \in [A -> B] /\ \A p, q \in A : f[p] = f[q] => p = q
    OBVIOUS
  <2> HIDE DEF f, B
  <2> QED BY <2>1, Fun_IsInj
<1> QED BY <1>1, <1>2, <1>3, FS_Surjection

LEMMA Joined ==
    ASSUME NEW S, NEW s \in Seq(S), NEW t \in Seq(S)
    PROVE  /\ s \o t \in Seq(S) /\ Len(s) \in Nat /\ Len(t) \in Nat /\ Len(s \o t) = Len(s) + Len(t)
           /\ DOMAIN s = 1 .. Len(s) /\ DOMAIN t = 1 .. Len(t) /\ DOMAIN (s \o t) = 1 .. Len(s) + Len(t)
           /\ \A p \in 1 .. Len(s) : (s \o t)[p] = s[p]
           /\ \A p \in 1 .. Len(t) : (s \o t)[Len(s) + p] = t[p]
           /\ \A p \in 1 .. Len(s) + Len(t) : p > Len(s) => p - Len(s) \in 1 .. Len(t)
  OBVIOUS

(* Joined sequences show as many lines as each by itself.                       *)
LEMMA CountJoined ==
    ASSUME NEW S, NEW s \in Seq(S), NEW t \in Seq(S)
    PROVE  /\ IsFiniteSet(NewLines(s)) /\ Cardinality(NewLines(s)) \in Nat
           /\ NewLines(s \o t) = NewLines(s) \cup {p + Len(s) : p \in NewLines(t)}
           /\ Cardinality(NewLines(s \o t)) = Cardinality(NewLines(s)) + Cardinality(NewLines(t))
<1> DEFINE m == Len(s)
           n == Len(t)
           B == {p + m : p \in NewLines(t)}
<1>1. m \in Nat /\ n \in Nat
  OBVIOUS
<1>0. DOMAIN s = 1 .. m /\ DOMAIN t = 1 .. n /\ DOMAIN (s \o t) = 1 .. m + n
  BY Joined
<1>9. /\ \A p \in 1 .. m : (s \o t)[p] = s[p]
      /\ \A p \in 1 .. n : (s \o t)[m + p] = t[p]
  BY Joined
<1> HIDE DEF m, n
<1>2. NewLines(s) \in SUBSET (1 .. m) /\ NewLines(t) \in SUBSET (1 .. n)
  BY <1>0 DEF NewLines
<1>3. IsFiniteSet(NewLines(s)) /\ IsFiniteSet(B) /\ Cardinality(B) = Cardinality(NewLines(t))
  BY <1>1, <1>2, CountShifted
<1>4. NewLines(s \o t) = NewLines(s) \cup B
  <2>1. ASSUME NEW p \in NewLines(s \o t) PROVE p \in NewLines(s) \cup B
    <3>0. p \in 1 .. m + n
      BY <1>0 DEF NewLines
    <3>1. (s \o t)[p].tag \in {" ", "+"}
      BY DEF NewLines
    <3>2. CASE p <= m
      <4>1. p \in 1 .. m
        BY <3>0, <3>2, <1>1
      <4>2. (s \o t)[p] = s[p]
        BY <4>1, <1>9
      <4> QED BY <4>1, <4>2, <3>1, <1>0 DEF NewLines
    <3>3. CASE p > m
      <4>1. p - m \in 1 .. n /\ p = m + (p - m) /\ p = (p - m) + m
        BY <3>0, <3>3, <1>1
      <4>2. (s \o t)[p] = t[p - m]
        BY <4>1, <1>9
      <4>3. p - m \in NewLines(t)
        BY <4>1, <4>2, <3>1, <1>0 DEF NewLines
      <4> QED BY <4>1, <4>3
    <3>4. p \in Int
      BY <3>0, <1>1
    <3> QED BY <3>4, <3>2, <3>3, <1>1
  <2>2. ASSUME NEW p \in NewLines(s) PROVE p \in NewLines(s \o t)
    <3>0. p \in 1 .. m
      BY <1>0 DEF NewLines
    <3>1. s[p].tag \in {" ", "+"}
      BY DEF NewLines
    <3>2. p \in 1 .. m + n
      BY <3>0, <1>1
    <3> QED BY <3>0, <3>1, <3>2, <1>0, <1>9 DEF NewLines
  <2>3. ASSUME NEW q \in NewLines(t) PROVE q + m \in NewLines(s \o t)
    <3>0. q \in 1 .. n
      BY <1>0 DEF NewLines
    <3>1. t[q].tag \in {" ", "+"}
      BY DEF NewLines
    <3>2. q + m \in 1 .. m + n /\ q + m = m + q
      BY <3>0, <1>1
    <3> QED BY <3>0, <3>1, <3>2, <1>0, <1>9 DEF NewLines
  <2> QED BY <2>1, <2>2, <2>3
<1>5. NewLines(s) \cap B = {}
  BY <1>1, <1>2
<1> HIDE DEF B
<1>6. Cardinality(NewLines(s) \cap B) = 0
  BY <1>5, FS_EmptySet
<1>7. Cardinality(NewLines(s)) \in Nat /\ Cardinality(B) \in Nat
  BY <1>3, FS_CardinalityType
<1>8. Cardinality(NewLines(s) \cup B) = Cardinality(NewLines(s)) + Cardinality(B)
  <2>1. Cardinality(NewLines(s) \cup B)
          = Cardinality(NewLines(s)) + Cardinality(B) - Cardinality(NewLines(s) \cap B)
    BY <1>3, FS_Union
  <2> QED BY <2>1, <1>6, <1>7
<1> QED BY <1>3, <1>4, <1>7, <1>8 DEF B, m

-----------------------------------------------------------------------------
(* A hunk as it is written, and a patch of hunks; last is where its last     *)
(* hunk starts.                                                              *)
IsBlock(r) ==
    /\ r # <<>> /\ r[1].tag = "@@" /\ r[1].new.start \in Nat
    /\ \A p \in 2 .. Len(r) : r[p].tag \in {" ", "+", "-", "no newline"}
    /\ r[1].new.count = Cardinality(NewLines(r))
IsBlocks(patch, last) ==
    /\ patch # <<>> /\ patch[1].tag = "@@"
    /\ \A p \in 1 .. Len(patch) : patch[p].tag \in {"@@", " ", "+", "-", "no newline"}
    /\ \A h \in Heads(patch) : /\ patch[h].new.start \in Nat /\ patch[h].new.start <= last
                               /\ patch[h].new.count = Cardinality(Body(patch, h, "+"))
    /\ \A g, h \in Heads(patch) : g < h => patch[g].new.start < patch[h].new.start

(* A block has one head, its first raw line.                                    *)
LEMMA HeadOfBlock ==
    ASSUME NEW S, NEW r \in Seq(S), IsBlock(r)
    PROVE  Heads(r) = {1} /\ Body(r, 1, "+") = NewLines(r) /\ Len(r) \in Nat /\ 1 \in 1 .. Len(r)
           /\ \A p \in NewLines(r) : p \in 2 .. Len(r)
<1>1. Len(r) \in Nat /\ DOMAIN r = 1 .. Len(r) /\ 1 \in 1 .. Len(r)
      /\ \A p \in 1 .. Len(r) : p = 1 \/ p \in 2 .. Len(r)
  <2>1. r # <<>>
    BY DEF IsBlock
  <2>2. Len(r) \in Nat /\ DOMAIN r = 1 .. Len(r) /\ Len(r) # 0
    BY <2>1
  <2> QED BY <2>2
<1>2. Heads(r) = {1}
  BY <1>1 DEF IsBlock, Heads
<1>3. \A p \in NewLines(r) : p \in 2 .. Len(r)
  BY <1>1 DEF NewLines, IsBlock
<1>4. \A p \in 2 .. Len(r) : p > 1 /\ ~(1 > 1)
  OBVIOUS
<1>5. Body(r, 1, "+") = NewLines(r)
  <2>1. NewLines(r) \in SUBSET Body(r, 1, "+")
    BY <1>1, <1>2, <1>3, <1>4 DEF Body, NewLines
  <2>2. Body(r, 1, "+") \in SUBSET NewLines(r)
    BY DEF Body, NewLines
  <2> QED BY <2>1, <2>2
<1> QED BY <1>1, <1>2, <1>3, <1>5

LEMMA FirstBlock ==
    ASSUME NEW S, NEW r \in Seq(S), IsBlock(r)
    PROVE  IsBlocks(r, r[1].new.start)
<1>1. Heads(r) = {1} /\ Body(r, 1, "+") = NewLines(r) /\ Len(r) \in Nat /\ 1 \in 1 .. Len(r)
  BY HeadOfBlock
<1>2. \A p \in 1 .. Len(r) : p = 1 \/ p \in 2 .. Len(r)
  BY <1>1
<1>3. \A p \in 1 .. Len(r) : r[p].tag \in {"@@", " ", "+", "-", "no newline"}
  BY <1>2 DEF IsBlock
<1>4. r[1].new.start <= r[1].new.start /\ ~(1 < 1)
  <2>1. r[1].new.start \in Nat
    BY DEF IsBlock
  <2> QED BY <2>1
<1> QED BY <1>1, <1>3, <1>4 DEF IsBlock, IsBlocks

(* A patch stays one when a block follows that starts further on.               *)
LEMMA BlocksGrow ==
    ASSUME NEW S, NEW s \in Seq(S), NEW r \in Seq(S), NEW last \in Nat,
           IsBlocks(s, last), IsBlock(r), last < r[1].new.start
    PROVE  IsBlocks(s \o r, r[1].new.start)
<1> DEFINE m == Len(s)
           n == Len(r)
           q == s \o r
<1>1. m \in Nat /\ n \in Nat
  OBVIOUS
<1>2. DOMAIN s = 1 .. m /\ DOMAIN r = 1 .. n /\ DOMAIN q = 1 .. m + n /\ Len(q) = m + n
  BY Joined
<1>3. /\ \A p \in 1 .. m : q[p] = s[p]
      /\ \A p \in 1 .. n : q[m + p] = r[p]
  BY Joined
<1>4. Heads(r) = {1} /\ 1 \in 1 .. n /\ \A p \in NewLines(r) : p \in 2 .. n
  BY HeadOfBlock
<1>5. 1 \in 1 .. m
  <2>1. s # <<>>
    BY DEF IsBlocks
  <2>2. Len(s) # 0
    BY <2>1
  <2> QED BY <2>2, <1>1
<1> HIDE DEF m, n, q
<1>6. m + 1 \in 1 .. m + n /\ q[m + 1] = r[1] /\ \A h \in 1 .. m : h < m + 1 /\ h \in 1 .. m + n /\ h # m + 1
  <2>1. m + 1 \in 1 .. m + n
    BY <1>1, <1>4
  <2>2. q[m + 1] = r[1]
    BY <1>3, <1>4
  <2>3. \A h \in 1 .. m : h < m + 1 /\ h \in 1 .. m + n /\ h # m + 1
    BY <1>1
  <2> QED BY <2>1, <2>2, <2>3
<1>7. \A p \in 1 .. m + n : p \in 1 .. m \/ \E k \in 1 .. n : p = m + k
  <2>1. ASSUME NEW p \in 1 .. m + n, ~(p \in 1 .. m) PROVE p - m \in 1 .. n /\ p = m + (p - m)
    BY <2>1, <1>1
  <2> QED BY <2>1
<1>8. Heads(q) = Heads(s) \cup {m + 1}
  <2>1. ASSUME NEW p \in Heads(q) PROVE p \in Heads(s) \cup {m + 1}
    <3>1. p \in 1 .. m + n /\ q[p].tag = "@@"
      BY <1>2 DEF Heads
    <3>2. CASE p \in 1 .. m
      BY <3>1, <3>2, <1>2, <1>3 DEF Heads
    <3>3. ASSUME NEW k \in 1 .. n, p = m + k PROVE p = m + 1
      <4>1. r[k].tag = "@@"
        BY <3>1, <3>3, <1>3
      <4>2. k \in Heads(r)
        BY <4>1, <1>2 DEF Heads
      <4> QED BY <4>2, <1>4, <3>3
    <3> QED BY <3>1, <3>2, <3>3, <1>7
  <2>2. m + 1 \in Heads(q)
    BY <1>6, <1>2 DEF Heads, IsBlock
  <2>3. ASSUME NEW p \in Heads(s) PROVE p \in Heads(q)
    <3>1. p \in 1 .. m /\ s[p].tag = "@@"
      BY <1>2 DEF Heads
    <3>2. p \in 1 .. m + n /\ q[p] = s[p]
      BY <3>1, <1>6, <1>3
    <3> QED BY <3>1, <3>2, <1>2 DEF Heads
  <2> QED BY <2>1, <2>2, <2>3
<1>9. \A h \in Heads(s) : h \in 1 .. m
  BY <1>2 DEF Heads
<1>10. ASSUME NEW h \in Heads(s) PROVE Body(q, h, "+") = Body(s, h, "+") /\ q[h] = s[h]
  <2>1. h \in 1 .. m /\ m + 1 > h
    BY <1>9, <1>6
  <2>2. ASSUME NEW p \in Body(q, h, "+") PROVE p \in Body(s, h, "+")
    <3>0. p \in 1 .. m + n
      BY <1>2 DEF Body
    <3>1. p < m + 1
      BY <2>1, <1>8 DEF Body
    <3>2. p \in 1 .. m
      BY <3>0, <3>1, <1>1
    <3>3. q[p] = s[p]
      BY <3>2, <1>3
    <3> QED BY <3>2, <3>3, <1>2, <1>8 DEF Body
  <2>3. ASSUME NEW p \in Body(s, h, "+") PROVE p \in Body(q, h, "+")
    <3>0. p \in 1 .. m
      BY <1>2 DEF Body
    <3>1. p < m + 1 /\ p \in 1 .. m + n /\ q[p] = s[p]
      BY <3>0, <1>6, <1>3
    <3>2. \A g \in Heads(q) : g > h => p < g
      BY <3>1, <1>8 DEF Body
    <3>3. p > h /\ q[p].tag \in {" ", "+"}
      BY <3>1 DEF Body
    <3> QED BY <3>1, <3>2, <3>3, <1>2 DEF Body
  <2>4. q[h] = s[h]
    BY <2>1, <1>3
  <2> QED BY <2>2, <2>3, <2>4
<1>11. Body(q, m + 1, "+") = {p + m : p \in NewLines(r)}
  <2>1. ASSUME NEW p \in Body(q, m + 1, "+") PROVE \E k \in NewLines(r) : p = k + m
    <3>0. p \in 1 .. m + n /\ p > m + 1
      BY <1>2 DEF Body
    <3>1. ~(p \in 1 .. m)
      BY <3>0, <1>1
    <3>2. PICK k \in 1 .. n : p = m + k
      BY <3>0, <3>1, <1>7
    <3>3. r[k].tag \in {" ", "+"}
      BY <3>2, <1>3 DEF Body
    <3>4. p = k + m
      BY <3>2, <1>1
    <3> QED BY <3>3, <3>4, <1>2 DEF NewLines
  <2>2. ASSUME NEW k \in NewLines(r) PROVE k + m \in Body(q, m + 1, "+")
    <3>0. k \in 2 .. n
      BY <1>4
    <3>1. k + m \in 1 .. m + n /\ k + m > m + 1 /\ k + m = m + k /\ k \in 1 .. n
      BY <3>0, <1>1
    <3>2. q[k + m] = r[k]
      BY <3>1, <1>3
    <3>3. \A g \in Heads(q) : ~(g > m + 1)
      <4>1. \A g \in 1 .. m : ~(g > m + 1)
        BY <1>1
      <4>2. ~(m + 1 > m + 1)
        BY <1>1
      <4> QED BY <4>1, <4>2, <1>8, <1>9
    <3> QED BY <3>1, <3>2, <3>3, <1>2 DEF Body, NewLines
  <2> QED BY <2>1, <2>2
<1>12. Cardinality(Body(q, m + 1, "+")) = Cardinality(NewLines(r))
  <2>1. NewLines(r) \in SUBSET (1 .. n)
    BY <1>2 DEF NewLines
  <2>2. Cardinality({p + m : p \in NewLines(r)}) = Cardinality(NewLines(r))
    BY <2>1, <1>1, CountShifted
  <2> QED BY <2>2, <1>11
<1>13. q # <<>> /\ q[1].tag = "@@"
  <2>1. q[1] = s[1] /\ 1 \in 1 .. m + n
    BY <1>5, <1>3, <1>6
  <2>2. DOMAIN <<>> = {}
    OBVIOUS
  <2>3. q # <<>>
    BY <2>1, <2>2, <1>2
  <2> QED BY <2>1, <2>3 DEF IsBlocks
<1>14. \A p \in 1 .. Len(q) : q[p].tag \in {"@@", " ", "+", "-", "no newline"}
  <2>1. ASSUME NEW p \in 1 .. m PROVE q[p].tag \in {"@@", " ", "+", "-", "no newline"}
    BY <1>3 DEF IsBlocks, m
  <2>2. ASSUME NEW k \in 1 .. n PROVE r[k].tag \in {"@@", " ", "+", "-", "no newline"}
    <3>1. k = 1 \/ k \in 2 .. n
      BY <1>1
    <3> QED BY <3>1 DEF IsBlock, n
  <2>3. ASSUME NEW p \in 1 .. m + n PROVE q[p].tag \in {"@@", " ", "+", "-", "no newline"}
    BY <2>1, <2>2, <1>7, <1>3
  <2> QED BY <2>3, <1>2
<1> DEFINE start == r[1].new.start
<1>15. start \in Nat /\ r[1].new.count = Cardinality(NewLines(r))
  BY DEF IsBlock
<1>16. \A h \in Heads(s) : q[h].new.start \in Nat /\ q[h].new.start <= last
  BY <1>10 DEF IsBlocks
<1> HIDE DEF start
<1>17. \A h \in Heads(s) : q[h].new.start < start /\ q[h].new.start <= start
  <2>1. last < start
    BY DEF start
  <2> QED BY <2>1, <1>15, <1>16
<1>18. q[m + 1].new.start = start /\ q[m + 1].new.count = Cardinality(Body(q, m + 1, "+"))
  BY <1>6, <1>12, <1>15 DEF start
<1>19. ASSUME NEW h \in Heads(q)
       PROVE  /\ q[h].new.start \in Nat /\ q[h].new.start <= start
              /\ q[h].new.count = Cardinality(Body(q, h, "+"))
  <2>1. CASE h = m + 1
    <3>1. start <= start
      BY <1>15
    <3> QED BY <2>1, <3>1, <1>18, <1>15
  <2>2. CASE h \in Heads(s)
    <3>1. s[h].new.count = Cardinality(Body(s, h, "+"))
      BY <2>2 DEF IsBlocks
    <3> QED BY <2>2, <3>1, <1>10, <1>16, <1>17
  <2> QED BY <2>1, <2>2, <1>8
<1>20. ASSUME NEW g \in Heads(q), NEW h \in Heads(q), g < h
       PROVE  q[g].new.start < q[h].new.start
  <2>1. CASE g \in Heads(s) /\ h \in Heads(s)
    <3>1. s[g].new.start < s[h].new.start
      BY <2>1, <1>20 DEF IsBlocks
    <3> QED BY <2>1, <3>1, <1>10
  <2>2. CASE g \in Heads(s) /\ h = m + 1
    BY <2>2, <1>17, <1>18
  <2>3. ASSUME g = m + 1 PROVE FALSE
    <3>1. \A k \in 1 .. m : ~(m + 1 < k)
      BY <1>1
    <3>2. ~(m + 1 < m + 1)
      BY <1>1
    <3> QED BY <2>3, <3>1, <3>2, <1>8, <1>9, <1>20
  <2> QED BY <2>1, <2>2, <2>3, <1>8
<1> QED BY <1>13, <1>14, <1>19, <1>20 DEF IsBlocks, start, q

(* A patch of blocks with the newline's empty raw after it is a unified diff.   *)
LEMMA BlocksEnd ==
    ASSUME NEW S, NEW s \in Seq(S), NEW last, IsBlocks(s, last)
    PROVE  WellFormed(Append(s, [tag |-> ""]), TRUE)
<1> DEFINE m == Len(s)
           e == [tag |-> ""]
           q == Append(s, e)
<1>1. m \in Nat /\ DOMAIN s = 1 .. m /\ DOMAIN q = 1 .. m + 1 /\ Len(q) = m + 1
  OBVIOUS
<1>2. (\A p \in 1 .. m : q[p] = s[p]) /\ q[m + 1] = e
  <2> HIDE DEF e
  <2>1. s \in [1 .. m -> S]
    BY <1>1
  <2> QED BY <1>1, <2>1
<1>3. q \in Seq(Range(q))
  <2>1. q \in Seq(S \cup {e})
    <3> HIDE DEF e
    <3>1. s \in Seq(S \cup {e})
      <4>1. s = [p \in 1 .. m |-> s[p]] /\ \A p \in 1 .. m : s[p] \in S \cup {e}
        OBVIOUS
      <4> HIDE DEF m
      <4> QED BY <1>1, <4>1
    <3> QED BY <3>1
  <2> QED BY <2>1, InItsRange
<1>4. 1 \in 1 .. m
  <2>1. s # <<>>
    BY DEF IsBlocks
  <2>2. Len(s) # 0
    BY <2>1
  <2> QED BY <2>2, <1>1
<1>5. e.tag = ""
  OBVIOUS
<1> HIDE DEF m, q, e
<1>6. \A p \in 1 .. m + 1 : p \in 1 .. m \/ p = m + 1
  BY <1>1
<1>7. Heads(q) = Heads(s)
  <2>1. \A p \in 1 .. m : p \in 1 .. m + 1
    BY <1>1
  <2>2. q[m + 1].tag # "@@"
    BY <1>2, <1>5
  <2> QED BY <2>1, <2>2, <1>1, <1>2, <1>6 DEF Heads
<1>8. \A h : Body(q, h, "+") = Body(s, h, "+")
  <2>1. \A p \in 1 .. m : p \in 1 .. m + 1
    BY <1>1
  <2>2. q[m + 1].tag \notin {" ", "+"}
    BY <1>2, <1>5
  <2> QED BY <2>1, <2>2, <1>1, <1>2, <1>6, <1>7 DEF Body
<1>9. \A h \in Heads(s) : q[h] = s[h]
  BY <1>1, <1>2 DEF Heads
<1>10. 1 \in Heads(q)
  BY <1>4, <1>1, <1>7 DEF Heads, IsBlocks
<1>11. \A p \in DOMAIN q : \/ q[p].tag \in {"@@", " ", "+", "-", "no newline"}
                           \/ TRUE /\ p = Len(q) /\ q[p].tag = ""
  <2>1. \A p \in 1 .. m : s[p].tag \in {"@@", " ", "+", "-", "no newline"}
    BY DEF IsBlocks, m
  <2> QED BY <2>1, <1>1, <1>2, <1>5, <1>6
<1>12. q[Len(q)].tag = ""
  BY <1>1, <1>2, <1>5
<1>13. \A h \in Heads(q) : q[h].new.start \in Nat /\ q[h].new.count = Cardinality(Body(q, h, "+"))
  <2> SUFFICES ASSUME NEW h \in Heads(s)
               PROVE  q[h].new.start \in Nat /\ q[h].new.count = Cardinality(Body(q, h, "+"))
    BY <1>7
  <2>1. s[h].new.start \in Nat /\ s[h].new.count = Cardinality(Body(s, h, "+"))
    BY DEF IsBlocks
  <2>2. Body(q, h, "+") = Body(s, h, "+")
    BY <1>8
  <2> QED BY <2>1, <2>2, <1>9
<1>14. \A g, h \in Heads(q) : g < h => q[g].new.start < q[h].new.start
  BY <1>7, <1>9 DEF IsBlocks
<1>15. WellFormed(q, TRUE)
  BY <1>3, <1>10, <1>11, <1>12, <1>13, <1>14 DEF WellFormed
<1> QED BY <1>15 DEF q, e

(* The raw lines below a hunk's head; how many lines of the new side a step  *)
(* shows, and the steps among the first n that show one.                     *)
ShownLines(texts) == [tag : {" ", "+", "-"}, text : texts]
RawsOf(texts) == ShownLines(texts) \cup {[tag |-> "no newline"]}
Adds(kind) == IF kind \in {" ", "+"} THEN 1 ELSE 0
NewSteps(steps, n) == {p \in 1 .. n : steps[p].kind \in {" ", "+"}}

LEMMA AddsIs == \A kind : Adds(kind) \in {0, 1}
  BY DEF Adds

LEMMA TagsOfRaws ==
    ASSUME NEW texts, NEW raw \in RawsOf(texts)
    PROVE  raw.tag \in {" ", "+", "-", "no newline"}
<1>1. CASE raw \in ShownLines(texts)
  BY <1>1 DEF ShownLines
<1>2. CASE raw = [tag |-> "no newline"]
  <2>1. raw.tag = "no newline"
    BY <1>2
  <2> QED BY <2>1
<1> QED BY <1>1, <1>2 DEF RawsOf

LEMMA NonEmpty ==
    ASSUME NEW S, NEW m \in Seq(S), m # <<>>
    PROVE  Len(m) \in Nat /\ Len(m) # 0 /\ DOMAIN m = 1 .. Len(m) /\ 1 \in DOMAIN m
  OBVIOUS

IsMarked(m, a, b) == \E t \in {<<>>, <<b>>} : m = <<a>> \o t
LedBy(m, a, b) == m # <<>> /\ m[1] = a /\ \A p \in DOMAIN m : p = 1 \/ m[p] = b

LEMMA OneOrTwo ==
    ASSUME NEW R, NEW a \in R, NEW b \in R, NEW m, IsMarked(m, a, b)
    PROVE  m \in Seq(R) /\ LedBy(m, a, b)
<1>0. PICK t \in {<<>>, <<b>>} : m = <<a>> \o t
  BY DEF IsMarked
<1>1. <<a>> \in Seq(R) /\ t \in Seq(R) /\ Len(<<a>>) = 1 /\ <<a>>[1] = a
  <2>1. t \in Seq(R)
    <3>1. CASE t = <<>>
      BY <3>1
    <3>2. CASE t = <<b>>
      BY <3>2
    <3> QED BY <3>1, <3>2, <1>0
  <2>2. <<a>> \in Seq(R) /\ Len(<<a>>) = 1 /\ <<a>>[1] = a
    OBVIOUS
  <2> QED BY <2>1, <2>2
<1>2. Len(t) \in Nat /\ \A p \in 1 .. Len(t) : t[p] = b
  <2>1. CASE t = <<>>
    BY <2>1
  <2>2. CASE t = <<b>>
    <3>1. Len(t) = 1 /\ t[1] = b
      BY <2>2
    <3>2. \A p \in 1 .. 1 : p = 1
      OBVIOUS
    <3> QED BY <3>1, <3>2
  <2> QED BY <2>1, <2>2, <1>0
<1>3. /\ m \in Seq(R) /\ DOMAIN m = 1 .. 1 + Len(t)
      /\ \A p \in 1 .. 1 : m[p] = <<a>>[p]
      /\ \A p \in 1 .. Len(t) : m[1 + p] = t[p]
  BY <1>0, <1>1, Joined
<1>4. 1 \in DOMAIN m /\ m[1] = a
  <2>1. 1 \in 1 .. 1 /\ 1 \in 1 .. 1 + Len(t)
    BY <1>2
  <2> QED BY <2>1, <1>1, <1>3
<1>5. ASSUME NEW p \in DOMAIN m, p # 1 PROVE m[p] = b
  <2>1. p - 1 \in 1 .. Len(t) /\ p = 1 + (p - 1)
    BY <1>5, <1>3, <1>2
  <2> QED BY <2>1, <1>2, <1>3
<1>6. m # <<>>
  BY <1>4
<1> QED BY <1>3, <1>4, <1>5, <1>6 DEF LedBy

LEMMA CountOne ==
    ASSUME NEW S, NEW m \in Seq(S), m # <<>>, NEW kind, m[1].tag = kind,
           \A p \in DOMAIN m : p = 1 \/ m[p].tag = "no newline"
    PROVE  Cardinality(NewLines(m)) = Adds(kind)
<1>1. 1 \in DOMAIN m
  BY NonEmpty
<1>2. CASE kind \in {" ", "+"}
  <2>1. NewLines(m) = {1}
    BY <1>1, <1>2 DEF NewLines
  <2>2. Cardinality({1}) = 1
    BY FS_Singleton
  <2> QED BY <1>2, <2>1, <2>2 DEF Adds
<1>3. CASE kind \notin {" ", "+"}
  <2>1. NewLines(m) = {}
    BY <1>1, <1>3 DEF NewLines
  <2>2. Cardinality({}) = 0
    BY FS_EmptySet
  <2> QED BY <1>3, <2>1, <2>2 DEF Adds
<1> QED BY <1>2, <1>3

(* What one step is written as.                                                 *)
LEMMA MarkedFacts ==
    ASSUME NEW texts, NEW kind \in {" ", "+", "-"}, NEW line, line.text \in texts
    PROVE  /\ Marked(kind, line) \in Seq(RawsOf(texts))
           /\ Cardinality(NewLines(Marked(kind, line))) = Adds(kind)
<1> DEFINE a == [tag |-> kind, text |-> line.text]
           b == [tag |-> "no newline"]
           R == RawsOf(texts)
<1>1. a \in R /\ b \in R
  <2> HIDE DEF a, b
  <2>1. b \in R
    BY DEF RawsOf, b
  <2>2. a \in R
    BY DEF RawsOf, ShownLines, a
  <2> QED BY <2>1, <2>2
<1>2. a.tag = kind /\ b.tag = "no newline"
  OBVIOUS
<1> HIDE DEF a, b, R
<1> DEFINE t == IF line.nl THEN <<>> ELSE <<b>>
           m == <<a>> \o t
<1>3. IsMarked(m, a, b)
  BY DEF IsMarked
<1> HIDE DEF t, m
<1>4. m \in Seq(R) /\ LedBy(m, a, b)
  BY <1>1, <1>3, OneOrTwo
<1>5. m # <<>> /\ m[1].tag = kind /\ \A p \in DOMAIN m : p = 1 \/ m[p].tag = "no newline"
  BY <1>4, <1>2 DEF LedBy
<1>6. m \in Seq(R) /\ Cardinality(NewLines(m)) = Adds(kind)
  BY <1>4, <1>5, CountOne
<1>7. Marked(kind, line) = m
  BY DEF Marked, a, b, t, m
<1> QED BY <1>6, <1>7 DEF R

LEMMA NewStepsGrow ==
    ASSUME NEW steps, NEW n \in Nat
    PROVE  /\ IsFiniteSet(NewSteps(steps, n)) /\ Cardinality(NewSteps(steps, n)) \in Nat
           /\ Cardinality(NewSteps(steps, n + 1)) = Cardinality(NewSteps(steps, n)) + Adds(steps[n + 1].kind)
<1>1. NewSteps(steps, n) \in SUBSET (1 .. n)
  BY DEF NewSteps
<1>2. IsFiniteSet(NewSteps(steps, n))
  <2>1. IsFiniteSet(1 .. n)
    BY FS_Interval
  <2> QED BY <1>1, <2>1, FS_Subset
<1>3. Cardinality(NewSteps(steps, n)) \in Nat
  BY <1>2, FS_CardinalityType
<1>4. 1 .. n + 1 = (1 .. n) \cup {n + 1} /\ n + 1 \notin 1 .. n
  BY NextUpTo
<1>5. ASSUME steps[n + 1].kind \in {" ", "+"}
      PROVE  Cardinality(NewSteps(steps, n + 1)) = Cardinality(NewSteps(steps, n)) + Adds(steps[n + 1].kind)
  <2>1. NewSteps(steps, n + 1) = NewSteps(steps, n) \cup {n + 1} /\ n + 1 \notin NewSteps(steps, n)
    BY <1>4, <1>5 DEF NewSteps
  <2>2. Cardinality(NewSteps(steps, n) \cup {n + 1}) = Cardinality(NewSteps(steps, n)) + 1
    BY <2>1, <1>2, FS_AddElement
  <2>3. Adds(steps[n + 1].kind) = 1
    BY <1>5 DEF Adds
  <2> QED BY <2>1, <2>2, <2>3
<1>6. ASSUME steps[n + 1].kind \notin {" ", "+"}
      PROVE  Cardinality(NewSteps(steps, n + 1)) = Cardinality(NewSteps(steps, n)) + Adds(steps[n + 1].kind)
  <2>1. NewSteps(steps, n + 1) = NewSteps(steps, n)
    BY <1>4, <1>6 DEF NewSteps
  <2>2. Adds(steps[n + 1].kind) = 0
    BY <1>6 DEF Adds
  <2>3. Cardinality(NewSteps(steps, n)) = Cardinality(NewSteps(steps, n)) + 0
    BY <1>3
  <2> QED BY <2>1, <2>2, <2>3
<1>7. Cardinality(NewSteps(steps, n + 1)) = Cardinality(NewSteps(steps, n)) + Adds(steps[n + 1].kind)
  BY <1>5, <1>6
<1> QED BY <1>2, <1>3, <1>7

LEMMA NoNewSteps == \A steps : Cardinality(NewSteps(steps, 0)) = 0
<1>1. \A steps : NewSteps(steps, 0) = {}
  BY DEF NewSteps
<1> QED BY <1>1, FS_EmptySet

(* Written one after the other, the steps show as many lines as they keep.   *)
Written(marks, steps, n) == \A i \in 1 .. n : Cardinality(NewLines(marks[i])) = Adds(steps[i].kind)

LEMMA RawsCount ==
    ASSUME NEW R, NEW steps, NEW n \in Nat, n # 0, NEW marks \in Seq(Seq(R)), Len(marks) = n,
           Written(marks, steps, n)
    PROVE  /\ FlattenSeq(marks) \in Seq(R)
           /\ Cardinality(NewLines(FlattenSeq(marks))) = Cardinality(NewSteps(steps, n))
<1>1. marks # <<>> /\ \A i \in 1 .. n : marks[i] \in Seq(R)
  OBVIOUS
<1>2. PICK f \in [1 .. Len(marks) -> Seq(R)] :
         /\ f[1] = marks[1] /\ FlattenSeq(marks) = f[Len(marks)]
         /\ \A i \in 2 .. Len(marks) : f[i] = f[i - 1] \o marks[i]
  BY <1>1, FlattenSteps
<1>3. \A i \in Nat : /\ Cardinality(NewSteps(steps, i)) \in Nat
                     /\ Cardinality(NewSteps(steps, i + 1)) = Cardinality(NewSteps(steps, i)) + Adds(steps[i + 1].kind)
  BY NewStepsGrow
<1> DEFINE T == {i \in Nat : i + 1 \in 1 .. n => Cardinality(NewLines(f[i + 1])) = Cardinality(NewSteps(steps, i + 1))}
<1>6. 0 \in T
  <2>1. 1 \in 1 .. n /\ 0 + 1 = 1
    OBVIOUS
  <2>2. Cardinality(NewLines(f[1])) = Adds(steps[1].kind)
    BY <2>1, <1>2 DEF Written
  <2>3. Cardinality(NewSteps(steps, 1)) = Adds(steps[1].kind)
    <3>1. Cardinality(NewSteps(steps, 0 + 1)) = 0 + Adds(steps[0 + 1].kind)
      BY <1>3, NoNewSteps
    <3>2. Adds(steps[1].kind) \in {0, 1}
      BY AddsIs
    <3> QED BY <3>1, <3>2, <2>1
  <2> QED BY <2>1, <2>2, <2>3
<1>7. ASSUME NEW i \in Nat, i \in T PROVE i + 1 \in T
  <2>0. i + 1 \in Nat
    OBVIOUS
  <2>1. ASSUME (i + 1) + 1 \in 1 .. n
        PROVE  Cardinality(NewLines(f[(i + 1) + 1])) = Cardinality(NewSteps(steps, (i + 1) + 1))
    <3> DEFINE j == i + 1
    <3>1. j \in 1 .. n /\ j + 1 \in 2 .. n /\ j + 1 \in 1 .. n /\ (j + 1) - 1 = j
      BY <2>1
    <3>2. Cardinality(NewLines(f[j])) = Cardinality(NewSteps(steps, j))
      BY <3>1, <1>7
    <3> HIDE DEF j
    <3>3. f[j + 1] = f[j] \o marks[j + 1]
      BY <3>1, <1>2
    <3>4. f[j] \in Seq(R) /\ marks[j + 1] \in Seq(R)
      BY <3>1, <1>1, <1>2
    <3>5. Cardinality(NewLines(f[j] \o marks[j + 1])) = Cardinality(NewLines(f[j])) + Cardinality(NewLines(marks[j + 1]))
      BY <3>4, CountJoined
    <3>6. Cardinality(NewLines(marks[j + 1])) = Adds(steps[j + 1].kind)
      BY <3>1 DEF Written
    <3>7. Cardinality(NewSteps(steps, j + 1)) = Cardinality(NewSteps(steps, j)) + Adds(steps[j + 1].kind)
      BY <1>3, <2>0 DEF j
    <3>8. Cardinality(NewLines(f[j + 1])) = Cardinality(NewSteps(steps, j + 1))
      BY <3>2, <3>3, <3>5, <3>6, <3>7
    <3> QED BY <3>8 DEF j
  <2> QED BY <2>0, <2>1
<1> HIDE DEF T
<1>8. \A i \in Nat : i \in T
  BY <1>6, <1>7, Induction
<1>9. Cardinality(NewLines(f[n])) = Cardinality(NewSteps(steps, n))
  <2>1. n - 1 \in Nat /\ (n - 1) + 1 = n /\ n \in 1 .. n
    OBVIOUS
  <2>2. n - 1 \in T
    BY <2>1, <1>8
  <2> QED BY <2>1, <2>2 DEF T
<1>10. f[n] \in Seq(R)
  BY <1>2
<1> QED BY <1>2, <1>9, <1>10

(* A run of steps, and where the new side of the hunk made of it starts.     *)
IsRun(steps) ==
    /\ steps # <<>>
    /\ \A p \in DOMAIN steps : steps[p].kind \in {" ", "+", "-"} /\ steps[p].cur \in Nat
StartOf(steps) == Span(steps, "cur", "+").start

LEMMA ListIs ==
    ASSUME NEW n \in Nat, NEW Q, NEW m, m = [i \in 1 .. n |-> m[i]], \A i \in 1 .. n : m[i] \in Q
    PROVE  m \in Seq(Q) /\ Len(m) = n
  OBVIOUS

(* The header of a run of steps: where it starts and how many lines it shows.   *)
LEMMA SpanFits ==
    ASSUME NEW T, NEW steps \in Seq(T), IsRun(steps)
    PROVE  /\ LinesOn(steps, "+") = NewSteps(steps, Len(steps))
           /\ Span(steps, "cur", "+").count = Cardinality(LinesOn(steps, "+"))
           /\ LinesOn(steps, "+") = {} => StartOf(steps) = steps[1].cur
           /\ LinesOn(steps, "+") # {} =>
                 /\ Min(LinesOn(steps, "+")) \in LinesOn(steps, "+")
                 /\ StartOf(steps) = steps[Min(LinesOn(steps, "+"))].cur + 1
           /\ StartOf(steps) \in Nat
<1> DEFINE own == LinesOn(steps, "+")
<1>1. own = NewSteps(steps, Len(steps))
  <2>1. DOMAIN steps = 1 .. Len(steps)
    OBVIOUS
  <2> QED BY <2>1 DEF LinesOn, NewSteps
<1>2. 1 \in DOMAIN steps
  <2>1. steps # <<>>
    BY DEF IsRun
  <2> QED BY <2>1, NonEmpty
<1>3. \A p \in DOMAIN steps : steps[p].cur \in Nat
  BY DEF IsRun
<1>4. own \in SUBSET DOMAIN steps /\ own \in SUBSET Nat
  <2>1. own \in SUBSET DOMAIN steps
    BY DEF LinesOn
  <2>2. DOMAIN steps \in SUBSET Nat
    OBVIOUS
  <2> QED BY <2>1, <2>2
<1> HIDE DEF own
<1>5. CASE own = {}
  <2>1. Span(steps, "cur", "+") = [start |-> steps[1]["cur"], count |-> 0]
    BY <1>5 DEF Span, own
  <2>2. StartOf(steps) = steps[1].cur /\ Span(steps, "cur", "+").count = 0
    BY <2>1 DEF StartOf
  <2>3. Cardinality(own) = 0
    BY <1>5, FS_EmptySet
  <2>4. StartOf(steps) \in Nat
    BY <2>2, <1>2, <1>3
  <2> QED BY <1>1, <1>5, <2>2, <2>3, <2>4 DEF own
<1>6. CASE own # {}
  <2>0. Min(own) \in own
    BY <1>4, <1>6, Least
  <2>1. Span(steps, "cur", "+") = [start |-> steps[Min(own)]["cur"] + 1, count |-> Cardinality(own)]
    BY <1>6 DEF Span, own
  <2>2. StartOf(steps) = steps[Min(own)].cur + 1 /\ Span(steps, "cur", "+").count = Cardinality(own)
    BY <2>1 DEF StartOf
  <2>3. steps[Min(own)].cur \in Nat
    BY <2>0, <1>3, <1>4
  <2>4. StartOf(steps) \in Nat
    BY <2>2, <2>3
  <2> QED BY <1>1, <1>6, <2>0, <2>2, <2>4 DEF own
<1> QED BY <1>5, <1>6

(* A run of steps is written as a block.                                        *)
LEMMA RenderFits ==
    ASSUME NEW T, NEW steps \in Seq(T), IsRun(steps), NEW old, NEW cur
    PROVE  LET r == Render(steps, old, cur)
           IN  r \in Seq(Range(r)) /\ IsBlock(r) /\ r[1].new.start = StartOf(steps)
<1> DEFINE LineAt(i) == IF steps[i].kind = "+" THEN cur[steps[i].cur + 1] ELSE old[steps[i].old + 1]
           n == Len(steps)
           texts == {LineAt(i).text : i \in 1 .. n}
           R == RawsOf(texts)
           marks == [i \in DOMAIN steps |-> Marked(steps[i].kind, LineAt(i))]
           head == [tag |-> "@@", old |-> Span(steps, "old", "-"), new |-> Span(steps, "cur", "+")]
           flat == FlattenSeq(marks)
           r == <<head>> \o flat
           S == R \cup {head}
<1>1. Render(steps, old, cur) = r
  BY DEF Render
<1>2. n \in Nat /\ n # 0 /\ DOMAIN steps = 1 .. n
  <2>1. steps # <<>>
    BY DEF IsRun
  <2> QED BY <2>1, NonEmpty
<1>3. head.tag = "@@" /\ head.new = Span(steps, "cur", "+")
  OBVIOUS
<1> HIDE DEF head, n
<1>4. ASSUME NEW i \in 1 .. n
      PROVE  /\ Marked(steps[i].kind, LineAt(i)) \in Seq(R)
             /\ Cardinality(NewLines(Marked(steps[i].kind, LineAt(i)))) = Adds(steps[i].kind)
  <2>1. steps[i].kind \in {" ", "+", "-"}
    BY <1>2 DEF IsRun
  <2>2. LineAt(i).text \in texts
    OBVIOUS
  <2> HIDE DEF LineAt, texts
  <2> QED BY <2>1, <2>2, MarkedFacts
<1> HIDE DEF LineAt, R
<1>5. /\ marks \in Seq(Seq(R)) /\ Len(marks) = n
      /\ Written(marks, steps, n)
  <2>1. marks = [i \in 1 .. n |-> marks[i]] /\ \A i \in 1 .. n : marks[i] = Marked(steps[i].kind, LineAt(i))
    BY <1>2
  <2> HIDE DEF marks
  <2>2. \A i \in 1 .. n : marks[i] \in Seq(R) /\ Cardinality(NewLines(marks[i])) = Adds(steps[i].kind)
    BY <1>4, <2>1
  <2>3. marks \in Seq(Seq(R)) /\ Len(marks) = n
    BY <2>1, <2>2, <1>2, ListIs
  <2> QED BY <2>2, <2>3 DEF Written
<1> HIDE DEF marks
<1>6. flat \in Seq(R) /\ Cardinality(NewLines(flat)) = Cardinality(NewSteps(steps, n))
  BY <1>2, <1>5, RawsCount
<1> HIDE DEF flat
<1>7. /\ LinesOn(steps, "+") = NewSteps(steps, n) /\ StartOf(steps) \in Nat
      /\ Span(steps, "cur", "+").count = Cardinality(LinesOn(steps, "+"))
  BY SpanFits DEF n
<1>8. <<head>> \in Seq(S) /\ flat \in Seq(S) /\ Len(<<head>>) = 1 /\ <<head>>[1] = head
  <2>1. head \in S /\ R \in SUBSET S
    OBVIOUS
  <2> HIDE DEF S
  <2>2. flat \in Seq(S)
    BY <1>6, <2>1
  <2> QED BY <2>1, <2>2
<1> HIDE DEF S
<1>9. /\ r \in Seq(S) /\ Len(r) = 1 + Len(flat) /\ Len(flat) \in Nat
      /\ \A p \in 1 .. 1 : r[p] = <<head>>[p]
      /\ \A p \in 1 .. Len(flat) : r[1 + p] = flat[p]
  <2>1. Len(<<head>> \o flat) = 1 + Len(flat)
    BY <1>8, Joined
  <2> QED BY <2>1, <1>8, Joined
<1>10. Cardinality(NewLines(r)) = Cardinality(NewLines(flat))
  <2>1. NewLines(<<head>>) = {}
    <3>1. DOMAIN <<head>> = {1}
      OBVIOUS
    <3> QED BY <3>1, <1>8, <1>3 DEF NewLines
  <2>2. Cardinality(NewLines(<<head>>)) = 0
    BY <2>1, FS_EmptySet
  <2>3. Cardinality(NewLines(r)) = Cardinality(NewLines(<<head>>)) + Cardinality(NewLines(flat))
    BY <1>8, CountJoined
  <2>4. Cardinality(NewLines(flat)) \in Nat
    BY <1>8, CountJoined
  <2> QED BY <2>2, <2>3, <2>4
<1> HIDE DEF r
<1>11. r[1] = head /\ r # <<>>
  <2>1. 1 \in 1 .. 1
    OBVIOUS
  <2>2. Len(r) # 0
    BY <1>9
  <2>3. r # <<>>
    BY <2>2
  <2> QED BY <2>1, <2>3, <1>8, <1>9
<1>12. ASSUME NEW p \in 2 .. Len(r) PROVE r[p].tag \in {" ", "+", "-", "no newline"}
  <2>1. p - 1 \in 1 .. Len(flat) /\ p = 1 + (p - 1)
    BY <1>9
  <2>2. r[p] = flat[p - 1]
    BY <2>1, <1>9
  <2>3. flat[p - 1] \in R
    BY <2>1, <1>6
  <2> QED BY <2>2, <2>3, TagsOfRaws DEF R
<1>13. r[1].new = Span(steps, "cur", "+") /\ r[1].tag = "@@"
  BY <1>11, <1>3
<1>14. r[1].new.start = StartOf(steps)
  BY <1>13 DEF StartOf
<1>15. IsBlock(r)
  <2>1. r[1].new.count = Cardinality(NewLines(r))
    BY <1>13, <1>7, <1>10, <1>6
  <2>2. r[1].new.start \in Nat
    BY <1>14, <1>7
  <2> QED BY <2>1, <2>2, <1>11, <1>12, <1>13 DEF IsBlock
<1>16. r \in Seq(Range(r))
  BY <1>9, InItsRange
<1> QED BY <1>1, <1>14, <1>15, <1>16

StartIn(r) == r[1].new.start
AreBlocks(rs) == /\ \A h \in 1 .. Len(rs) : IsBlock(rs[h])
                 /\ \A h \in 2 .. Len(rs) : StartIn(rs[h - 1]) < StartIn(rs[h])

(* Runs that start further and further on are written as a patch.               *)
LEMMA BlocksOf ==
    ASSUME NEW S, NEW rs \in Seq(Seq(S)), rs # <<>>, AreBlocks(rs)
    PROVE  FlattenSeq(rs) \in Seq(S) /\ \E last : IsBlocks(FlattenSeq(rs), last)
<1> DEFINE n == Len(rs)
<1>1. n \in Nat /\ n # 0 /\ \A i \in 1 .. n : rs[i] \in Seq(S)
  <2>1. n \in Nat /\ n # 0
    BY NonEmpty
  <2>2. \A i \in 1 .. n : rs[i] \in Seq(S)
    OBVIOUS
  <2> QED BY <2>1, <2>2
<1>2. PICK f \in [1 .. Len(rs) -> Seq(S)] :
         /\ f[1] = rs[1] /\ FlattenSeq(rs) = f[Len(rs)]
         /\ \A i \in 2 .. Len(rs) : f[i] = f[i - 1] \o rs[i]
  BY FlattenSteps
<1>3. \A h \in 1 .. n : IsBlock(rs[h]) /\ StartIn(rs[h]) \in Nat
  BY DEF AreBlocks, IsBlock, StartIn
<1>4. \A h \in 2 .. n : StartIn(rs[h - 1]) < StartIn(rs[h])
  BY DEF AreBlocks
<1>5. /\ f[1] = rs[1] /\ FlattenSeq(rs) = f[n]
      /\ \A i \in 1 .. n : f[i] \in Seq(S)
      /\ \A i \in 2 .. n : f[i] = f[i - 1] \o rs[i]
  BY <1>2
<1> HIDE DEF n
<1> DEFINE T == {i \in Nat : i + 1 \in 1 .. n => IsBlocks(f[i + 1], StartIn(rs[i + 1]))}
<1>6. 0 \in T
  <2>1. 1 \in 1 .. n /\ 0 + 1 = 1
    BY <1>1
  <2>2. IsBlock(rs[1]) /\ rs[1] \in Seq(S)
    BY <2>1, <1>1, <1>3
  <2>3. IsBlocks(rs[1], StartIn(rs[1]))
    BY <2>2, FirstBlock DEF StartIn
  <2> QED BY <2>1, <2>3, <1>5
<1>7. ASSUME NEW i \in Nat, i \in T PROVE i + 1 \in T
  <2>0. i + 1 \in Nat
    OBVIOUS
  <2>1. ASSUME (i + 1) + 1 \in 1 .. n
        PROVE  IsBlocks(f[(i + 1) + 1], StartIn(rs[(i + 1) + 1]))
    <3> DEFINE j == i + 1
    <3>1. j \in 1 .. n /\ j + 1 \in 2 .. n /\ j + 1 \in 1 .. n /\ (j + 1) - 1 = j
      BY <2>1, <1>1
    <3>2. IsBlocks(f[j], StartIn(rs[j]))
      BY <3>1, <1>7
    <3> HIDE DEF j
    <3>3. f[j + 1] = f[j] \o rs[j + 1]
      BY <3>1, <1>5
    <3>4. f[j] \in Seq(S) /\ rs[j + 1] \in Seq(S) /\ IsBlock(rs[j + 1])
      BY <3>1, <1>1, <1>3, <1>5
    <3>5. StartIn(rs[j]) \in Nat /\ StartIn(rs[j]) < StartIn(rs[j + 1])
      BY <3>1, <1>3, <1>4
    <3> DEFINE last == StartIn(rs[j])
               r == rs[j + 1]
    <3>6. last \in Nat /\ r \in Seq(S) /\ IsBlock(r) /\ IsBlocks(f[j], last) /\ last < r[1].new.start
      BY <3>2, <3>4, <3>5 DEF StartIn
    <3> HIDE DEF last, r
    <3>7. IsBlocks(f[j] \o r, r[1].new.start)
      BY <3>4, <3>6, BlocksGrow
    <3>8. IsBlocks(f[j + 1], StartIn(rs[j + 1]))
      BY <3>3, <3>7 DEF r, StartIn
    <3> QED BY <3>8 DEF j
  <2> QED BY <2>0, <2>1
<1> HIDE DEF T
<1>8. \A i \in Nat : i \in T
  BY <1>6, <1>7, Induction
<1>9. IsBlocks(f[n], StartIn(rs[n]))
  <2>1. n - 1 \in Nat /\ (n - 1) + 1 = n /\ n \in 1 .. n
    BY <1>1
  <2>2. n - 1 \in T
    BY <2>1, <1>8
  <2> QED BY <2>1, <2>2 DEF T
<1>10. f[n] \in Seq(S)
  <2>1. n \in 1 .. n
    BY <1>1
  <2> QED BY <2>1, <1>5
<1> QED BY <1>5, <1>9, <1>10

(* The hunks are runs of the steps, in order, and at least one step that     *)
(* changes nothing lies between one and the next.                            *)
LEMMA LastChangeIs ==
    ASSUME NEW T, NEW steps \in Seq(T), NEW q \in FirstChanges(steps)
    PROVE  LET last == LastChange(steps, FirstChanges(steps), q)
           IN  /\ q \in ChangedSteps(steps) /\ last \in ChangedSteps(steps) /\ q <= last
               /\ \A f \in FirstChanges(steps) : f > q => last < f
               /\ \A p \in ChangedSteps(steps) :
                     p >= q /\ (\A f \in FirstChanges(steps) : f > q => p < f) => p <= last
<1> DEFINE firsts == FirstChanges(steps)
           near == {p \in ChangedSteps(steps) : p >= q /\ \A f \in firsts : f > q => p < f}
<1>1. q \in ChangedSteps(steps) /\ firsts \in SUBSET ChangedSteps(steps)
  BY DEF FirstChanges
<1>2. Len(steps) \in Nat /\ ChangedSteps(steps) \in SUBSET (1 .. Len(steps))
  <2>1. DOMAIN steps = 1 .. Len(steps) /\ Len(steps) \in Nat
    OBVIOUS
  <2> QED BY <2>1 DEF ChangedSteps
<1> HIDE DEF firsts
<1>3. q \in near
  <2>1. q >= q /\ \A f \in firsts : f > q => q < f
    BY <1>1, <1>2
  <2> QED BY <2>1, <1>1
<1>4. near \in SUBSET (1 .. Len(steps))
  BY <1>2
<1>5. Max(near) \in near /\ \A p \in near : p <= Max(near)
  <2> HIDE DEF near
  <2> QED BY <1>2, <1>3, <1>4, Greatest
<1>6. LastChange(steps, firsts, q) = Max(near)
  BY DEF LastChange
<1> DEFINE last == LastChange(steps, firsts, q)
<1>7. last \in near
  BY <1>5, <1>6
<1>8. last \in ChangedSteps(steps) /\ last >= q /\ \A f \in firsts : f > q => last < f
  BY <1>7
<1>9. q <= last
  <2> HIDE DEF last
  <2> QED BY <1>8, <1>1, <1>2
<1>10. \A p \in near : p <= last
  BY <1>5, <1>6
<1> QED BY <1>1, <1>8, <1>9, <1>10 DEF firsts

(* Between two hunks there is a step that changes nothing.                      *)
LEMMA Between ==
    ASSUME NEW T, NEW steps \in Seq(T), NEW q \in FirstChanges(steps), NEW f \in FirstChanges(steps), q < f,
           \A g \in FirstChanges(steps) : g > q => f <= g
    PROVE  LET last == LastChange(steps, FirstChanges(steps), q)
           IN  last + Context + 1 < f - Context /\ last + Context + 1 \notin ChangedSteps(steps)
<1> DEFINE last == LastChange(steps, FirstChanges(steps), q)
           changes == ChangedSteps(steps)
<1>1. /\ q \in changes /\ last \in changes /\ q <= last
      /\ \A g \in FirstChanges(steps) : g > q => last < g
      /\ \A p \in changes : p >= q /\ (\A g \in FirstChanges(steps) : g > q => p < g) => p <= last
  BY LastChangeIs
<1>2. f \in changes
  BY DEF FirstChanges
<1>3. changes \in SUBSET Nat
  <2>1. DOMAIN steps \in SUBSET Nat
    OBVIOUS
  <2> QED BY <2>1 DEF ChangedSteps
<1> HIDE DEF last, changes
<1>4. \/ (1 .. f - 1) \cap changes = {}
      \/ \E p \in changes : p < f /\ f - p - 1 > 2 * Context /\ (p + 1 .. f - 1) \cap changes = {}
  BY DEF FirstChanges, changes
<1>5. q \in Nat /\ f \in Nat /\ last \in Nat /\ Context \in Nat /\ last < f
  BY <1>1, <1>2, <1>3, DiffAssumption
<1>6. 1 <= q
  <2>1. DOMAIN steps = 1 .. Len(steps)
    OBVIOUS
  <2>2. q \in 1 .. Len(steps)
    BY <2>1, <1>1 DEF ChangedSteps, changes
  <2> QED BY <2>2
<1>7. q \in 1 .. f - 1
  BY <1>5, <1>6
<1>8. PICK p \in changes : p < f /\ f - p - 1 > 2 * Context /\ (p + 1 .. f - 1) \cap changes = {}
  BY <1>4, <1>7, <1>1
<1>9. p \in Nat
  BY <1>3
<1>10. last <= p
  <2>1. last \notin p + 1 .. f - 1
    BY <1>8, <1>1
  <2> QED BY <2>1, <1>5, <1>9
<1>11. p <= last
  <2>1. p >= q
    <3>1. q \notin p + 1 .. f - 1
      BY <1>8, <1>1
    <3> QED BY <3>1, <1>5, <1>9
  <2>2. ASSUME NEW g \in FirstChanges(steps), g > q PROVE p < g
    <3>1. g \in Nat /\ f <= g
      BY <2>2, <1>3 DEF FirstChanges, changes
    <3> QED BY <3>1, <1>5, <1>8, <1>9
  <2> QED BY <2>1, <2>2, <1>1
<1>12. last = p
  BY <1>5, <1>9, <1>10, <1>11
<1>13. last + Context + 1 < f - Context /\ last + Context + 1 \in p + 1 .. f - 1
  BY <1>5, <1>8, <1>9, <1>12
<1>14. last + Context + 1 \notin changes
  BY <1>13, <1>8
<1> QED BY <1>13, <1>14 DEF last, changes

(* The steps of a script: each knows how many lines of the new side come     *)
(* before it.                                                                *)
Goes(step) == IF step.kind = "-" THEN 0 ELSE 1
IsStep(step) == step.kind \in {" ", "+", "-"} /\ step.cur \in Nat
Walks(steps) == /\ \A p \in DOMAIN steps : IsStep(steps[p])
                /\ \A p \in DOMAIN steps : p + 1 \in DOMAIN steps => steps[p + 1].cur = steps[p].cur + Goes(steps[p])

LEMMA GoesIs == \A step : Goes(step) \in {0, 1} /\ (step.kind \in {" ", "+"} => Goes(step) = 1)
  BY DEF Goes

(* Further on in a script, at least as many lines come before.                  *)
LEMMA CursorGrows ==
    ASSUME NEW T, NEW steps \in Seq(T), Walks(steps), NEW a \in 1 .. Len(steps), NEW b \in 1 .. Len(steps), a < b
    PROVE  steps[a].cur + Goes(steps[a]) <= steps[b].cur
<1> DEFINE n == Len(steps)
           Low == steps[a].cur + Goes(steps[a])
           U == {k \in Nat : a + 1 + k <= n => Low <= steps[a + 1 + k].cur}
<1>1. n \in Nat /\ DOMAIN steps = 1 .. n
  OBVIOUS
<1>2. \A p \in 1 .. n : steps[p].cur \in Nat /\ Goes(steps[p]) \in {0, 1}
  BY <1>1, GoesIs DEF Walks, IsStep
<1>3. \A p \in 1 .. n : p + 1 \in 1 .. n => steps[p + 1].cur = steps[p].cur + Goes(steps[p])
  BY <1>1 DEF Walks
<1>4. a \in 1 .. n /\ b \in 1 .. n
  OBVIOUS
<1>5. Low \in Nat
  BY <1>2, <1>4
<1> HIDE DEF n
<1>6. 0 \in U
  <2>1. ASSUME a + 1 + 0 <= n PROVE Low <= steps[a + 1 + 0].cur
    <3>1. a + 1 \in 1 .. n /\ a + 1 + 0 = a + 1
      BY <2>1, <1>1, <1>4
    <3>2. steps[a + 1].cur = Low
      BY <3>1, <1>3, <1>4
    <3> HIDE DEF Low
    <3> QED BY <3>1, <3>2, <1>5
  <2> QED BY <2>1
<1> HIDE DEF Low
<1>7. ASSUME NEW k \in Nat, k \in U PROVE k + 1 \in U
  <2>1. ASSUME a + 1 + (k + 1) <= n PROVE Low <= steps[a + 1 + (k + 1)].cur
    <3> DEFINE c == a + 1 + k
    <3>1. c \in 1 .. n /\ c + 1 \in 1 .. n /\ a + 1 + (k + 1) = c + 1 /\ c <= n
      BY <2>1, <1>1, <1>4
    <3>2. Low <= steps[c].cur
      BY <3>1, <1>7
    <3> HIDE DEF c
    <3>3. steps[c + 1].cur = steps[c].cur + Goes(steps[c])
      BY <3>1, <1>3
    <3>4. Low <= steps[c + 1].cur
      BY <3>1, <3>2, <3>3, <1>2, <1>5
    <3> QED BY <3>1, <3>4
  <2> QED BY <2>1
<1> HIDE DEF U
<1>8. \A k \in Nat : k \in U
  BY <1>6, <1>7, Induction
<1>9. b - a - 1 \in Nat /\ a + 1 + (b - a - 1) = b /\ b <= n
  BY <1>1, <1>4
<1>10. Low <= steps[b].cur
  BY <1>8, <1>9 DEF U
<1> QED BY <1>10 DEF Low

(* A part of a script is a run of steps.                                        *)
LEMMA RunOf ==
    ASSUME NEW T, NEW steps \in Seq(T), Walks(steps), NEW b \in 1 .. Len(steps), NEW a \in 1 .. b
    PROVE  LET hunk == SubSeq(steps, a, b)
           IN  /\ hunk \in Seq(T) /\ Len(hunk) = b - a + 1 /\ IsRun(hunk)
               /\ \A i \in 1 .. b - a + 1 : hunk[i] = steps[a + i - 1]
<1> DEFINE hunk == SubSeq(steps, a, b)
           n == Len(steps)
<1>1. n \in Nat /\ DOMAIN steps = 1 .. n /\ \A i \in 1 .. n : steps[i] \in T
  OBVIOUS
<1>2. b \in 1 .. n /\ a \in 1 .. b /\ a <= b
  OBVIOUS
<1> HIDE DEF n
<1>3. \A i \in a .. b : steps[i] \in T
  BY <1>1, <1>2
<1>4. hunk \in Seq(T) /\ Len(hunk) = b - a + 1 /\ \A i \in 1 .. b - a + 1 : hunk[i] = steps[a + i - 1]
  BY <1>2, <1>3, SubSeqProperties
<1> HIDE DEF hunk
<1>5. Len(hunk) # 0 /\ hunk # <<>> /\ DOMAIN hunk = 1 .. b - a + 1
  <2>1. b - a + 1 # 0
    BY <1>1, <1>2
  <2> QED BY <2>1, <1>4
<1>6. ASSUME NEW p \in DOMAIN hunk PROVE hunk[p].kind \in {" ", "+", "-"} /\ hunk[p].cur \in Nat
  <2>1. p \in 1 .. b - a + 1 /\ a + p - 1 \in 1 .. n
    BY <1>5, <1>1, <1>2
  <2>2. IsStep(steps[a + p - 1])
    BY <2>1, <1>1 DEF Walks
  <2> QED BY <2>1, <2>2, <1>4 DEF IsStep
<1>7. IsRun(hunk)
  BY <1>5, <1>6 DEF IsRun
<1> QED BY <1>4, <1>7 DEF hunk

(* A hunk starts where its first step is, or one line on; a hunk that ends   *)
(* before a step starts at a line that comes before it.                      *)
LEMMA StartWithin ==
    ASSUME NEW T, NEW steps \in Seq(T), Walks(steps), NEW b \in 1 .. Len(steps), NEW a \in 1 .. b
    PROVE  LET start == StartOf(SubSeq(steps, a, b))
           IN  /\ start \in Nat /\ steps[a].cur <= start
               /\ b + 1 \in 1 .. Len(steps) => start <= steps[b + 1].cur
<1> DEFINE hunk == SubSeq(steps, a, b)
           n == Len(steps)
           own == LinesOn(hunk, "+")
           start == StartOf(hunk)
           m == Min(own)
<1>1. /\ hunk \in Seq(T) /\ Len(hunk) = b - a + 1 /\ IsRun(hunk)
      /\ \A i \in 1 .. b - a + 1 : hunk[i] = steps[a + i - 1]
  BY RunOf
<1>2. n \in Nat /\ DOMAIN steps = 1 .. n /\ b \in 1 .. n /\ a \in 1 .. b
  OBVIOUS
<1> HIDE DEF n, hunk
<1>3. a \in 1 .. n /\ a <= b /\ 1 \in 1 .. b - a + 1 /\ a + 1 - 1 = a
  BY <1>2
<1>4. \A p \in 1 .. n : steps[p].cur \in Nat /\ Goes(steps[p]) \in {0, 1}
  BY <1>2, GoesIs DEF Walks, IsStep
<1>5. hunk[1] = steps[a]
  BY <1>1, <1>3
<1>6. /\ own = {} => start = hunk[1].cur
      /\ own # {} => m \in own /\ start = hunk[m].cur + 1
      /\ start \in Nat
  BY <1>1, SpanFits
<1>7. \A p, q \in 1 .. n : p < q => steps[p].cur + Goes(steps[p]) <= steps[q].cur
  BY <1>2, CursorGrows DEF n
<1>8. own \in SUBSET (1 .. b - a + 1) /\ \A p \in own : hunk[p].kind \in {" ", "+"}
  <2>1. DOMAIN hunk = 1 .. b - a + 1
    BY <1>1
  <2> QED BY <2>1 DEF LinesOn
<1> HIDE DEF own, start
<1>9. CASE own = {}
  <2>1. start = steps[a].cur
    BY <1>5, <1>6, <1>9
  <2>2. steps[a].cur \in Nat /\ Goes(steps[a]) \in {0, 1}
    BY <1>3, <1>4
  <2>3. ASSUME b + 1 \in 1 .. n PROVE start <= steps[b + 1].cur
    <3>1. a < b + 1
      BY <1>2, <1>3
    <3>2. steps[a].cur + Goes(steps[a]) <= steps[b + 1].cur /\ steps[b + 1].cur \in Nat
      BY <2>3, <3>1, <1>3, <1>4, <1>7
    <3> QED BY <3>2, <2>1, <2>2
  <2>4. steps[a].cur <= start
    BY <2>1, <2>2
  <2> QED BY <2>3, <2>4, <1>6 DEF start, hunk, n
<1>10. CASE own # {}
  <2> HIDE DEF m
  <2>1. m \in own /\ start = hunk[m].cur + 1
    BY <1>6, <1>10
  <2> DEFINE c == a + m - 1
  <2>2. m \in 1 .. b - a + 1 /\ hunk[m].kind \in {" ", "+"}
    BY <2>1, <1>8
  <2>3. c \in 1 .. n /\ a <= c /\ c <= b
    <3>1. m \in 1 .. b - a + 1
      BY <2>2
    <3> QED BY <3>1, <1>2
  <2>4. hunk[m] = steps[c]
    BY <2>2, <1>1
  <2> HIDE DEF c
  <2>5. start = steps[c].cur + 1 /\ Goes(steps[c]) = 1 /\ steps[c].cur \in Nat
    BY <2>1, <2>2, <2>3, <2>4, <1>4, GoesIs
  <2>6. steps[a].cur <= steps[c].cur
    <3>1. CASE a = c
      BY <3>1, <2>5
    <3>2. CASE a # c
      <4>1. a < c
        BY <3>2, <2>3, <1>2
      <4>2. steps[a].cur + Goes(steps[a]) <= steps[c].cur
        BY <4>1, <2>3, <1>3, <1>7
      <4>3. steps[a].cur \in Nat /\ Goes(steps[a]) \in {0, 1}
        BY <1>3, <1>4
      <4> QED BY <4>2, <4>3, <2>5
    <3> QED BY <3>1, <3>2
  <2>7. steps[a].cur \in Nat
    BY <1>3, <1>4
  <2>8. steps[a].cur <= start
    BY <2>5, <2>6, <2>7
  <2>9. ASSUME b + 1 \in 1 .. n PROVE start <= steps[b + 1].cur
    <3>1. c < b + 1
      BY <1>2, <2>3
    <3>2. steps[c].cur + Goes(steps[c]) <= steps[b + 1].cur
      BY <2>3, <2>9, <3>1, <1>7
    <3> QED BY <3>2, <2>5
  <2> QED BY <2>8, <2>9, <1>6 DEF start, hunk, n
<1> QED BY <1>9, <1>10

(* Where the hunk of a first change begins and ends.                         *)
FromStep(q) == Max({1, q - Context})
ToStep(steps, q) == Min({Len(steps), LastChange(steps, FirstChanges(steps), q) + Context})

(* A hunk is a part of the script, its first change in it.                      *)
LEMMA HunkBounds ==
    ASSUME NEW T, NEW steps \in Seq(T), NEW q \in FirstChanges(steps)
    PROVE  LET last == LastChange(steps, FirstChanges(steps), q)
           IN  /\ q \in 1 .. Len(steps) /\ last \in 1 .. Len(steps) /\ q <= last
               /\ FromStep(q) = (IF 1 <= q - Context THEN q - Context ELSE 1)
               /\ ToStep(steps, q) = (IF Len(steps) <= last + Context THEN Len(steps) ELSE last + Context)
               /\ ToStep(steps, q) \in 1 .. Len(steps) /\ FromStep(q) \in 1 .. ToStep(steps, q)
<1> DEFINE last == LastChange(steps, FirstChanges(steps), q)
           n == Len(steps)
<1>1. n \in Nat /\ DOMAIN steps = 1 .. n /\ Context \in Nat
  BY DiffAssumption
<1>2. q \in ChangedSteps(steps) /\ last \in ChangedSteps(steps) /\ q <= last
  BY LastChangeIs
<1> HIDE DEF last, n
<1>3. q \in 1 .. n /\ last \in 1 .. n
  BY <1>1, <1>2 DEF ChangedSteps
<1>4. FromStep(q) = IF 1 <= q - Context THEN q - Context ELSE 1
  <2>1. 1 \in Int /\ q - Context \in Int
    BY <1>1, <1>3
  <2> QED BY <2>1, GreatestOfTwo DEF FromStep
<1>5. ToStep(steps, q) = IF n <= last + Context THEN n ELSE last + Context
  <2>1. n \in Int /\ last + Context \in Int
    BY <1>1, <1>3
  <2> QED BY <2>1, LeastOfTwo DEF ToStep, n, last
<1>6. ToStep(steps, q) \in 1 .. n /\ FromStep(q) \in 1 .. ToStep(steps, q)
  <2> DEFINE a == FromStep(q)
             b == ToStep(steps, q)
  <2>1. a = (IF 1 <= q - Context THEN q - Context ELSE 1) /\ b = IF n <= last + Context THEN n ELSE last + Context
    BY <1>4, <1>5
  <2> HIDE DEF a, b
  <2>2. b \in 1 .. n /\ last <= b
    BY <2>1, <1>1, <1>3
  <2>3. a \in 1 .. q
    BY <2>1, <1>1, <1>3
  <2>4. a \in 1 .. b
    BY <2>2, <2>3, <1>2, <1>3
  <2> QED BY <2>2, <2>4 DEF a, b
<1> QED BY <1>2, <1>3, <1>4, <1>5, <1>6 DEF last, n

(* A hunk ends before the next one begins.                                      *)
LEMMA HunksApart ==
    ASSUME NEW T, NEW steps \in Seq(T), Walks(steps),
           NEW q \in FirstChanges(steps), NEW f \in FirstChanges(steps), q < f,
           \A g \in FirstChanges(steps) : g > q => f <= g
    PROVE  StartOf(SubSeq(steps, FromStep(q), ToStep(steps, q)))
               < StartOf(SubSeq(steps, FromStep(f), ToStep(steps, f)))
<1> DEFINE last == LastChange(steps, FirstChanges(steps), q)
           n == Len(steps)
           x == last + Context + 1
           y == f - Context
           a == FromStep(q)
           b == ToStep(steps, q)
           c == FromStep(f)
           d == ToStep(steps, f)
           before == StartOf(SubSeq(steps, a, b))
           after == StartOf(SubSeq(steps, c, d))
<1>1. n \in Nat /\ DOMAIN steps = 1 .. n /\ Context \in Nat
  BY DiffAssumption
<1>2. /\ q \in 1 .. n /\ last \in 1 .. n
      /\ b = IF n <= last + Context THEN n ELSE last + Context
      /\ b \in 1 .. n /\ a \in 1 .. b
  BY HunkBounds
<1>3. /\ f \in 1 .. n
      /\ c = IF 1 <= f - Context THEN f - Context ELSE 1
      /\ d \in 1 .. n /\ c \in 1 .. d
  BY HunkBounds
<1>4. x < y /\ x \notin ChangedSteps(steps)
  BY Between
<1>5. (b + 1 \in 1 .. n => before <= steps[b + 1].cur) /\ before \in Nat
  BY <1>2, StartWithin
<1>6. steps[c].cur <= after /\ after \in Nat
  BY <1>3, StartWithin
<1> HIDE DEF last, n, a, b, c, d, before, after
<1>7. x \in 1 .. n /\ y \in 1 .. n /\ b + 1 = x /\ c = y
  BY <1>1, <1>2, <1>3, <1>4
<1> HIDE DEF x, y
<1>8. Goes(steps[x]) = 1 /\ steps[x].cur \in Nat /\ steps[y].cur \in Nat
  <2>1. IsStep(steps[x]) /\ IsStep(steps[y])
    BY <1>1, <1>7 DEF Walks
  <2>2. steps[x].kind = " "
    BY <1>1, <1>4, <1>7 DEF ChangedSteps
  <2> QED BY <2>1, <2>2 DEF IsStep, Goes
<1>9. steps[x].cur + Goes(steps[x]) <= steps[y].cur
  BY <1>4, <1>7, CursorGrows DEF n
<1>10. before < after
  BY <1>5, <1>6, <1>7, <1>8, <1>9
<1> QED BY <1>10 DEF before, after, a, b, c, d

Rising(hunks) ==
    /\ \A h \in 1 .. Len(hunks) : IsRun(hunks[h])
    /\ \A h \in 2 .. Len(hunks) : StartOf(hunks[h - 1]) < StartOf(hunks[h])

(* The hunks of a script are runs, each starting further on than the one before. *)
LEMMA GroupFits ==
    ASSUME NEW T, NEW steps \in Seq(T), Walks(steps)
    PROVE  Group(steps) \in Seq(Seq(T)) /\ Rising(Group(steps))
<1> DEFINE n == Len(steps)
           all == [q \in DOMAIN steps |-> q]
           firsts == FirstChanges(steps)
           r == Only(all, firsts)
           gs == [h \in DOMAIN r |-> SubSeq(steps, FromStep(r[h]), ToStep(steps, r[h]))]
           k == Len(r)
<1>1. n \in Nat /\ DOMAIN steps = 1 .. n
  OBVIOUS
<1>2. all \in Seq(Nat) /\ Len(all) = n /\ \A q \in 1 .. n : all[q] = q
  BY <1>1
<1>3. Group(steps) = gs
  BY DEF Group, FromStep, ToStep
<1> HIDE DEF n, all
<1>4. r \in Seq(Nat) /\ \E pos : Picks(r, all, Len(all), pos, firsts)
  BY <1>2, OnlyPicks
<1> HIDE DEF r
<1>5. PICK pos : Picks(r, all, n, pos, firsts)
  BY <1>2, <1>4
<1>6. k \in Nat /\ DOMAIN r = 1 .. k
  BY <1>4
<1>7. /\ pos \in [1 .. k -> 1 .. n]
      /\ \A i, j \in 1 .. k : i < j => pos[i] < pos[j]
      /\ \A i \in 1 .. k : r[i] = all[pos[i]] /\ r[i] \in firsts
      /\ \A j \in 1 .. n : all[j] \in firsts => \E i \in 1 .. k : pos[i] = j
  BY <1>5 DEF Picks
<1> HIDE DEF k
<1>8. \A i \in 1 .. k : r[i] = pos[i] /\ r[i] \in firsts
  BY <1>2, <1>7
<1>9. \A g \in firsts : g \in 1 .. n
  BY HunkBounds DEF n
<1> HIDE DEF firsts
<1>10. gs = [h \in 1 .. k |-> gs[h]]
       /\ \A h \in 1 .. k : gs[h] = SubSeq(steps, FromStep(r[h]), ToStep(steps, r[h]))
  BY <1>6
<1> HIDE DEF gs
<1>11. ASSUME NEW h \in 1 .. k PROVE gs[h] \in Seq(T) /\ IsRun(gs[h])
  <2> DEFINE a == FromStep(r[h])
             b == ToStep(steps, r[h])
  <2>1. r[h] \in FirstChanges(steps)
    BY <1>8 DEF firsts
  <2>2. b \in 1 .. Len(steps) /\ a \in 1 .. b
    BY <2>1, HunkBounds
  <2>3. SubSeq(steps, a, b) \in Seq(T) /\ IsRun(SubSeq(steps, a, b))
    <3> HIDE DEF a, b
    <3> QED BY <2>2, RunOf
  <2> QED BY <2>3, <1>10
<1>12. ASSUME NEW h \in 2 .. k PROVE StartOf(gs[h - 1]) < StartOf(gs[h])
  <2>1. h - 1 \in 1 .. k /\ h \in 1 .. k /\ h - 1 < h
    BY <1>6 DEF k
  <2> DEFINE q == r[h - 1]
             f == r[h]
  <2>2. q \in firsts /\ f \in firsts /\ q < f
    BY <2>1, <1>7, <1>8
  <2>3. ASSUME NEW g \in firsts, g > q PROVE f <= g
    <3>1. g \in 1 .. n /\ all[g] = g
      BY <1>9, <1>2
    <3>2. PICK i \in 1 .. k : pos[i] = g
      BY <3>1, <1>7
    <3>3. q = pos[h - 1] /\ f = pos[h]
      BY <2>1, <1>8
    <3>4. pos[h - 1] \in Nat /\ pos[h] \in Nat /\ pos[i] \in Nat
      <4>1. pos[h - 1] \in 1 .. n /\ pos[h] \in 1 .. n /\ pos[i] \in 1 .. n
        BY <2>1, <3>2, <1>7
      <4> QED BY <4>1
    <3>5. i \in Nat /\ h \in Nat
      BY <2>1, <3>2
    <3>6. CASE i < h
      <4>1. i = h - 1 \/ i < h - 1
        BY <3>5, <3>6
      <4>2. ~(i < h - 1)
        <5>1. i < h - 1 => pos[i] < pos[h - 1]
          BY <2>1, <1>7
        <5> HIDE DEF q
        <5> QED BY <5>1, <3>2, <3>3, <3>4, <2>3
      <4>3. i # h - 1
        <5> HIDE DEF q
        <5> QED BY <3>2, <3>3, <3>4, <2>3
      <4> QED BY <4>1, <4>2, <4>3
    <3>7. CASE i = h
      <4> HIDE DEF f
      <4> QED BY <3>7, <3>2, <3>3, <3>4
    <3>8. CASE i > h
      <4>1. pos[h] < pos[i]
        BY <2>1, <3>8, <3>5, <1>7
      <4> HIDE DEF f
      <4> QED BY <4>1, <3>2, <3>3, <3>4
    <3> QED BY <3>5, <3>6, <3>7, <3>8
  <2>4. StartOf(SubSeq(steps, FromStep(q), ToStep(steps, q)))
            < StartOf(SubSeq(steps, FromStep(f), ToStep(steps, f)))
    <3> HIDE DEF q, f
    <3> QED BY <2>2, <2>3, HunksApart DEF firsts
  <2> QED BY <2>1, <2>4, <1>10
<1>13. gs \in Seq(Seq(T)) /\ Len(gs) = k
  <2> DEFINE Q == Seq(T)
  <2>1. \A h \in 1 .. k : gs[h] \in Q
    BY <1>11
  <2> HIDE DEF Q
  <2>2. gs \in Seq(Q) /\ Len(gs) = k
    <3>1. k \in Nat
      BY <1>6
    <3> QED BY <3>1, <2>1, <1>10, ListIs
  <2> QED BY <2>2 DEF Q
<1>14. Rising(gs)
  BY <1>11, <1>12, <1>13 DEF Rising
<1> QED BY <1>3, <1>13, <1>14

Steps == [kind : {" ", "+", "-"}, old : Nat, cur : Nat]

(* Whatever is deleted and inserted, what Rebuild returns is a script.          *)
LEMMA RebuildFits ==
    ASSUME NEW old, NEW cur, NEW deleted, NEW inserted, Len(old) \in Nat, Len(cur) \in Nat
    PROVE  /\ Rebuild(old, cur, deleted, inserted) \in Seq(Steps)
           /\ Walks(Rebuild(old, cur, deleted, inserted))
<1> DEFINE n == Len(old) + Len(cur)
           Step(i, j) == [kind |-> IF i + 1 \in deleted THEN "-" ELSE IF j + 1 \in inserted THEN "+" ELSE " ",
                          old |-> i, cur |-> j]
           After(s) == Step(s.old + (IF s.kind = "+" THEN 0 ELSE 1), s.cur + (IF s.kind = "-" THEN 0 ELSE 1))
           Eq(f) == f = [p \in 1 .. Len(old) + Len(cur) |-> IF p = 1 THEN Step(0, 0) ELSE After(f[p - 1])]
           step == CHOOSE f : Eq(f)
           succ == [x \in Steps \X (1 .. n) |-> After(x[1])]
           inside == {p \in DOMAIN step : step[p].old < Len(old) \/ step[p].cur < Len(cur)}
           k == Cardinality(inside)
           out == SubSeq(step, 1, k)
<1>1. Rebuild(old, cur, deleted, inserted) = out
  BY DEF Rebuild
<1>2. n \in Nat
  OBVIOUS
<1>3. \A i, j \in Nat : Step(i, j) \in Steps /\ Step(i, j).cur = j
  BY DEF Steps
<1> HIDE DEF Step
<1>4. ASSUME NEW s \in Steps PROVE After(s) \in Steps /\ After(s).cur = s.cur + Goes(s)
  <2> DEFINE i == s.old + (IF s.kind = "+" THEN 0 ELSE 1)
             j == s.cur + (IF s.kind = "-" THEN 0 ELSE 1)
  <2>1. s.old \in Nat /\ s.cur \in Nat
    BY DEF Steps
  <2>2. i \in Nat /\ j \in Nat
    BY <2>1
  <2>3. j = s.cur + Goes(s)
    BY DEF Goes
  <2> HIDE DEF i, j
  <2>4. Step(i, j) \in Steps /\ Step(i, j).cur = j
    BY <2>2, <1>3
  <2> QED BY <2>3, <2>4 DEF i, j
<1> HIDE DEF After
<1>5. succ \in [Steps \X (1 .. n) -> Steps]
  <2>1. \A x \in Steps \X (1 .. n) : After(x[1]) \in Steps
    BY <1>4
  <2> QED BY <2>1
<1>6. \A s \in Steps, p \in 1 .. n : succ[<<s, p>>] = After(s)
  OBVIOUS
<1> HIDE DEF succ
<1>7. PICK f \in [1 .. n -> Steps] : IsChain(f, n, Step(0, 0), succ)
  <2>1. Step(0, 0) \in Steps
    BY <1>3
  <2> HIDE DEF n
  <2> QED BY <1>2, <1>5, <2>1, Recursion
<1>8. ASSUME NEW p \in 1 .. n PROVE f[p] = IF p = 1 THEN Step(0, 0) ELSE After(f[p - 1])
  <2>1. CASE p = 1
    BY <1>7, <2>1 DEF IsChain
  <2>2. CASE p # 1
    <3>1. p - 1 \in 1 .. n
      BY <1>2, <2>2
    <3>2. succ[<<f[p - 1], p>>] = After(f[p - 1])
      BY <3>1, <1>6
    <3> HIDE DEF n
    <3> QED BY <3>2, <2>2, <1>7 DEF IsChain
  <2> QED BY <2>1, <2>2
<1>9. Eq(f)
  <2>1. f = [p \in 1 .. n |-> f[p]]
    OBVIOUS
  <2> QED BY <2>1, <1>8
<1>10. Eq(step)
  <2> HIDE DEF Eq
  <2> QED BY <1>9
<1> HIDE DEF step
<1>11. /\ DOMAIN step = 1 .. n
       /\ \A p \in 1 .. n : step[p] = IF p = 1 THEN Step(0, 0) ELSE After(step[p - 1])
  BY <1>10
<1> HIDE DEF n
<1> DEFINE U == {i \in Nat : i + 1 \in 1 .. n => step[i + 1] \in Steps}
<1>12. 0 \in U
  <2>1. ASSUME 0 + 1 \in 1 .. n PROVE step[0 + 1] \in Steps
    <3>1. step[1] = Step(0, 0)
      BY <2>1, <1>11
    <3> QED BY <3>1, <1>3
  <2> QED BY <2>1
<1>13. ASSUME NEW i \in Nat, i \in U PROVE i + 1 \in U
  <2>1. ASSUME (i + 1) + 1 \in 1 .. n PROVE step[(i + 1) + 1] \in Steps
    <3> DEFINE j == i + 1
    <3>1. j \in 1 .. n /\ j + 1 # 1 /\ (j + 1) - 1 = j
      BY <2>1, <1>2
    <3>2. step[j] \in Steps
      BY <3>1, <1>13
    <3> HIDE DEF j
    <3>3. step[j + 1] = After(step[j])
      <4>1. j + 1 \in 1 .. n
        BY <2>1 DEF j
      <4> QED BY <4>1, <3>1, <1>11
    <3>4. step[j + 1] \in Steps
      BY <3>2, <3>3, <1>4
    <3> QED BY <3>4 DEF j
  <2>2. i + 1 \in Nat
    OBVIOUS
  <2> QED BY <2>1, <2>2
<1> HIDE DEF U
<1>14. \A i \in Nat : i \in U
  BY <1>12, <1>13, Induction
<1>15. \A p \in 1 .. n : step[p] \in Steps
  <2>1. ASSUME NEW p \in 1 .. n PROVE step[p] \in Steps
    <3>1. p - 1 \in Nat /\ (p - 1) + 1 = p
      BY <1>2
    <3>2. p - 1 \in U
      BY <3>1, <1>14
    <3> QED BY <3>1, <3>2 DEF U
  <2> QED BY <2>1
<1>16. k \in Nat /\ k <= n
  <2>1. IsFiniteSet(1 .. n) /\ Cardinality(1 .. n) = n
    BY <1>2, FS_Interval
  <2>2. inside \in SUBSET (1 .. n)
    BY <1>11
  <2> HIDE DEF inside
  <2>3. IsFiniteSet(inside) /\ Cardinality(inside) <= Cardinality(1 .. n)
    BY <2>1, <2>2, FS_Subset
  <2>4. k \in Nat
    BY <2>3, FS_CardinalityType
  <2> QED BY <2>1, <2>3, <2>4
<1> HIDE DEF k
<1>17. /\ out \in Seq(Steps) /\ Len(out) = k
       /\ \A p \in 1 .. k : out[p] = step[p]
  <2>1. 1 \in Int /\ k \in Int /\ \A i \in 1 .. k : step[i] \in Steps
    BY <1>2, <1>15, <1>16
  <2>2. /\ out \in Seq(Steps) /\ Len(out) = IF 1 <= k THEN k - 1 + 1 ELSE 0
        /\ \A i \in 1 .. k - 1 + 1 : out[i] = step[1 + i - 1]
    BY <2>1, SubSeqProperties
  <2> HIDE DEF out
  <2>3. \A i \in 1 .. k : i \in 1 .. k - 1 + 1 /\ 1 + i - 1 = i
    BY <1>16
  <2>4. Len(out) = k
    BY <2>2, <1>16
  <2> QED BY <2>2, <2>3, <2>4
<1> HIDE DEF out
<1>18. DOMAIN out = 1 .. k
  BY <1>17
<1>19. ASSUME NEW p \in 1 .. k PROVE IsStep(out[p])
  <2>1. out[p] \in Steps
    BY <1>17
  <2> QED BY <2>1 DEF Steps, IsStep
<1>20. ASSUME NEW p \in 1 .. k, p + 1 \in 1 .. k PROVE out[p + 1].cur = out[p].cur + Goes(out[p])
  <2>1. p \in 1 .. n /\ p + 1 \in 1 .. n /\ p + 1 # 1 /\ (p + 1) - 1 = p
    BY <1>2, <1>16, <1>20
  <2>2. step[p + 1] = After(step[p])
    BY <2>1, <1>11
  <2>3. step[p] \in Steps
    BY <2>1, <1>15
  <2>4. step[p + 1].cur = step[p].cur + Goes(step[p])
    BY <2>2, <2>3, <1>4
  <2> QED BY <2>4, <1>17, <1>20
<1>21. Walks(out)
  BY <1>18, <1>19, <1>20 DEF Walks
<1> QED BY <1>1, <1>17, <1>21

(* What the engine computes of any two files is a unified diff.              *)
THEOREM UnifiedFits ==
    ASSUME NEW old, NEW cur, old \in Seq(Range(old)), cur \in Seq(Range(cur))
    PROVE  LET patch == Raws(Unified(old, cur).patch)
           IN  patch = <<>> \/ WellFormed(patch, TRUE)
<1> DEFINE script == Script(old, cur)
           hunks == Group(script.steps)
           rs == [h \in DOMAIN hunks |-> Render(hunks[h], old, cur)]
           whole == FlattenSeq(rs)
           raw == Unified(old, cur).patch
<1>1. script.steps \in Seq(Steps) /\ Walks(script.steps)
  <2>1. Len(old) \in Nat /\ Len(cur) \in Nat
    BY SequenceOfItsRange
  <2>2. \E deleted, inserted : script.steps = Rebuild(old, cur, deleted, inserted)
    BY DEF Script
  <2> HIDE DEF script
  <2> QED BY <2>1, <2>2, RebuildFits
<1> HIDE DEF script
<1>2. hunks \in Seq(Seq(Steps)) /\ Rising(hunks)
  BY <1>1, GroupFits
<1>3. raw = <<>> \/ raw = whole
  <2>1. Unified(old, cur) = NoPatch \/ raw = whole
    BY DEF Unified, script
  <2> HIDE DEF whole
  <2>2. NoPatch.patch = <<>>
    BY DEF NoPatch
  <2> QED BY <2>1, <2>2
<1> HIDE DEF hunks, raw
<1> DEFINE k == Len(hunks)
           Q == UNION {Range(rs[h]) : h \in 1 .. k}
<1>4. k \in Nat /\ DOMAIN hunks = 1 .. k /\ \A h \in 1 .. k : hunks[h] \in Seq(Steps)
  BY <1>2
<1> HIDE DEF k
<1>5. rs = [h \in 1 .. k |-> rs[h]] /\ \A h \in 1 .. k : rs[h] = Render(hunks[h], old, cur)
  BY <1>4
<1> HIDE DEF rs
<1>6. ASSUME NEW h \in 1 .. k
      PROVE  rs[h] \in Seq(Range(rs[h])) /\ IsBlock(rs[h]) /\ StartIn(rs[h]) = StartOf(hunks[h])
  <2>1. hunks[h] \in Seq(Steps) /\ IsRun(hunks[h])
    BY <1>2, <1>4 DEF Rising, k
  <2>2. LET r == Render(hunks[h], old, cur)
        IN  r \in Seq(Range(r)) /\ IsBlock(r) /\ r[1].new.start = StartOf(hunks[h])
    BY <2>1, RenderFits
  <2> QED BY <2>2, <1>5 DEF StartIn
<1>7. rs \in Seq(Seq(Q)) /\ Len(rs) = k
  <2>1. ASSUME NEW h \in 1 .. k PROVE rs[h] \in Seq(Q)
    <3> DEFINE R == Range(rs[h])
    <3>1. R \in SUBSET Q
      OBVIOUS
    <3>2. rs[h] \in Seq(R)
      BY <1>6
    <3> HIDE DEF R, Q
    <3> QED BY <3>1, <3>2
  <2> DEFINE S == Seq(Q)
  <2>2. \A h \in 1 .. k : rs[h] \in S
    BY <2>1
  <2> HIDE DEF S
  <2>3. rs \in Seq(S) /\ Len(rs) = k
    BY <2>2, <1>4, <1>5, ListIs
  <2> QED BY <2>3 DEF S
<1>8. AreBlocks(rs)
  <2>1. \A h \in 2 .. k : StartIn(rs[h - 1]) < StartIn(rs[h])
    <3>1. ASSUME NEW h \in 2 .. k PROVE StartIn(rs[h - 1]) < StartIn(rs[h])
      <4>1. h \in 1 .. k /\ h - 1 \in 1 .. k
        BY <1>4
      <4>2. StartOf(hunks[h - 1]) < StartOf(hunks[h])
        BY <1>2 DEF Rising, k
      <4> QED BY <4>1, <4>2, <1>6
    <3> QED BY <3>1
  <2> QED BY <2>1, <1>6, <1>7 DEF AreBlocks
<1> HIDE DEF Q
<1>9. CASE k = 0
  <2>1. rs = <<>>
    BY <1>7, <1>9
  <2>2. whole = <<>>
    <3>1. FlattenSeq(<<>>) = <<>>
      BY DEF FlattenSeq
    <3> QED BY <2>1, <3>1
  <2>3. raw = <<>>
    BY <2>2, <1>3
  <2> QED BY <2>3 DEF Raws, raw
<1>10. CASE k # 0
  <2>1. rs # <<>>
    BY <1>7, <1>10
  <2>2. whole \in Seq(Q) /\ \E last : IsBlocks(whole, last)
    BY <1>7, <1>8, <2>1, BlocksOf
  <2> HIDE DEF whole
  <2>3. WellFormed(Append(whole, [tag |-> ""]), TRUE)
    BY <2>2, BlocksEnd
  <2>4. Raws(raw) = <<>> \/ Raws(raw) = Append(whole, [tag |-> ""])
    BY <1>3 DEF Raws
  <2> QED BY <2>3, <2>4 DEF raw
<1> QED BY <1>9, <1>10

-----------------------------------------------------------------------------
(* The files of a diff as they are listed, filtered and cut off.               *)

(* The files of a diff: each path once, each patch a unified diff.           *)
FitFiles(fs, ended) ==
    /\ fs \in Seq(Range(fs))
    /\ \A i, j \in DOMAIN fs : fs[i].path = fs[j].path => i = j
    /\ \A i \in DOMAIN fs : fs[i].patch = <<>> \/ WellFormed(fs[i].patch, ended)

(* A choice of a diff's files is one whose files fit; so are the first of them. *)
LEMMA FitSelected ==
    ASSUME NEW fs, NEW ended, FitFiles(fs, ended), NEW gs, gs \in Seq(Range(gs)),
           NEW pos \in [1 .. Len(gs) -> 1 .. Len(fs)], \A i, j \in 1 .. Len(gs) : pos[i] = pos[j] => i = j,
           \A i \in 1 .. Len(gs) : gs[i] = fs[pos[i]]
    PROVE  FitFiles(gs, ended)
<1>1. DOMAIN gs = 1 .. Len(gs) /\ DOMAIN fs = 1 .. Len(fs)
  BY SequenceOfItsRange DEF FitFiles
<1>2. \A i \in 1 .. Len(gs) : pos[i] \in DOMAIN fs
  BY <1>1
<1>3. \A i, j \in DOMAIN gs : gs[i].path = gs[j].path => i = j
  BY <1>1, <1>2 DEF FitFiles
<1>4. \A i \in DOMAIN gs : gs[i].patch = <<>> \/ WellFormed(gs[i].patch, ended)
  BY <1>1, <1>2 DEF FitFiles
<1> QED BY <1>3, <1>4 DEF FitFiles

LEMMA FitOnly ==
    ASSUME NEW fs, NEW ended, FitFiles(fs, ended), NEW set
    PROVE  FitFiles(Only(fs, set), ended)
<1> DEFINE gs == Only(fs, set)
<1>1. fs \in Seq(Range(fs))
  BY DEF FitFiles
<1>2. gs \in Seq(Range(fs)) /\ \E pos : Picks(gs, fs, Len(fs), pos, set)
  <2> DEFINE R == Range(fs)
  <2> HIDE DEF R
  <2>1. fs \in Seq(R)
    BY <1>1 DEF R
  <2>2. gs \in Seq(R) /\ \E pos : Picks(gs, fs, Len(fs), pos, set)
    BY <2>1, OnlyPicks
  <2> QED BY <2>2 DEF R
<1>3. PICK pos : Picks(gs, fs, Len(fs), pos, set)
  BY <1>2
<1> HIDE DEF gs
<1>4. gs \in Seq(Range(gs)) /\ Len(gs) \in Nat
  BY <1>2, InItsRange
<1>5. /\ pos \in [1 .. Len(gs) -> 1 .. Len(fs)]
      /\ \A i, j \in 1 .. Len(gs) : i < j => pos[i] < pos[j]
      /\ \A i \in 1 .. Len(gs) : gs[i] = fs[pos[i]]
  BY <1>3 DEF Picks
<1>6. Len(fs) \in Nat
  BY <1>1, SequenceOfItsRange
<1>7. \A i, j \in 1 .. Len(gs) : pos[i] = pos[j] => i = j
  BY <1>4, <1>5, <1>6
<1>8. FitFiles(gs, ended)
  BY <1>4, <1>5, <1>7, FitSelected
<1> QED BY <1>8 DEF gs

LEMMA FitFirst ==
    ASSUME NEW fs, NEW ended, FitFiles(fs, ended), NEW n \in Int
    PROVE  FitFiles(First(n, fs), ended)
<1> DEFINE gs == First(n, fs)
           R == Range(fs)
           pos == [i \in 1 .. Len(gs) |-> i]
<1> HIDE DEF R
<1>1. fs \in Seq(R)
  BY DEF FitFiles, R
<1>2. /\ gs \in Seq(R) /\ Len(gs) = IF n <= 0 THEN 0 ELSE IF n <= Len(fs) THEN n ELSE Len(fs)
      /\ \A i \in 1 .. Len(gs) : gs[i] = fs[i]
  BY <1>1, FirstOfMany
<1> HIDE DEF gs
<1>3. Len(fs) \in Nat
  BY <1>1
<1>4. Len(gs) \in Nat /\ Len(gs) <= Len(fs)
  BY <1>2, <1>3
<1>5. pos \in [1 .. Len(gs) -> 1 .. Len(fs)]
  BY <1>3, <1>4
<1>6. gs \in Seq(Range(gs))
  BY <1>2, InItsRange
<1>7. \A i \in 1 .. Len(gs) : pos[i] = i /\ gs[i] = fs[pos[i]]
  BY <1>2
<1> HIDE DEF pos
<1>8. FitFiles(gs, ended)
  BY <1>5, <1>6, <1>7, FitSelected
<1> QED BY <1>8 DEF gs

(* What only picks out of a sequence, as a set.                              *)
LEMMA RangeOfOnly ==
    ASSUME NEW s, s \in Seq(Range(s)), NEW set
    PROVE  Only(s, set) \in Seq(Range(s)) /\ Range(Only(s, set)) = Range(s) \cap set
<1> DEFINE R == Range(s)
           r == Only(s, set)
<1> HIDE DEF R
<1>1. s \in Seq(R)
  BY DEF R
<1>2. r \in Seq(R) /\ \E pos : Picks(r, s, Len(s), pos, set)
  BY <1>1, OnlyPicks
<1> HIDE DEF r
<1>3. PICK pos : Picks(r, s, Len(s), pos, set)
  BY <1>2
<1>4. DOMAIN r = 1 .. Len(r) /\ DOMAIN s = 1 .. Len(s)
  BY <1>1, <1>2
<1>5. ASSUME NEW e \in Range(r) PROVE e \in Range(s) \cap set
  <2>1. PICK i \in 1 .. Len(r) : e = r[i]
    BY <1>4 DEF Range
  <2>2. pos[i] \in DOMAIN s /\ e = s[pos[i]] /\ e \in set
    BY <2>1, <1>3, <1>4 DEF Picks
  <2> QED BY <2>2 DEF Range
<1>6. ASSUME NEW e \in Range(s) \cap set PROVE e \in Range(r)
  <2>1. PICK j \in 1 .. Len(s) : e = s[j]
    BY <1>4 DEF Range
  <2>2. PICK i \in 1 .. Len(r) : pos[i] = j
    BY <2>1, <1>3 DEF Picks
  <2>3. e = r[i]
    BY <2>1, <2>2, <1>3 DEF Picks
  <2> QED BY <2>3, <1>4 DEF Range
<1> QED BY <1>2, <1>5, <1>6 DEF R, r

LinesOfFile(fs, ended, path, line) ==
    \E i \in DOMAIN fs : fs[i].path = path /\ fs[i].patch # <<>> /\ ShownLine(fs[i].patch, ended, line)

(* Where a comment is allowed is where the diff shows a line.                   *)
LEMMA LinesAllowed ==
    ASSUME NEW fs, NEW ended \in BOOLEAN, FitFiles(fs, ended), NEW path, NEW line \in Int
    PROVE  LineAllowed(Positions(fs), path, line) <=> LinesOfFile(fs, ended, path, line)
<1> DEFINE withPatch == {i \in DOMAIN fs : fs[i].patch # <<>>}
           Of(p) == Max({i \in withPatch : fs[i].path = p})
           P == Positions(fs)
<1>1. P = [p \in {fs[i].path : i \in withPatch} |-> CommentableLines(fs[Of(p)].patch)]
  BY DEF Positions
<1>2. \A i, j \in DOMAIN fs : fs[i].path = fs[j].path => i = j
  BY DEF FitFiles
<1>3. DOMAIN fs \in SUBSET Int
  BY SequenceOfItsRange DEF FitFiles
<1>4. ASSUME NEW i \in withPatch PROVE Of(fs[i].path) = i
  <2>1. {j \in withPatch : fs[j].path = fs[i].path} = {i}
    BY <1>2
  <2>2. i \in Int
    BY <1>3
  <2>3. Max({i}) = i
    BY <2>2 DEF Max
  <2> QED BY <2>1, <2>3
<1> HIDE DEF Of, P
<1>5. ASSUME NEW i \in withPatch
      PROVE  fs[i].path \in DOMAIN P /\ (line \in P[fs[i].path] <=> ShownLine(fs[i].patch, ended, line))
  <2>1. fs[i].path \in DOMAIN P /\ P[fs[i].path] = CommentableLines(fs[i].patch)
    BY <1>1, <1>4
  <2>2. WellFormed(fs[i].patch, ended)
    BY DEF FitFiles
  <2> QED BY <2>1, <2>2, LinesOfPatch
<1>6. LineAllowed(P, path, line) <=> \E i \in withPatch : fs[i].path = path /\ ShownLine(fs[i].patch, ended, line)
  <2>1. path \in DOMAIN P => \E i \in withPatch : fs[i].path = path
    BY <1>1
  <2> QED BY <2>1, <1>2, <1>5 DEF LineAllowed
<1> QED BY <1>6 DEF LinesOfFile, P

(* What a review's diff shows, as FindingsFit says it.                       *)
LEMMA ShowsLines ==
    ASSUME FitFiles(full.files, pull.platform # "github"), NEW path, NEW line \in Int
    PROVE  Shows(path, line) <=> LineAllowed(Positions(full.files), path, line)
<1> DEFINE fs == full.files
           ended == pull.platform # "github"
<1>1. \A i, j \in DOMAIN fs : fs[i].path = fs[j].path => i = j
  BY DEF FitFiles
<1>2. LineAllowed(Positions(fs), path, line) <=> LinesOfFile(fs, ended, path, line)
  BY LinesAllowed
<1>3. Hunks(path) = UNION {{fs[i].patch[p].new : p \in Heads(fs[i].patch)} : i \in {j \in DOMAIN fs : fs[j].path = path}}
  BY DEF Hunks
<1>4. ASSUME NEW i \in DOMAIN fs, fs[i].path = path
      PROVE  Hunks(path) = {fs[i].patch[p].new : p \in Heads(fs[i].patch)}
  <2>1. {j \in DOMAIN fs : fs[j].path = path} = {i}
    BY <1>1, <1>4
  <2> QED BY <2>1, <1>3
<1>5. ASSUME NEW i \in DOMAIN fs, fs[i].path = path
      PROVE  Shows(path, line) <=> fs[i].patch # <<>> /\ ShownLine(fs[i].patch, ended, line)
  <2>1. Shows(path, line) <=> ShownLine(fs[i].patch, ended, line)
    BY <1>4, <1>5 DEF Shows, ShownLine
  <2>2. fs[i].patch = <<>> => ~ShownLine(fs[i].patch, ended, line)
    <3>1. Heads(<<>>) = {}
      BY DEF Heads
    <3> QED BY <3>1 DEF ShownLine
  <2> QED BY <2>1, <2>2
<1>6. CASE \E i \in DOMAIN fs : fs[i].path = path
  <2>1. PICK i \in DOMAIN fs : fs[i].path = path
    BY <1>6
  <2>2. LinesOfFile(fs, ended, path, line) <=> fs[i].patch # <<>> /\ ShownLine(fs[i].patch, ended, line)
    BY <2>1, <1>1 DEF LinesOfFile
  <2> QED BY <2>1, <2>2, <1>2, <1>5
<1>7. CASE ~\E i \in DOMAIN fs : fs[i].path = path
  <2>1. ~LinesOfFile(fs, ended, path, line)
    BY <1>7 DEF LinesOfFile
  <2>2. Hunks(path) = {}
    BY <1>3, <1>7
  <2>3. ~Shows(path, line)
    BY <2>2 DEF Shows
  <2> QED BY <2>1, <2>3, <1>2
<1> QED BY <1>6, <1>7

Bounds ==
    /\ MaxFiles \in Nat \ {0} /\ MaxPages * PageSize \in Nat \ {0}
    /\ ChangePages * ChangePageSize \in Nat \ {0}

(* The limits of the listings are numbers.                                      *)
LEMMA BoundsHold == Bounds
<1>1. /\ PageSize \in Nat \ {0} /\ MaxPages \in Nat \ {0} /\ ChangePageSize \in Nat \ {0}
      /\ ChangePages \in Nat \ {0} /\ MaxFiles \in Nat \ {0}
  BY ListingAssumption
<1>2. \A x, y \in Nat \ {0} : x * y \in Nat \ {0}
  OBVIOUS
<1> QED BY <1>1, <1>2 DEF Bounds

LEMMA FirstIsAll ==
    ASSUME NEW s, s \in Seq(Range(s)), NEW n \in Nat, Len(s) <= n
    PROVE  First(n, s) = s
<1> DEFINE R == Range(s)
           f == First(n, s)
           m == Len(s)
<1> HIDE DEF R
<1>1. s \in Seq(R)
  BY DEF R
<1>2. /\ f \in Seq(R) /\ Len(f) = IF n <= 0 THEN 0 ELSE IF n <= Len(s) THEN n ELSE Len(s)
      /\ \A i \in 1 .. Len(f) : f[i] = s[i]
  BY <1>1, FirstOfMany
<1>3. m \in Nat
  BY <1>1
<1> HIDE DEF f
<1>4. Len(f) = m
  BY <1>2, <1>3
<1>5. f = [i \in 1 .. m |-> f[i]] /\ s = [i \in 1 .. m |-> s[i]]
  BY <1>1, <1>2, <1>4
<1> HIDE DEF m
<1>6. f = s
  BY <1>2, <1>4, <1>5
<1> QED BY <1>6 DEF f

(* What GitHub and GitLab list fits, and unless it is cut off it is all.        *)
LEMMA PagedFits ==
    ASSUME NEW listing, NEW ended, FitFiles(listing, ended)
    PROVE  FitFiles(Paged(listing).files, ended)
<1>1. FitFiles(First(MaxPages * PageSize, listing), ended)
  <2>1. MaxPages * PageSize \in Int
    BY BoundsHold DEF Bounds
  <2> QED BY <2>1, FitFirst
<1>2. FitFiles(First(MaxFiles, First(MaxPages * PageSize, listing)), ended)
  <2>1. MaxFiles \in Int
    BY BoundsHold DEF Bounds
  <2> QED BY <1>1, <2>1, FitFirst
<1> QED BY <1>2 DEF Paged

LEMMA PagedHasAll ==
    ASSUME NEW listing, listing \in Seq(Range(listing)), ~Paged(listing).truncated
    PROVE  Paged(listing).files = listing
<1> DEFINE n == MaxPages * PageSize
<1>1. n \in Nat /\ MaxFiles \in Nat
  BY BoundsHold DEF Bounds
<1>2. ~(Len(First(n, listing)) > MaxFiles) /\ ~(Len(listing) >= n)
  BY DEF Paged
<1>3. Paged(listing).files = First(MaxFiles, First(n, listing))
  BY DEF Paged
<1> HIDE DEF n
<1>4. Len(listing) \in Nat
  BY SequenceOfItsRange
<1>5. Len(listing) <= n
  BY <1>1, <1>2, <1>4
<1>6. First(n, listing) = listing
  BY <1>1, <1>5, FirstIsAll
<1>7. Len(listing) <= MaxFiles
  BY <1>1, <1>2, <1>4, <1>6
<1> QED BY <1>1, <1>3, <1>6, <1>7, FirstIsAll

(* What GitHub and GitLab list.                                              *)
ListedFiles(p, which) == [i \in DOMAIN p.listing[which] |-> FileOf(p, p.listing[which][i])]

LEMMA ListedIsSequence ==
    ASSUME NEW p, IsPull(p), NEW which \in {"diff", "compare"}
    PROVE  ListedFiles(p, which) \in Seq(Range(ListedFiles(p, which)))
<1> DEFINE s == p.listing[which]
           n == Len(s)
           S == {FileOf(p, s[i]) : i \in 1 .. n}
           l == ListedFiles(p, which)
<1>1. s \in Seq(Range(s))
  BY DEF IsPull
<1>2. n \in Nat /\ DOMAIN s = 1 .. n
  BY <1>1, SequenceOfItsRange
<1>3. l = [i \in 1 .. n |-> FileOf(p, s[i])]
  BY <1>2 DEF ListedFiles
<1>4. \A i \in 1 .. n : FileOf(p, s[i]) \in S
  OBVIOUS
<1> HIDE DEF s, n, S, l
<1>5. l \in Seq(S)
  BY <1>2, <1>3, <1>4
<1> QED BY <1>5, InItsRange DEF l

LEMMA ListedFits ==
    ASSUME NEW p, IsPull(p), p.platform # "azure"
    PROVE  FitFiles(ListedFiles(p, "diff"), p.platform # "github")
<1> DEFINE s == p.listing["diff"]
           l == ListedFiles(p, "diff")
<1>1. l \in Seq(Range(l))
  BY ListedIsSequence
<1>2. DOMAIN l = DOMAIN s /\ \A i \in DOMAIN s : l[i] = FileOf(p, s[i])
  BY DEF ListedFiles
<1>3. Entries(p, "diff") = DOMAIN s
  BY DEF Entries
<1> HIDE DEF l
<1>4. \A i, j \in DOMAIN l : l[i].path = l[j].path => i = j
  BY <1>2, <1>3 DEF IsPull
<1>5. \A i \in DOMAIN l : l[i].patch = <<>> \/ WellFormed(l[i].patch, p.platform # "github")
  BY <1>2, <1>3 DEF IsPull
<1> QED BY <1>1, <1>4, <1>5 DEF FitFiles, l

LEMMA PlatformLists ==
    ASSUME NEW which \in {"diff", "compare"}
    PROVE  /\ pull.platform = "github" => Mapped(pull.listing[which], GitHubFile) = ListedFiles(pull, which)
           /\ pull.platform = "gitlab" => Mapped(pull.listing[which], GitLabFile) = ListedFiles(pull, which)
  BY DEF Mapped, ListedFiles, FileOf

(* The diff of GitHub or GitLab fits.                                           *)
LEMMA PlatformDiffFits ==
    ASSUME IsPull(pull), ~Azure
    PROVE  FitFiles(PlatformDiff.files, pull.platform # "github")
<1>1. pull.platform \in {"github", "gitlab"}
  BY DEF IsPull, Azure
<1>2. PlatformDiff = Paged(ListedFiles(pull, "diff"))
  BY <1>1, PlatformLists DEF PlatformDiff
<1>3. FitFiles(ListedFiles(pull, "diff"), pull.platform # "github")
  BY <1>1, ListedFits
<1> QED BY <1>2, <1>3, PagedFits

(* A comparison of theirs that is not cut off has all that was pushed.          *)
LEMMA ComparisonHasAll ==
    ASSUME IsPull(pull), ~Azure
    PROVE  \/ PlatformComparison.truncated
           \/ pull.pushed \in SUBSET Paths(PlatformComparison)
<1> DEFINE l == ListedFiles(pull, "compare")
           s == pull.listing["compare"]
<1>1. pull.platform \in {"github", "gitlab"}
  BY DEF IsPull, Azure
<1>2. Entries(pull, "compare") = DOMAIN s /\ DOMAIN l = DOMAIN s
  BY <1>1 DEF Entries, ListedFiles
<1>3. pull.pushed \in SUBSET {l[i].path : i \in DOMAIN l}
  <2>1. pull.pushed \in SUBSET {FileOf(pull, s[i]).path : i \in DOMAIN s}
    BY <1>2 DEF IsPull
  <2>2. \A i \in DOMAIN s : l[i] = FileOf(pull, s[i])
    BY DEF ListedFiles
  <2> HIDE DEF l, s
  <2> QED BY <2>1, <2>2, <1>2
<1>4. l \in Seq(Range(l)) /\ s \in Seq(Range(s))
  BY ListedIsSequence DEF IsPull
<1>5. CASE pull.platform = "github"
  <2>1. PlatformComparison = Paged(l)
    BY <1>5, PlatformLists DEF PlatformComparison
  <2> HIDE DEF l
  <2>2. PlatformComparison.truncated \/ PlatformComparison.files = l
    BY <2>1, <1>4, PagedHasAll
  <2> QED BY <2>2, <1>3 DEF Paths
<1>6. CASE pull.platform = "gitlab"
  <2> SUFFICES ASSUME ~PlatformComparison.truncated
               PROVE  pull.pushed \in SUBSET Paths(PlatformComparison)
    OBVIOUS
  <2>1. PlatformComparison = GitLabComparison(s, pull.timeout)
    BY <1>6 DEF PlatformComparison
  <2>2. ~(Len(s) > MaxFiles) /\ PlatformComparison.files = Mapped(First(MaxFiles, s), GitLabFile)
    BY <2>1 DEF GitLabComparison
  <2>3. MaxFiles \in Nat
    BY BoundsHold DEF Bounds
  <2>4. Len(s) \in Nat
    BY <1>4, SequenceOfItsRange
  <2>5. First(MaxFiles, s) = s
    <3>1. Len(s) <= MaxFiles
      BY <2>2, <2>3, <2>4
    <3> HIDE DEF s
    <3> QED BY <3>1, <2>3, <1>4, FirstIsAll
  <2>6. PlatformComparison.files = l
    BY <2>2, <2>5, <1>6, PlatformLists
  <2> QED BY <2>6, <1>3 DEF Paths
<1> QED BY <1>1, <1>5, <1>6

(* The changes of Azure's listing that become files: where each comes from.  *)
Origin(p, which, pos) ==
    LET s == p.listing[which]
        k == Kept(s)
    IN  /\ pos \in [1 .. Len(k) -> Entries(p, which)]
        /\ \A i, j \in 1 .. Len(k) : pos[i] = pos[j] => i = j
        /\ \A i \in 1 .. Len(k) : k[i] = s[pos[i]]

LEMMA KeptFrom ==
    ASSUME NEW p, IsPull(p), p.platform = "azure", NEW which \in {"diff", "compare"}
    PROVE  /\ Kept(p.listing[which]) \in Seq(Range(p.listing[which]))
           /\ \E pos : Origin(p, which, pos)
<1> DEFINE s == p.listing[which]
           R == Range(s)
           n == ChangePages * ChangePageSize
           l == First(n, s)
           f == Only(l, {ch \in Range(s) : IsFile(ch)})
           k == First(MaxFiles, f)
<1>1. s \in Seq(Range(s))
  BY DEF IsPull
<1>2. DOMAIN s = 1 .. Len(s) /\ Len(s) \in Nat
  BY <1>1, SequenceOfItsRange
<1>3. n \in Int /\ MaxFiles \in Int
  BY BoundsHold DEF Bounds
<1>4. k = Kept(s)
  BY DEF Kept, FilesOf, Listed
<1>5. Entries(p, which) = {i \in DOMAIN s : IsFile(s[i])}
  BY DEF Entries
<1> HIDE DEF s, n
<1> HIDE DEF R
<1>6. /\ l \in Seq(R) /\ Len(l) = IF n <= 0 THEN 0 ELSE IF n <= Len(s) THEN n ELSE Len(s)
      /\ \A i \in 1 .. Len(l) : l[i] = s[i]
  <2>1. s \in Seq(R)
    BY <1>1 DEF R
  <2> QED BY <2>1, <1>3, FirstOfMany
<1> HIDE DEF l
<1>7. f \in Seq(R) /\ \E pos : Picks(f, l, Len(l), pos, {ch \in Range(s) : IsFile(ch)})
  BY <1>6, OnlyPicks
<1>8. PICK pos : Picks(f, l, Len(l), pos, {ch \in Range(s) : IsFile(ch)})
  BY <1>7
<1> HIDE DEF f
<1>9. /\ pos \in [1 .. Len(f) -> 1 .. Len(l)]
      /\ \A i, j \in 1 .. Len(f) : i < j => pos[i] < pos[j]
      /\ \A i \in 1 .. Len(f) : f[i] = l[pos[i]] /\ IsFile(f[i])
  BY <1>8 DEF Picks
<1>10. /\ k \in Seq(R) /\ Len(k) = IF MaxFiles <= 0 THEN 0 ELSE IF MaxFiles <= Len(f) THEN MaxFiles ELSE Len(f)
       /\ \A i \in 1 .. Len(k) : k[i] = f[i]
  BY <1>3, <1>7, FirstOfMany
<1> HIDE DEF k
<1>11. Len(l) \in Nat /\ Len(l) <= Len(s) /\ Len(f) \in Nat /\ Len(k) \in Nat
  BY <1>2, <1>3, <1>6, <1>7, <1>10
<1>l. 1 .. Len(l) \in SUBSET (1 .. Len(s))
  BY <1>11, <1>2
<1>k. 1 .. Len(k) \in SUBSET (1 .. Len(f))
  <2>1. Len(k) <= Len(f)
    BY <1>3, <1>10, <1>11
  <2> QED BY <2>1, <1>11
<1> DEFINE from == [i \in 1 .. Len(k) |-> pos[i]]
<1>12. \A i \in 1 .. Len(k) : from[i] \in 1 .. Len(l) /\ k[i] = s[from[i]] /\ IsFile(k[i])
  <2> TAKE i \in 1 .. Len(k)
  <2>1. i \in 1 .. Len(f)
    BY <1>k
  <2>2. pos[i] \in 1 .. Len(l) /\ k[i] = l[pos[i]] /\ IsFile(k[i])
    BY <2>1, <1>9, <1>10
  <2>3. k[i] = s[pos[i]]
    BY <2>2, <1>6
  <2> QED BY <2>2, <2>3
<1>13. from \in [1 .. Len(k) -> Entries(p, which)]
  BY <1>2, <1>5, <1>12, <1>l
<1>14. \A i, j \in 1 .. Len(k) : from[i] = from[j] => i = j
  <2> TAKE i \in 1 .. Len(k), j \in 1 .. Len(k)
  <2>1. i \in 1 .. Len(f) /\ j \in 1 .. Len(f) /\ from[i] = pos[i] /\ from[j] = pos[j]
    BY <1>k
  <2>2. pos[i] \in Int /\ pos[j] \in Int /\ (i < j => pos[i] < pos[j]) /\ (j < i => pos[j] < pos[i])
    BY <2>1, <1>9, <1>11
  <2>3. i \in Int /\ j \in Int
    OBVIOUS
  <2> HIDE DEF from
  <2> QED BY <2>1, <2>2, <2>3
<1> HIDE DEF from
<1>15. Origin(p, which, from)
  BY <1>4, <1>12, <1>13, <1>14 DEF Origin, s
<1> QED BY <1>4, <1>10, <1>15 DEF R, s

(* Azure's comparison, unless it is cut off, has all that was pushed.           *)
LEMMA KeptHasAll ==
    ASSUME NEW p, IsPull(p), p.platform = "azure", NEW which \in {"diff", "compare"}, ~LeftOut(p.listing[which])
    PROVE  \A i \in Entries(p, which) : p.listing[which][i] \in Range(Kept(p.listing[which]))
<1> DEFINE s == p.listing[which]
           n == ChangePages * ChangePageSize
           set == {ch \in Range(s) : IsFile(ch)}
<1>1. s \in Seq(Range(s))
  BY DEF IsPull
<1>2. DOMAIN s = 1 .. Len(s) /\ Len(s) \in Nat
  BY <1>1, SequenceOfItsRange
<1>3. n \in Nat /\ MaxFiles \in Nat
  BY BoundsHold DEF Bounds
<1>4. ~(Len(s) > n) /\ ~(Len(FilesOf(s)) > MaxFiles)
  BY DEF LeftOut, ListedInPart
<1>5. FilesOf(s) = Only(First(n, s), set) /\ Kept(s) = First(MaxFiles, FilesOf(s))
  BY DEF Kept, FilesOf, Listed
<1>6. Entries(p, which) = {i \in DOMAIN s : IsFile(s[i])}
  BY DEF Entries
<1> HIDE DEF s, n
<1>7. First(n, s) = s
  <2>1. Len(s) <= n
    BY <1>2, <1>3, <1>4
  <2> QED BY <2>1, <1>1, <1>3, FirstIsAll
<1>8. FilesOf(s) \in Seq(Range(s)) /\ Range(FilesOf(s)) = Range(s) \cap set
  BY <1>1, <1>5, <1>7, RangeOfOnly
<1>9. FilesOf(s) \in Seq(Range(FilesOf(s)))
  BY <1>8, InItsRange
<1>10. Kept(s) = FilesOf(s)
  <2>1. Len(FilesOf(s)) \in Nat
    BY <1>9, SequenceOfItsRange
  <2>2. Len(FilesOf(s)) <= MaxFiles
    BY <2>1, <1>3, <1>4
  <2> QED BY <2>2, <1>3, <1>5, <1>9, FirstIsAll
<1>11. \A i \in Entries(p, which) : s[i] \in Range(s) \cap set
  BY <1>6 DEF Range
<1> QED BY <1>8, <1>10, <1>11 DEF s

-----------------------------------------------------------------------------
(* The Azure DevOps client's workers: what each knows, and what they fill in.  *)

SideSeqs == {<<>>, <<"before">>, <<"after">>, <<"before", "after">>}
Has(sides, side) == \E i \in DOMAIN sides : sides[i] = side

LEMMA TwoOnes ==
    ASSUME NEW x, NEW y
    PROVE  <<x>> \o <<y>> = <<x, y>>
<1> DEFINE S == {x, y}
<1>1. x \in S /\ y \in S
  OBVIOUS
<1> HIDE DEF S
<1>2. <<x>> \in Seq(S) /\ <<y>> \in Seq(S) /\ Len(<<x>>) = 1 /\ Len(<<y>>) = 1
  BY <1>1
<1>3. <<x>> \o <<y>> \in Seq(S) /\ Len(<<x>> \o <<y>>) = 2
  BY <1>2
<1>4. (<<x>> \o <<y>>)[1] = x /\ (<<x>> \o <<y>>)[2] = y
  BY <1>2
<1>5. <<x, y>> \in Seq(S) /\ Len(<<x, y>>) = 2 /\ <<x, y>>[1] = x /\ <<x, y>>[2] = y
  BY <1>1
<1>6. \A i \in 1 .. 2 : (<<x>> \o <<y>>)[i] = <<x, y>>[i]
  BY <1>4, <1>5
<1> QED BY <1>3, <1>5, <1>6, SeqEqual

LEMMA SidesToRead ==
    ASSUME NEW old, NEW new
    PROVE  /\ Sides(old, new) \in SideSeqs
           /\ Has(Sides(old, new), "before") => old # <<>>
           /\ Has(Sides(old, new), "after") => new # <<>>
<1>1. CASE old = <<>> /\ new = <<>>
  <2>1. Sides(old, new) = <<>>
    BY <1>1 DEF Sides
  <2> QED BY <2>1 DEF SideSeqs, Has
<1>2. CASE old = <<>> /\ new # <<>>
  <2>1. Sides(old, new) = <<"after">>
    BY <1>2 DEF Sides
  <2>2. ~Has(<<"after">>, "before")
    BY DEF Has
  <2> QED BY <1>2, <2>1, <2>2 DEF SideSeqs
<1>3. CASE old # <<>> /\ new = <<>>
  <2>1. Sides(old, new) = <<"before">>
    BY <1>3 DEF Sides
  <2>2. ~Has(<<"before">>, "after")
    BY DEF Has
  <2> QED BY <1>3, <2>1, <2>2 DEF SideSeqs
<1>4. CASE old # <<>> /\ new # <<>>
  <2>1. Sides(old, new) = <<"before">> \o <<"after">>
    BY <1>4, Zenon DEF Sides
  <2>2. <<"before">> \o <<"after">> = <<"before", "after">>
    BY TwoOnes
  <2> QED BY <1>4, <2>1, <2>2 DEF SideSeqs
<1> QED BY <1>1, <1>2, <1>3, <1>4

LEMMA SidesLeft ==
    ASSUME NEW s \in SideSeqs, s # <<>>
    PROVE  /\ Head(s) \in {"before", "after"} /\ Has(s, Head(s))
           /\ Tail(s) \in SideSeqs
           /\ \A side : Has(Tail(s), side) => Has(s, side)
<1>1. CASE s = <<"before">>
  <2>1. Head(s) = "before" /\ Tail(s) = <<>> /\ s[1] = "before" /\ 1 \in DOMAIN s
    BY <1>1
  <2> QED BY <2>1 DEF Has, SideSeqs
<1>2. CASE s = <<"after">>
  <2>1. Head(s) = "after" /\ Tail(s) = <<>> /\ s[1] = "after" /\ 1 \in DOMAIN s
    BY <1>2
  <2> QED BY <2>1 DEF Has, SideSeqs
<1>3. CASE s = <<"before", "after">>
  <2>1. /\ Head(s) = "before" /\ Tail(s) = <<"after">> /\ s[1] = "before" /\ s[2] = "after"
        /\ 1 \in DOMAIN s /\ 2 \in DOMAIN s
    BY <1>3
  <2>2. \A side : Has(<<"after">>, side) => side = "after"
    BY DEF Has
  <2> QED BY <2>1, <2>2 DEF Has, SideSeqs
<1> QED BY <1>1, <1>2, <1>3 DEF SideSeqs

(* The contents of an object that a worker may ask for.                         *)
LEMMA ObjectTexts ==
    ASSUME NEW p, NEW which, NEW ch \in Range(Kept(p.listing[which]))
    PROVE  /\ OldObject(ch) \in ObjectsOf(p, which, ch) /\ NewObject(ch) \in ObjectsOf(p, which, ch)
           /\ MustLookUp(ch) => p.objects[which][PathBefore(ch)] \in ObjectsOf(p, which, ch)
           /\ \A o \in ObjectsOf(p, which, ch) : o # <<>> => o[1] \in ContentsOf(p, which)
<1>1. OldObject(ch) \in {<<>>, ch.object, ch.originalObject} /\ NewObject(ch) \in {<<>>, ch.object}
  BY DEF OldObject, NewObject
<1>2. \A o \in ObjectsOf(p, which, ch) : Content(o) \in ContentsOf(p, which)
  BY DEF ContentsOf
<1>3. \A o : o # <<>> => Content(o) = o[1]
  BY DEF Content
<1> QED BY <1>1, <1>2, <1>3 DEF ObjectsOf

-----------------------------------------------------------------------------
(* What a worker holds: of which file, which objects, and which of their     *)
(* contents are still to be read.                                            *)
JobBody(p, which, j) ==
    /\ j = [at |-> j.at, file |-> j.file, sides |-> j.sides, old |-> j.old, before |-> j.before, after |-> j.after]
    /\ j.file \in DOMAIN Kept(p.listing[which])
    /\ LET ch == Kept(p.listing[which])[j.file]
       IN  /\ j.old \in ObjectsOf(p, which, ch)
           /\ Has(j.sides, "before") => j.old # <<>>
           /\ Has(j.sides, "after") => NewObject(ch) # <<>>
    /\ j.sides \in SideSeqs
    /\ j.before \in ContentsOf(p, which) /\ j.after \in ContentsOf(p, which)
JobFits(p, which, j) ==
    /\ JobBody(p, which, j)
    /\ j.at = "looks up" => MustLookUp(Kept(p.listing[which])[j.file])
    /\ j.at \in {"asks", "reads"} => j.sides # <<>>

AzureFiles(p, which, fs) ==
    LET k == Kept(p.listing[which])
    IN  /\ fs = [i \in DOMAIN k |-> fs[i]]
        /\ \A i \in DOMAIN k :
              /\ fs[i] = [path |-> Trimmed(k[i].path), previous |-> Trimmed(k[i].original), patch |-> fs[i].patch,
                          additions |-> fs[i].additions, deletions |-> fs[i].deletions]
              /\ fs[i].patch = <<>> \/ WellFormed(fs[i].patch, TRUE)

AllFit(p, which, jobs) ==
    /\ jobs = [w \in Workers |-> jobs[w]]
    /\ \A w \in Workers : jobs[w] = Idle \/ JobFits(p, which, jobs[w])

FillInv ==
    /\ reading \in {"diff", "compare"} /\ next \in Nat \ {0}
    /\ AllFit(pull, reading, worker)
    /\ IF pc = "filling" THEN Azure /\ AzureFiles(pull, reading, files)
                         ELSE \A w \in Workers : worker[w] = Idle

(* The next side is asked for, or both are there.                            *)
LEMMA ProceedFits ==
    ASSUME NEW p, NEW which, NEW job, JobBody(p, which, job)
    PROVE  JobFits(p, which, [job EXCEPT !.at = IF job.sides = <<>> THEN "has both" ELSE "asks"])
<1> DEFINE at == IF job.sides = <<>> THEN "has both" ELSE "asks"
           j == [job EXCEPT !.at = at]
<1>0. job = [at |-> job.at, file |-> job.file, sides |-> job.sides, old |-> job.old, before |-> job.before,
             after |-> job.after]
  BY DEF JobBody
<1>2. at \in {"has both", "asks"} /\ (at = "asks" => job.sides # <<>>)
  OBVIOUS
<1> HIDE DEF at
<1>1. j = [at |-> at, file |-> job.file, sides |-> job.sides, old |-> job.old, before |-> job.before,
           after |-> job.after]
  BY <1>0
<1>3. /\ j.at = at /\ j.file = job.file /\ j.sides = job.sides /\ j.old = job.old /\ j.before = job.before
      /\ j.after = job.after
  BY <1>1
<1> HIDE DEF j
<1>4. JobFits(p, which, j)
  BY <1>1, <1>2, <1>3 DEF JobFits, JobBody
<1> QED BY <1>4 DEF j, at

LEMMA StartedFits ==
    ASSUME NEW p, NEW which, NEW f \in DOMAIN Kept(p.listing[which]), NEW old, NEW at,
           LET ch == Kept(p.listing[which])[f]
           IN  old \in ObjectsOf(p, which, ch) /\ (at = "looks up" => MustLookUp(ch)) /\ at \notin {"asks", "reads"},
           NEW before \in ContentsOf(p, which), NEW after \in ContentsOf(p, which)
    PROVE  JobFits(p, which, [at |-> at, file |-> f, old |-> old, before |-> before, after |-> after,
                              sides |-> Sides(old, NewObject(Kept(p.listing[which])[f]))])
<1> DEFINE ch == Kept(p.listing[which])[f]
           s == Sides(old, NewObject(ch))
           j == [at |-> at, file |-> f, sides |-> s, old |-> old, before |-> before, after |-> after]
<1>1. s \in SideSeqs /\ (Has(s, "before") => old # <<>>) /\ (Has(s, "after") => NewObject(ch) # <<>>)
  BY SidesToRead
<1> HIDE DEF s
<1>2. /\ j.at = at /\ j.file = f /\ j.sides = s /\ j.old = old /\ j.before = before /\ j.after = after
  OBVIOUS
<1>3. JobFits(p, which, j)
  <2>1. j = [at |-> j.at, file |-> j.file, sides |-> j.sides, old |-> j.old, before |-> j.before, after |-> j.after]
    OBVIOUS
  <2> HIDE DEF j
  <2> QED BY <1>1, <1>2, <2>1 DEF JobFits, JobBody
<1> QED BY <1>3 DEF s

(* What a job is with some of its fields replaced.                           *)
AfterRead(job, x, y, z) == [job EXCEPT !.sides = x, !.before = y, !.after = z]
WhenTaken(job, x, y, z) == [job EXCEPT !.file = x, !.old = y, !.sides = z]

LEMMA ReadOf ==
    ASSUME NEW job, job = [at |-> job.at, file |-> job.file, sides |-> job.sides, old |-> job.old, before |-> job.before, after |-> job.after],
           NEW x, NEW y, NEW z
    PROVE  AfterRead(job, x, y, z)
      = [at |-> job.at, file |-> job.file, sides |-> x, old |-> job.old, before |-> y, after |-> z]
<1> DEFINE j1 == [job EXCEPT !.sides = x]
           j2 == [j1 EXCEPT !.before = y]
<1>1. [job EXCEPT !.sides = x, !.before = y, !.after = z] = [j2 EXCEPT !.after = z]
  OBVIOUS
<1>2. j1 = [at |-> job.at, file |-> job.file, sides |-> x, old |-> job.old, before |-> job.before, after |-> job.after]
  OBVIOUS
<1>3. /\ j1.at = job.at /\ j1.file = job.file /\ j1.sides = x /\ j1.old = job.old /\ j1.before = job.before /\ j1.after = job.after
  BY <1>2
<1>4. j1 = [at |-> j1.at, file |-> j1.file, sides |-> j1.sides, old |-> j1.old, before |-> j1.before, after |-> j1.after]
  BY <1>2
<1> HIDE DEF j1
<1>5. [j1 EXCEPT !.before = y]
      = [at |-> j1.at, file |-> j1.file, sides |-> j1.sides, old |-> j1.old, before |-> y, after |-> j1.after]
  BY <1>4
<1>6. [j1 EXCEPT !.before = y]
      = [at |-> job.at, file |-> job.file, sides |-> x, old |-> job.old, before |-> y, after |-> job.after]
  BY <1>3, <1>5
<1>7. j2 = [at |-> job.at, file |-> job.file, sides |-> x, old |-> job.old, before |-> y, after |-> job.after]
  BY <1>6
<1>8. /\ j2.at = job.at /\ j2.file = job.file /\ j2.sides = x /\ j2.old = job.old /\ j2.before = y /\ j2.after = job.after
  BY <1>7
<1>9. j2 = [at |-> j2.at, file |-> j2.file, sides |-> j2.sides, old |-> j2.old, before |-> j2.before, after |-> j2.after]
  BY <1>7
<1> HIDE DEF j2
<1>10. [j2 EXCEPT !.after = z]
      = [at |-> j2.at, file |-> j2.file, sides |-> j2.sides, old |-> j2.old, before |-> j2.before, after |-> z]
  BY <1>9
<1>11. [j2 EXCEPT !.after = z]
      = [at |-> job.at, file |-> job.file, sides |-> x, old |-> job.old, before |-> y, after |-> z]
  BY <1>8, <1>10
<1> QED BY <1>1, <1>11 DEF AfterRead

LEMMA LookedUp ==
    ASSUME NEW job, job = [at |-> job.at, file |-> job.file, sides |-> job.sides, old |-> job.old, before |-> job.before, after |-> job.after],
           NEW x, NEW y
    PROVE  [job EXCEPT !.old = x, !.sides = y]
      = [at |-> job.at, file |-> job.file, sides |-> y, old |-> x, before |-> job.before, after |-> job.after]
<1> DEFINE j1 == [job EXCEPT !.old = x]
<1>1. [job EXCEPT !.old = x, !.sides = y] = [j1 EXCEPT !.sides = y]
  OBVIOUS
<1>2. j1 = [at |-> job.at, file |-> job.file, sides |-> job.sides, old |-> x, before |-> job.before, after |-> job.after]
  OBVIOUS
<1>3. /\ j1.at = job.at /\ j1.file = job.file /\ j1.sides = job.sides /\ j1.old = x /\ j1.before = job.before /\ j1.after = job.after
  BY <1>2
<1>4. j1 = [at |-> j1.at, file |-> j1.file, sides |-> j1.sides, old |-> j1.old, before |-> j1.before, after |-> j1.after]
  BY <1>2
<1> HIDE DEF j1
<1>5. [j1 EXCEPT !.sides = y]
      = [at |-> j1.at, file |-> j1.file, sides |-> y, old |-> j1.old, before |-> j1.before, after |-> j1.after]
  BY <1>4
<1>6. [j1 EXCEPT !.sides = y]
      = [at |-> job.at, file |-> job.file, sides |-> y, old |-> x, before |-> job.before, after |-> job.after]
  BY <1>3, <1>5
<1> QED BY <1>1, <1>6

LEMMA AtOf ==
    ASSUME NEW job, job = [at |-> job.at, file |-> job.file, sides |-> job.sides, old |-> job.old, before |-> job.before, after |-> job.after],
           NEW x
    PROVE  [job EXCEPT !.at = x]
      = [at |-> x, file |-> job.file, sides |-> job.sides, old |-> job.old, before |-> job.before, after |-> job.after]
OBVIOUS

LEMMA TakenOf ==
    ASSUME NEW job, job = [at |-> job.at, file |-> job.file, sides |-> job.sides, old |-> job.old, before |-> job.before, after |-> job.after],
           NEW x, NEW y, NEW z
    PROVE  WhenTaken(job, x, y, z)
      = [at |-> job.at, file |-> x, sides |-> z, old |-> y, before |-> job.before, after |-> job.after]
<1> DEFINE j1 == [job EXCEPT !.file = x]
           j2 == [j1 EXCEPT !.old = y]
<1>1. [job EXCEPT !.file = x, !.old = y, !.sides = z] = [j2 EXCEPT !.sides = z]
  OBVIOUS
<1>2. j1 = [at |-> job.at, file |-> x, sides |-> job.sides, old |-> job.old, before |-> job.before, after |-> job.after]
  OBVIOUS
<1>3. /\ j1.at = job.at /\ j1.file = x /\ j1.sides = job.sides /\ j1.old = job.old /\ j1.before = job.before /\ j1.after = job.after
  BY <1>2
<1>4. j1 = [at |-> j1.at, file |-> j1.file, sides |-> j1.sides, old |-> j1.old, before |-> j1.before, after |-> j1.after]
  BY <1>2
<1> HIDE DEF j1
<1>5. [j1 EXCEPT !.old = y]
      = [at |-> j1.at, file |-> j1.file, sides |-> j1.sides, old |-> y, before |-> j1.before, after |-> j1.after]
  BY <1>4
<1>6. [j1 EXCEPT !.old = y]
      = [at |-> job.at, file |-> x, sides |-> job.sides, old |-> y, before |-> job.before, after |-> job.after]
  BY <1>3, <1>5
<1>7. j2 = [at |-> job.at, file |-> x, sides |-> job.sides, old |-> y, before |-> job.before, after |-> job.after]
  BY <1>6
<1>8. /\ j2.at = job.at /\ j2.file = x /\ j2.sides = job.sides /\ j2.old = y /\ j2.before = job.before /\ j2.after = job.after
  BY <1>7
<1>9. j2 = [at |-> j2.at, file |-> j2.file, sides |-> j2.sides, old |-> j2.old, before |-> j2.before, after |-> j2.after]
  BY <1>7
<1> HIDE DEF j2
<1>10. [j2 EXCEPT !.sides = z]
      = [at |-> j2.at, file |-> j2.file, sides |-> z, old |-> j2.old, before |-> j2.before, after |-> j2.after]
  BY <1>9
<1>11. [j2 EXCEPT !.sides = z]
      = [at |-> job.at, file |-> x, sides |-> z, old |-> y, before |-> job.before, after |-> job.after]
  BY <1>8, <1>10
<1> QED BY <1>1, <1>11 DEF WhenTaken

LEMMA PutJob ==
    ASSUME NEW p, NEW which, NEW jobs, AllFit(p, which, jobs), NEW w \in Workers, NEW j,
           j = Idle \/ JobFits(p, which, j)
    PROVE  AllFit(p, which, [jobs EXCEPT ![w] = j])
<1> DEFINE after == [jobs EXCEPT ![w] = j]
<1>1. after = [v \in Workers |-> IF v = w THEN j ELSE jobs[v]]
  BY DEF AllFit
<1>2. after = [v \in Workers |-> after[v]] /\ \A v \in Workers : after[v] = IF v = w THEN j ELSE jobs[v]
  BY <1>1
<1> HIDE DEF after
<1>3. \A v \in Workers : after[v] = Idle \/ JobFits(p, which, after[v])
  BY <1>2 DEF AllFit
<1> QED BY <1>2, <1>3 DEF AllFit, after

(* What the files of Azure's listing are, while they are filled in.          *)
LEMMA FillSetting ==
    ASSUME IsPull(pull), Azure, FillInv, pc = "filling"
    PROVE  /\ Changes = Kept(pull.listing[reading])
           /\ DOMAIN Changes = 1 .. Len(files) /\ DOMAIN files = 1 .. Len(files)
           /\ \A i \in DOMAIN Changes : Changes[i] \in Range(Kept(pull.listing[reading]))
           /\ <<>> \in ContentsOf(pull, reading)
<1>1. Kept(pull.listing[reading]) \in Seq(Range(pull.listing[reading]))
  BY KeptFrom DEF FillInv, Azure
<1>2. DOMAIN files = DOMAIN Changes
  BY DEF FillInv, AzureFiles, Changes
<1>3. DOMAIN Changes = 1 .. Len(Changes) /\ Len(Changes) \in Nat
  BY <1>1 DEF Changes
<1>4. files \in Seq(Range(files)) /\ Len(files) = Len(Changes)
  <2>1. files = [i \in 1 .. Len(Changes) |-> files[i]]
    BY <1>3 DEF FillInv, AzureFiles, Changes
  <2>2. \A i \in 1 .. Len(Changes) : files[i] \in Range(files)
    BY <1>2, <1>3 DEF Range
  <2> QED BY <1>3, <2>1, <2>2
<1>5. <<>> \in ContentsOf(pull, reading)
  BY DEF ContentsOf
<1>6. \A i \in DOMAIN Changes : Changes[i] \in Range(Kept(pull.listing[reading]))
  BY DEF Range, Changes
<1> QED BY <1>2, <1>3, <1>4, <1>5, <1>6 DEF Changes

(* A worker that proceeds has a job that fits.                               *)
LEMMA Proceeds ==
    ASSUME FillInv, NEW w \in Workers, NEW job, JobBody(pull, reading, job), Proceed(w, job),
           UNCHANGED <<pull, reading>>
    PROVE  AllFit(pull, reading, worker)'
<1> DEFINE j == [job EXCEPT !.at = IF job.sides = <<>> THEN "has both" ELSE "asks"]
<1>1. JobFits(pull, reading, j)
  BY ProceedFits
<1>2. worker' = [worker EXCEPT ![w] = j]
  BY DEF Proceed
<1> HIDE DEF j
<1>3. AllFit(pull, reading, worker')
  BY <1>1, <1>2, PutJob DEF FillInv
<1> QED BY <1>3

LEMMA Rests ==
    ASSUME FillInv, NEW w \in Workers, Rest(w), UNCHANGED <<pull, reading>>
    PROVE  AllFit(pull, reading, worker)'
<1>1. AllFit(pull, reading, worker')
  BY PutJob DEF FillInv, Rest
<1> QED BY <1>1

(* The steps of a worker, one by one, keep every worker's job fitting.          *)
LEMMA TakeFileKeeps ==
    ASSUME IsPull(pull), FillInv, Azure, pc = "filling", NEW w \in Workers, TakeFile(w),
           UNCHANGED <<pull, reading>>
    PROVE  AllFit(pull, reading, worker)' /\ next' \in Nat \ {0}
<1> DEFINE ch == Changes[next]
           s  == Sides(OldObject(ch), NewObject(ch))
           job == [Idle EXCEPT !.file = next, !.old = OldObject(ch), !.sides = s]
           j(at) == [at |-> at, file |-> next, old |-> OldObject(ch), before |-> <<>>, after |-> <<>>, sides |-> s]
<1>1. next \in Nat \ {0} /\ next <= Len(files) /\ next' = next + 1
  BY DEF FillInv, TakeFile
<1>2. next \in DOMAIN Changes /\ Changes = Kept(pull.listing[reading])
      /\ ch \in Range(Kept(pull.listing[reading])) /\ <<>> \in ContentsOf(pull, reading)
  BY <1>1, FillSetting
<1>3. OldObject(ch) \in ObjectsOf(pull, reading, ch)
  BY <1>2, ObjectTexts
<1>4. \A at : at \notin {"asks", "reads"} /\ (at = "looks up" => MustLookUp(ch)) => JobFits(pull, reading, j(at))
  <2> SUFFICES ASSUME NEW at, at \notin {"asks", "reads"}, at = "looks up" => MustLookUp(ch)
               PROVE  JobFits(pull, reading, j(at))
    OBVIOUS
  <2> QED BY <1>2, <1>3, StartedFits
<1>5. job = j("idle") /\ [job EXCEPT !.at = "looks up"] = j("looks up")
  <2> HIDE DEF s, ch
  <2>1. Idle = [at |-> Idle.at, file |-> Idle.file, sides |-> Idle.sides, old |-> Idle.old, before |-> Idle.before,
                after |-> Idle.after]
        /\ Idle.at = "idle" /\ Idle.before = <<>> /\ Idle.after = <<>>
    BY DEF Idle
  <2>2. job = [at |-> Idle.at, file |-> next, sides |-> s, old |-> OldObject(ch), before |-> Idle.before,
               after |-> Idle.after]
    <3>1. job = WhenTaken(Idle, next, OldObject(ch), s)
      BY DEF WhenTaken
    <3>2. WhenTaken(Idle, next, OldObject(ch), s)
          = [at |-> Idle.at, file |-> next, sides |-> s, old |-> OldObject(ch), before |-> Idle.before,
             after |-> Idle.after]
      BY <2>1, TakenOf
    <3> QED BY <3>1, <3>2, Zenon
  <2> HIDE DEF s, ch
  <2>3. job = j("idle")
    BY <2>1, <2>2
  <2>4. [j("idle") EXCEPT !.at = "looks up"] = j("looks up")
    <3> DEFINE k == j("idle")
    <3>1. k = [at |-> k.at, file |-> k.file, sides |-> k.sides, old |-> k.old, before |-> k.before, after |-> k.after]
          /\ k.file = next /\ k.sides = s /\ k.old = OldObject(ch) /\ k.before = <<>> /\ k.after = <<>>
      OBVIOUS
    <3> HIDE DEF k
    <3>2. [k EXCEPT !.at = "looks up"] = [at |-> "looks up", file |-> k.file, sides |-> k.sides, old |-> k.old,
                                          before |-> k.before, after |-> k.after]
      BY <3>1, AtOf, Zenon
    <3>3. [k EXCEPT !.at = "looks up"] = j("looks up")
      BY <3>1, <3>2
    <3> QED BY <3>3 DEF k
  <2> QED BY <2>3, <2>4
<1>6. \/ MustLookUp(ch) /\ worker' = [worker EXCEPT ![w] = [job EXCEPT !.at = "looks up"]]
      \/ Proceed(w, job)
  BY DEF TakeFile
<1> HIDE DEF job, j, s, ch
<1>7. CASE MustLookUp(ch) /\ worker' = [worker EXCEPT ![w] = [job EXCEPT !.at = "looks up"]]
  <2>1. JobFits(pull, reading, j("looks up"))
    BY <1>4, <1>7
  <2>2. worker' = [worker EXCEPT ![w] = j("looks up")]
    BY <1>5, <1>7
  <2>3. AllFit(pull, reading, worker')
    BY <2>1, <2>2, PutJob DEF FillInv
  <2> QED BY <2>3, <1>1
<1>8. CASE Proceed(w, job)
  <2>1. JobBody(pull, reading, job)
    <3>1. JobFits(pull, reading, j("idle"))
      BY <1>4
    <3> QED BY <3>1, <1>5 DEF JobFits
  <2> QED BY <2>1, <1>1, <1>8, Proceeds
<1> QED BY <1>6, <1>7, <1>8

LEMMA LookUpKeeps ==
    ASSUME IsPull(pull), FillInv, Azure, pc = "filling", NEW w \in Workers, LookUp(w),
           UNCHANGED <<pull, reading>>
    PROVE  AllFit(pull, reading, worker)'
<1> DEFINE job == worker[w]
           ch == Changes[job.file]
           old == pull.objects[reading][PathBefore(ch)]
           s  == Sides(old, NewObject(ch))
           j  == [at |-> "looks up", file |-> job.file, old |-> old, before |-> job.before, after |-> job.after,
                  sides |-> s]
<1>1. job.at = "looks up" /\ Proceed(w, [job EXCEPT !.old = old, !.sides = s])
  BY DEF LookUp, Job
<1>2. JobFits(pull, reading, job)
  <2>1. job.at = "looks up" /\ Idle.at = "idle"
    BY <1>1 DEF Idle
  <2>2. job # Idle
    BY <2>1
  <2> QED BY <2>2 DEF FillInv, AllFit
<1>3. job = [at |-> job.at, file |-> job.file, sides |-> job.sides, old |-> job.old, before |-> job.before,
             after |-> job.after]
      /\ job.file \in DOMAIN Kept(pull.listing[reading])
      /\ job.before \in ContentsOf(pull, reading) /\ job.after \in ContentsOf(pull, reading)
      /\ MustLookUp(Kept(pull.listing[reading])[job.file])
  BY <1>1, <1>2 DEF JobFits, JobBody
<1>4. Changes = Kept(pull.listing[reading]) /\ ch \in Range(Kept(pull.listing[reading]))
  BY <1>3 DEF Changes, Range
<1>5. old \in ObjectsOf(pull, reading, ch)
  BY <1>3, <1>4, ObjectTexts
<1>6. JobFits(pull, reading, j)
  BY <1>3, <1>4, <1>5, StartedFits
<1> HIDE DEF s, old
<1>7. [job EXCEPT !.old = old, !.sides = s] = j
  <2> HIDE DEF job
  <2>1. [job EXCEPT !.old = old, !.sides = s]
        = [at |-> job.at, file |-> job.file, sides |-> s, old |-> old, before |-> job.before, after |-> job.after]
    BY <1>3, LookedUp, Zenon
  <2> QED BY <2>1, <1>1
<1> HIDE DEF j
<1>8. JobBody(pull, reading, j) /\ Proceed(w, j)
  BY <1>1, <1>6, <1>7 DEF JobFits
<1> QED BY <1>8, Proceeds

LEMMA AskBlobKeeps ==
    ASSUME FillInv, NEW w \in Workers, AskBlob(w), UNCHANGED <<pull, reading>>
    PROVE  AllFit(pull, reading, worker)'
<1> DEFINE job == worker[w]
           j == [at |-> "reads", file |-> job.file, sides |-> job.sides, old |-> job.old, before |-> job.before,
                 after |-> job.after]
<1>1. job.at = "asks" /\ (Rest(w) \/ worker' = [worker EXCEPT ![w] = [job EXCEPT !.at = "reads"]])
  BY DEF AskBlob, Job
<1>2. JobFits(pull, reading, job)
  <2>1. job # Idle
    BY <1>1 DEF Idle
  <2> QED BY <2>1 DEF FillInv, AllFit
<1>3. job = [at |-> job.at, file |-> job.file, sides |-> job.sides, old |-> job.old, before |-> job.before,
             after |-> job.after]
  BY <1>2 DEF JobFits, JobBody
<1>4. [job EXCEPT !.at = "reads"] = j
  BY <1>3
<1>5. JobFits(pull, reading, j)
  <2>1. job.sides # <<>>
    BY <1>1, <1>2 DEF JobFits
  <2>2. /\ j.at = "reads" /\ j.file = job.file /\ j.sides = job.sides /\ j.old = job.old
        /\ j.before = job.before /\ j.after = job.after
    OBVIOUS
  <2>3. j = [at |-> j.at, file |-> j.file, sides |-> j.sides, old |-> j.old, before |-> j.before, after |-> j.after]
    OBVIOUS
  <2> HIDE DEF j, job
  <2> QED BY <1>2, <2>1, <2>2, <2>3 DEF JobFits, JobBody
<1>6. CASE Rest(w)
  BY <1>6, Rests
<1>7. CASE worker' = [worker EXCEPT ![w] = [job EXCEPT !.at = "reads"]]
  <2>1. worker' = [worker EXCEPT ![w] = j]
    BY <1>4, <1>7
  <2> HIDE DEF j
  <2>2. AllFit(pull, reading, worker')
    BY <2>1, <1>5, PutJob DEF FillInv
  <2> QED BY <2>2
<1> QED BY <1>1, <1>6, <1>7

(* What a worker asks for is a content of the listing.                       *)
LEMMA AskedIsThere ==
    ASSUME FillInv, NEW w \in Workers, worker[w].at = "reads"
    PROVE  /\ JobFits(pull, reading, worker[w])
           /\ Asked(w)[1] \in ContentsOf(pull, reading)
<1> DEFINE job == worker[w]
           ch == Kept(pull.listing[reading])[job.file]
<1>1. JobFits(pull, reading, job)
  <2>1. job # Idle
    BY DEF Idle
  <2> QED BY <2>1 DEF FillInv, AllFit
<1>2. /\ job.sides \in SideSeqs /\ job.sides # <<>> /\ job.file \in DOMAIN Kept(pull.listing[reading])
      /\ job.old \in ObjectsOf(pull, reading, ch)
      /\ Has(job.sides, "before") => job.old # <<>>
      /\ Has(job.sides, "after") => NewObject(ch) # <<>>
  BY <1>1 DEF JobFits, JobBody
<1>3. Head(job.sides) \in {"before", "after"} /\ Has(job.sides, Head(job.sides))
  BY <1>2, SidesLeft
<1>4. ch \in Range(Kept(pull.listing[reading]))
  BY <1>2 DEF Range
<1>5. /\ NewObject(ch) \in ObjectsOf(pull, reading, ch)
      /\ \A o \in ObjectsOf(pull, reading, ch) : o # <<>> => o[1] \in ContentsOf(pull, reading)
  BY <1>4, ObjectTexts
<1>6. Asked(w) = IF Head(job.sides) = "before" THEN job.old ELSE NewObject(ch)
  BY DEF Asked, Job, Changes
<1> HIDE DEF ch, job
<1>7. CASE Head(job.sides) = "before"
  BY <1>2, <1>3, <1>5, <1>6, <1>7, <1>1 DEF job
<1>8. CASE Head(job.sides) # "before"
  <2>1. Head(job.sides) = "after"
    BY <1>3, <1>8
  <2> QED BY <1>2, <1>3, <1>5, <1>6, <1>8, <1>1, <2>1 DEF job
<1> QED BY <1>7, <1>8

LEMMA ArrivedKeeps ==
    ASSUME FillInv, NEW w \in Workers, JobFits(pull, reading, worker[w]), worker[w].at = "reads",
           NEW content \in ContentsOf(pull, reading), Arrived(w, content), UNCHANGED <<pull, reading>>
    PROVE  AllFit(pull, reading, worker)'
<1> DEFINE job == worker[w]
           b == IF Head(job.sides) = "before" THEN content ELSE job.before
           a == IF Head(job.sides) = "after" THEN content ELSE job.after
           t == Tail(job.sides)
           j == [at |-> "reads", file |-> job.file, sides |-> t, old |-> job.old, before |-> b, after |-> a]
<1>r. job.at = "reads"
  OBVIOUS
<1>1. Proceed(w, [job EXCEPT !.sides = Tail(@),
                             !.before = IF Head(job.sides) = "before" THEN content ELSE @,
                             !.after = IF Head(job.sides) = "after" THEN content ELSE @])
  BY DEF Arrived, Job
<1>2. /\ job = [at |-> job.at, file |-> job.file, sides |-> job.sides, old |-> job.old, before |-> job.before,
                after |-> job.after]
      /\ job.before \in ContentsOf(pull, reading) /\ job.after \in ContentsOf(pull, reading)
      /\ job.sides \in SideSeqs /\ job.sides # <<>>
  BY DEF JobFits, JobBody
<1>3. t \in SideSeqs /\ \A side : Has(t, side) => Has(job.sides, side)
  BY <1>2, SidesLeft
<1>4. b \in ContentsOf(pull, reading) /\ a \in ContentsOf(pull, reading)
  BY <1>2
<1>5. [job EXCEPT !.sides = Tail(@),
                  !.before = IF Head(job.sides) = "before" THEN content ELSE @,
                  !.after = IF Head(job.sides) = "after" THEN content ELSE @]
      = [job EXCEPT !.sides = t, !.before = b, !.after = a]
  BY <1>2
<1> HIDE DEF t, b, a
<1>6. [job EXCEPT !.sides = t, !.before = b, !.after = a] = j
  <2> HIDE DEF job
  <2>0. [job EXCEPT !.sides = t, !.before = b, !.after = a] = AfterRead(job, t, b, a)
    BY DEF AfterRead
  <2>1. AfterRead(job, t, b, a)
        = [at |-> job.at, file |-> job.file, sides |-> t, old |-> job.old, before |-> b, after |-> a]
    BY <1>2, ReadOf
  <2>2. j = [at |-> job.at, file |-> job.file, sides |-> t, old |-> job.old, before |-> b, after |-> a]
    BY <1>r
  <2> QED BY <2>0, <2>1, <2>2, Zenon
<1>7. JobBody(pull, reading, j)
  <2>1. /\ j.file = job.file /\ j.sides = t /\ j.old = job.old /\ j.before = b /\ j.after = a
        /\ j = [at |-> j.at, file |-> j.file, sides |-> j.sides, old |-> j.old, before |-> j.before, after |-> j.after]
    OBVIOUS
  <2> HIDE DEF j
  <2> QED BY <1>3, <1>4, <2>1 DEF JobFits, JobBody
<1>8. Proceed(w, j)
  BY <1>1, <1>5, <1>6
<1> HIDE DEF j
<1> QED BY <1>7, <1>8, Proceeds

FileFits(f) == f = [path |-> f.path, previous |-> f.previous, patch |-> f.patch,
                    additions |-> f.additions, deletions |-> f.deletions]
PutPatch(fs, n, x, y, z) ==
    [fs EXCEPT ![n].patch = x, ![n].additions = y, ![n].deletions = z]

(* What the files are with the patch of one put in its place.                *)
LEMMA PutPatchOf ==
    ASSUME NEW k, NEW fs, fs = [i \in DOMAIN k |-> fs[i]], NEW n \in DOMAIN k, FileFits(fs[n]),
           NEW x, NEW y, NEW z
    PROVE  /\ PutPatch(fs, n, x, y, z) = [i \in DOMAIN k |-> PutPatch(fs, n, x, y, z)[i]]
           /\ \A i \in DOMAIN k : i # n => PutPatch(fs, n, x, y, z)[i] = fs[i]
           /\ PutPatch(fs, n, x, y, z)[n] = [path |-> fs[n].path, previous |-> fs[n].previous, patch |-> x,
                                             additions |-> y, deletions |-> z]
<1> DEFINE f0 == fs[n]
           f1 == [f0 EXCEPT !.patch = x]
           f2 == [f1 EXCEPT !.additions = y]
           f3 == [f2 EXCEPT !.deletions = z]
           s1 == [fs EXCEPT ![n] = f1]
           s2 == [s1 EXCEPT ![n] = f2]
           s3 == [s2 EXCEPT ![n] = f3]
           D == DOMAIN k
<1>1. f1 = [path |-> f0.path, previous |-> f0.previous, patch |-> x, additions |-> f0.additions,
            deletions |-> f0.deletions]
  BY DEF FileFits
<1>2. f2 = [path |-> f1.path, previous |-> f1.previous, patch |-> f1.patch, additions |-> y,
            deletions |-> f1.deletions]
  <2>1. FileFits(f1)
    BY <1>1 DEF FileFits
  <2> HIDE DEF f1
  <2> QED BY <2>1 DEF FileFits
<1>3. f3 = [path |-> f2.path, previous |-> f2.previous, patch |-> f2.patch, additions |-> f2.additions,
            deletions |-> z]
  <2>1. FileFits(f2)
    <3> HIDE DEF f1
    <3> QED BY <1>2 DEF FileFits
  <2> HIDE DEF f2
  <2> QED BY <2>1 DEF FileFits
<1>4. f3 = [path |-> f0.path, previous |-> f0.previous, patch |-> x, additions |-> y, deletions |-> z]
  <2>1. f1.path = f0.path /\ f1.previous = f0.previous /\ f1.patch = x
    BY <1>1
  <2>2. f2.path = f1.path /\ f2.previous = f1.previous /\ f2.patch = f1.patch /\ f2.additions = y
    BY <1>2
  <2> HIDE DEF f1, f2, f3, f0
  <2> QED BY <2>1, <2>2, <1>3
<1> HIDE DEF D
<1> HIDE DEF f1
<1>5. fs = [i \in D |-> fs[i]] /\ n \in D
  BY DEF D
<1>6. s1 = [i \in D |-> IF i = n THEN f1 ELSE fs[i]] /\ s1[n] = f1
  BY <1>5
<1> HIDE DEF f2, s1
<1>7. s2 = [i \in D |-> IF i = n THEN f2 ELSE fs[i]] /\ s2[n] = f2
  BY <1>5, <1>6
<1> HIDE DEF f3, s2
<1>8. s3 = [i \in D |-> IF i = n THEN f3 ELSE fs[i]]
  BY <1>5, <1>7
<1>9. PutPatch(fs, n, x, y, z) = s3
  <2>1. s1 = [fs EXCEPT ![n].patch = x]
    BY DEF s1, f1
  <2>2. [s1 EXCEPT ![n].additions = y] = s2
    BY <1>6 DEF s2, f2
  <2>3. [s2 EXCEPT ![n].deletions = z] = s3
    BY <1>7 DEF s3, f3
  <2>4. PutPatch(fs, n, x, y, z) = [[[fs EXCEPT ![n].patch = x] EXCEPT ![n].additions = y] EXCEPT ![n].deletions = z]
    BY DEF PutPatch
  <2> HIDE DEF s3
  <2> QED BY <2>1, <2>2, <2>3, <2>4
<1> HIDE DEF s3
<1> QED BY <1>4, <1>5, <1>8, <1>9 DEF D

LEMMA PutPatchFits ==
    ASSUME NEW p, NEW which, NEW fs, AzureFiles(p, which, fs), NEW n \in DOMAIN Kept(p.listing[which]),
           NEW x, x = <<>> \/ WellFormed(x, TRUE), NEW y, NEW z
    PROVE  AzureFiles(p, which, PutPatch(fs, n, x, y, z))
<1> DEFINE k == Kept(p.listing[which])
           after == PutPatch(fs, n, x, y, z)
<1>1. /\ fs = [i \in DOMAIN k |-> fs[i]]
      /\ \A i \in DOMAIN k :
            /\ fs[i] = [path |-> Trimmed(k[i].path), previous |-> Trimmed(k[i].original), patch |-> fs[i].patch,
                        additions |-> fs[i].additions, deletions |-> fs[i].deletions]
            /\ fs[i].patch = <<>> \/ WellFormed(fs[i].patch, TRUE)
  BY DEF AzureFiles
<1>2. fs[n].path = Trimmed(k[n].path) /\ fs[n].previous = Trimmed(k[n].original) /\ FileFits(fs[n])
  <2>1. fs[n] = [path |-> Trimmed(k[n].path), previous |-> Trimmed(k[n].original), patch |-> fs[n].patch,
                 additions |-> fs[n].additions, deletions |-> fs[n].deletions]
    BY <1>1
  <2> QED BY <2>1 DEF FileFits
<1>3. /\ after = [i \in DOMAIN k |-> after[i]]
      /\ \A i \in DOMAIN k : i # n => after[i] = fs[i]
      /\ after[n] = [path |-> fs[n].path, previous |-> fs[n].previous, patch |-> x, additions |-> y, deletions |-> z]
  <2> HIDE DEF k
  <2> QED BY <1>1, <1>2, PutPatchOf DEF k
<1>4. /\ after[n] = [path |-> Trimmed(k[n].path), previous |-> Trimmed(k[n].original), patch |-> after[n].patch,
                     additions |-> after[n].additions, deletions |-> after[n].deletions]
      /\ after[n].patch = x
  <2> HIDE DEF after, k
  <2> QED BY <1>2, <1>3
<1> HIDE DEF after
<1>5. \A i \in DOMAIN k :
            /\ after[i] = [path |-> Trimmed(k[i].path), previous |-> Trimmed(k[i].original), patch |-> after[i].patch,
                        additions |-> after[i].additions, deletions |-> after[i].deletions]
            /\ after[i].patch = <<>> \/ WellFormed(after[i].patch, TRUE)
  <2> TAKE i \in DOMAIN k
  <2>1. CASE i = n
    BY <2>1, <1>4
  <2>2. CASE i # n
    BY <2>2, <1>1, <1>3
  <2> QED BY <2>1, <2>2
<1>6. AzureFiles(p, which, after)
  BY <1>3, <1>5 DEF AzureFiles
<1> QED BY <1>6 DEF after

LEMMA ContentsAreTexts ==
    ASSUME NEW p, IsPull(p), p.platform = "azure", NEW which \in {"diff", "compare"}
    PROVE  \A text \in ContentsOf(p, which) : text \in Seq(Range(text))
  BY DEF IsPull

(* A computed patch is a unified diff, and no path changes.                     *)
LEMMA ComputePatchKeeps ==
    ASSUME IsPull(pull), FillInv, Azure, pc = "filling", NEW w \in Workers, ComputePatch(w),
           UNCHANGED <<pull, reading>>
    PROVE  AllFit(pull, reading, worker)' /\ AzureFiles(pull, reading, files)'
<1> DEFINE job == worker[w]
           computed == Unified(job.before, job.after)
           patch == Raws(computed.patch)
<1>1. job.at = "has both" /\ Rest(w)
      /\ files' = PutPatch(files, job.file, patch, computed.additions, computed.deletions)
  BY DEF ComputePatch, Job, PutPatch
<1>2. JobFits(pull, reading, job)
  <2>1. job.at = "has both" /\ Idle.at = "idle"
    BY <1>1 DEF Idle
  <2>2. job # Idle
    BY <2>1
  <2> QED BY <2>2 DEF FillInv, AllFit
<1>3. /\ job.file \in DOMAIN Kept(pull.listing[reading])
      /\ job.before \in ContentsOf(pull, reading) /\ job.after \in ContentsOf(pull, reading)
  BY <1>2 DEF JobFits, JobBody
<1>4. job.before \in Seq(Range(job.before)) /\ job.after \in Seq(Range(job.after))
  <2>1. pull.platform = "azure" /\ reading \in {"diff", "compare"}
    BY DEF Azure, FillInv
  <2> QED BY <2>1, <1>3, ContentsAreTexts
<1>5. patch = <<>> \/ WellFormed(patch, TRUE)
  BY <1>4, UnifiedFits
<1>6. AzureFiles(pull, reading, files)
  BY DEF FillInv
<1> HIDE DEF patch, computed, job
<1>7. AzureFiles(pull, reading, files')
  BY <1>1, <1>3, <1>5, <1>6, PutPatchFits
<1>8. AllFit(pull, reading, worker)'
  BY <1>1, Rests
<1> QED BY <1>7, <1>8

(* Every step of the workers keeps FillInv's parts.                             *)
LEMMA FillingKeeps ==
    ASSUME IsPull(pull), FillInv, Azure, pc = "filling", Filling, UNCHANGED <<pull, reading, pc>>
    PROVE  FillInv'
<1>1. PICK w \in Workers : \/ TakeFile(w) \/ LookUp(w) \/ AskBlob(w)
                           \/ ReadBlob(w) \/ ForgottenBlob(w) \/ BrokenBlob(w) \/ ComputePatch(w)
  BY DEF Filling
<1>2. AllFit(pull, reading, worker)' /\ next' \in Nat \ {0} /\ AzureFiles(pull, reading, files)'
      => FillInv'
  BY DEF FillInv, Azure
<1>3. next \in Nat \ {0} /\ AzureFiles(pull, reading, files)
  BY DEF FillInv
<1>4. UNCHANGED files => AzureFiles(pull, reading, files)'
  BY <1>3
<1>5. CASE TakeFile(w)
  <2>1. UNCHANGED files
    BY <1>5 DEF TakeFile
  <2> QED BY <2>1, <1>2, <1>4, <1>5, TakeFileKeeps
<1>6. CASE LookUp(w)
  <2>1. UNCHANGED files /\ UNCHANGED next
    BY <1>6 DEF LookUp
  <2> QED BY <2>1, <1>2, <1>3, <1>4, <1>6, LookUpKeeps
<1>7. CASE AskBlob(w)
  <2>1. UNCHANGED files /\ UNCHANGED next
    BY <1>7 DEF AskBlob
  <2> QED BY <2>1, <1>2, <1>3, <1>4, <1>7, AskBlobKeeps
<1>8. CASE ReadBlob(w)
  <2>1. UNCHANGED files /\ UNCHANGED next /\ worker[w].at = "reads" /\ Arrived(w, Asked(w)[1])
    BY <1>8 DEF ReadBlob, Job
  <2>2. JobFits(pull, reading, worker[w]) /\ Asked(w)[1] \in ContentsOf(pull, reading)
    BY <2>1, AskedIsThere
  <2> QED BY <2>1, <2>2, <1>2, <1>3, <1>4, ArrivedKeeps
<1>9. CASE ForgottenBlob(w)
  <2>1. UNCHANGED files /\ UNCHANGED next /\ worker[w].at = "reads" /\ Arrived(w, <<>>)
    BY <1>9 DEF ForgottenBlob, Job
  <2>2. JobFits(pull, reading, worker[w]) /\ <<>> \in ContentsOf(pull, reading)
    BY <2>1, AskedIsThere DEF ContentsOf
  <2> QED BY <2>1, <2>2, <1>2, <1>3, <1>4, ArrivedKeeps
<1>10. CASE BrokenBlob(w)
  <2>1. UNCHANGED files /\ UNCHANGED next /\ Rest(w)
    BY <1>10 DEF BrokenBlob
  <2> QED BY <2>1, <1>2, <1>3, <1>4, Rests
<1>11. CASE ComputePatch(w)
  <2>1. UNCHANGED next
    BY <1>11 DEF ComputePatch
  <2> QED BY <2>1, <1>2, <1>3, <1>11, ComputePatchKeeps
<1> QED BY <1>1, <1>5, <1>6, <1>7, <1>8, <1>9, <1>10, <1>11

(* A listing that starts to be read.                                         *)
LEMMA StartFits ==
    ASSUME NEW which \in {"diff", "compare"}, StartFill(which), Azure, FillInv, pc # "filling",
           pc' = "filling", UNCHANGED pull
    PROVE  FillInv'
<1> DEFINE k == Kept(pull.listing[which])
<1>1. /\ reading' = which /\ files' = Mapped(k, AzureFile) /\ next' = 1 /\ worker' = worker
  BY DEF StartFill
<1>2. AzureFiles(pull, which, Mapped(k, AzureFile))
  <2> DEFINE fs == Mapped(k, AzureFile)
  <2>1. fs = [i \in DOMAIN k |-> AzureFile(k[i])]
    BY DEF Mapped
  <2> HIDE DEF fs
  <2>2. fs = [i \in DOMAIN k |-> fs[i]] /\ \A i \in DOMAIN k : fs[i] = AzureFile(k[i])
    BY <2>1
  <2>3. \A c : /\ AzureFile(c) = [path |-> Trimmed(c.path), previous |-> Trimmed(c.original),
                                  patch |-> AzureFile(c).patch, additions |-> AzureFile(c).additions,
                                  deletions |-> AzureFile(c).deletions]
               /\ AzureFile(c).patch = <<>>
    BY DEF AzureFile
  <2>4. \A i \in DOMAIN k :
              /\ fs[i] = [path |-> Trimmed(k[i].path), previous |-> Trimmed(k[i].original), patch |-> fs[i].patch,
                          additions |-> fs[i].additions, deletions |-> fs[i].deletions]
              /\ fs[i].patch = <<>> \/ WellFormed(fs[i].patch, TRUE)
    BY <2>2, <2>3
  <2>5. AzureFiles(pull, which, fs)
    BY <2>2, <2>4 DEF AzureFiles
  <2> QED BY <2>5 DEF fs
<1>3. AllFit(pull, which, worker)
  BY DEF FillInv, AllFit
<1>4. AzureFiles(pull, which, files') /\ AllFit(pull, which, worker')
  BY <1>1, <1>2, <1>3
<1> QED BY <1>1, <1>4 DEF FillInv, Azure

LEMMA InitFills ==
    ASSUME Init
    PROVE  FillInv
<1>1. worker = [w \in Workers |-> Idle] /\ next = 1 /\ reading = "diff" /\ pc = "settings"
  BY DEF Init, FillInit
<1>2. \A w \in Workers : worker[w] = Idle
  BY <1>1
<1> QED BY <1>1, <1>2 DEF FillInv, AllFit

(* FillInv is inductive.                                                        *)
LEMMA FillStep ==
    ASSUME IsPull(pull), FillInv, [Next]_vars
    PROVE  FillInv'
<1>1. CASE UNCHANGED <<pull, reading, fill>> /\ pc # "filling" /\ pc' # "filling"
  <2>1. next' = next /\ worker' = worker
    BY <1>1 DEF fill
  <2> QED BY <1>1, <2>1 DEF FillInv, Azure
<1>2. CASE UNCHANGED <<pull, reading, fill, pc>>
  <2>1. next' = next /\ worker' = worker /\ files' = files
    BY <1>2 DEF fill
  <2> QED BY <1>2, <2>1 DEF FillInv, Azure
<1>3. CASE Fill
  BY <1>3, FillingKeeps DEF Fill, FillInv
<1>4. CASE EndFill
  <2>1. /\ \A w \in Workers : worker[w] = Idle
        /\ pc' \in {"failed", "triage", "since", "nothing"}
        /\ next' = 1 /\ UNCHANGED <<pull, reading, worker>>
    BY <1>4 DEF EndFill, Filled, Job, Fail, Got, Since
  <2> QED BY <2>1 DEF FillInv
<1>5. CASE FetchDiff
  <2>1. CASE Azure
    BY <1>5, <2>1, StartFits DEF FetchDiff
  <2>2. CASE ~Azure
    <3>1. UNCHANGED <<pull, reading, fill>> /\ pc # "filling" /\ pc' # "filling"
      BY <1>5, <2>2 DEF FetchDiff, Got
    <3> QED BY <3>1, <1>1
  <2> QED BY <2>1, <2>2
<1>6. CASE Incremental
  <2>1. CASE UNCHANGED <<reading, fill>> /\ pc' # "filling"
    <3>1. UNCHANGED <<pull, reading, fill>> /\ pc # "filling" /\ pc' # "filling"
      BY <1>6, <2>1 DEF Incremental
    <3> QED BY <3>1, <1>1
  <2>2. CASE StartFill("compare") /\ pc' = "filling" /\ Azure
    BY <1>6, <2>2, StartFits DEF Incremental
  <2> QED BY <1>6, <2>1, <2>2 DEF Incremental, Since
<1>7. CASE ReadSettings \/ FailDiff \/ FailCompare \/ Triage \/ RunAgent \/ RefuseModel \/ FailAgent
  <2>1. UNCHANGED <<pull, reading, fill>> /\ pc # "filling" /\ pc' # "filling"
    BY <1>7 DEF ReadSettings, FailDiff, FailCompare, Triage, RunAgent, RefuseModel, FailAgent, Keep, Fail
  <2> QED BY <2>1, <1>1
<1>8. CASE \/ UpsertSummary \/ UpsertFindings \/ FailSummary \/ CreateReviewAtOnce \/ FailReview \/ EndReview
  <2>1. UNCHANGED <<pull, reading, fill>> /\ pc # "filling" /\ pc' # "filling"
    BY <1>8 DEF UpsertSummary, UpsertFindings, FailSummary, CreateReviewAtOnce, FailReview, EndReview, OneByOne,
       Keep, Fail
  <2> QED BY <2>1, <1>1
<1>9. CASE PlaceComment \/ RefuseComment
  BY <1>9, <1>2 DEF PlaceComment, RefuseComment, Keep
<1>10. CASE UNCHANGED vars
  BY <1>10, <1>2 DEF vars
<1> QED BY <1>3, <1>4, <1>5, <1>6, <1>7, <1>8, <1>9, <1>10 DEF Next

-----------------------------------------------------------------------------
(* The diffs of a review, and the findings that are left: FindingsFit.         *)

(* How many findings a review may post: what the deployment says, or less.   *)
Capped(d, s) ==
    /\ "maxComments" \in DOMAIN s /\ s.maxComments \in Int
    /\ d.maxComments > 0 => s.maxComments <= d.maxComments

(* No layer of the settings lifts the deployment's limit.                       *)
LEMMA DefaultsCapped ==
    ASSUME NEW d, d.maxComments \in Int
    PROVE  Capped(d, Defaults(d))
<1> DEFINE s == Defaults(d)
<1>1. /\ "maxComments" \in DOMAIN s
      /\ s.maxComments = IF d.maxComments <= 0 THEN DefaultMaxComments ELSE d.maxComments
  BY DEF Defaults
<1> HIDE DEF s
<1>2. s.maxComments \in Int /\ (d.maxComments > 0 => s.maxComments <= d.maxComments)
  <2> DEFINE m == d.maxComments
             c == s.maxComments
  <2>1. m \in Int /\ c = IF m <= 0 THEN 20 ELSE m
    BY <1>1 DEF DefaultMaxComments
  <2> HIDE DEF m, c
  <2>2. c \in Int /\ (m > 0 => c <= m)
    BY <2>1
  <2> QED BY <2>2 DEF m, c
<1> QED BY <1>1, <1>2 DEF Capped, s

LEMMA ApplyReviewCapped ==
    ASSUME NEW d, NEW r, NEW out, Capped(d, out), r.maxComments \in Int \cup {Unset}, d.maxComments \in Int
    PROVE  Capped(d, ApplyReview(r, out))
<1> DEFINE after == ApplyReview(r, out)
           m == IF r.maxComments # Unset /\ r.maxComments < out.maxComments THEN r.maxComments ELSE out.maxComments
<1>1. "maxComments" \in DOMAIN after /\ after.maxComments = m
  BY DEF ApplyReview, Capped
<1> HIDE DEF after
<1>2. m \in Int /\ (d.maxComments > 0 => m <= d.maxComments)
  <2> DEFINE a == r.maxComments
             b == out.maxComments
             c == d.maxComments
  <2>1. a \in Int \cup {Unset} /\ b \in Int /\ c \in Int /\ (c > 0 => b <= c)
    BY DEF Capped
  <2>2. m = IF a # Unset /\ a < b THEN a ELSE b
    OBVIOUS
  <2> HIDE DEF a, b, c, m
  <2>3. m \in Int /\ (c > 0 => m <= c)
    <3>1. CASE a # Unset /\ a < b
      <4>1. a \in Int
        BY <2>1, <3>1
      <4> QED BY <2>1, <2>2, <3>1, <4>1
    <3>2. CASE ~(a # Unset /\ a < b)
      BY <2>1, <2>2, <3>2
    <3> QED BY <3>1, <3>2
  <2> QED BY <2>3 DEF c
<1> HIDE DEF m
<1> QED BY <1>1, <1>2 DEF Capped, after

LEMMA ApplyCapped ==
    ASSUME NEW d, NEW config, NEW base, Capped(d, base), d.maxComments \in Int,
           config.review # Unset => config.review.maxComments \in Int \cup {Unset}
    PROVE  Capped(d, Apply(config, base))
<1> DEFINE out == [base EXCEPT
                  !.guidelines = IF config.guidelines THEN Append(@, ".kibitz.yaml") ELSE @,
                  !.answer = Or(config.answer, @),
                  !.mcp = Or(config.mcp, @),
                  !.implement = ApplyImplement(config.implement, @)]
<1>1. DOMAIN out = DOMAIN base /\ ("maxComments" \in DOMAIN base => out.maxComments = base.maxComments)
  OBVIOUS
<1>2. Apply(config, base) = IF config.review = Unset THEN out ELSE ApplyReview(config.review, out)
  BY DEF Apply
<1> HIDE DEF out
<1>3. Capped(d, out)
  BY <1>1 DEF Capped
<1>4. CASE config.review = Unset
  BY <1>2, <1>3, <1>4
<1>5. CASE config.review # Unset
  BY <1>2, <1>3, <1>5, ApplyReviewCapped
<1> QED BY <1>4, <1>5

LEMMA SettingsCapped ==
    ASSUME NEW d, NEW conventions, NEW file, d.maxComments \in Int,
           file.form = "mapping" /\ file.config.review # Unset =>
               file.config.review.maxComments \in Int \cup {Unset}
    PROVE  Capped(d, SettingsFor(d, conventions, file).settings)
<1> DEFINE read   == GuidelinesOf(conventions)
           paths  == [i \in DOMAIN read.found |-> read.found[i].path]
           base   == [Defaults(d) EXCEPT !.guidelines = @ \o paths]
           parsed == Parse(file)
           asked  == Apply(parsed.config, base)
           limited == [asked EXCEPT !.mcp = @ \cap d.servers]
<1>1. Capped(d, base)
  <2> DEFINE s == Defaults(d)
  <2>1. Capped(d, s)
    BY DefaultsCapped
  <2> HIDE DEF s
  <2>2. DOMAIN base = DOMAIN s /\ ("maxComments" \in DOMAIN s => base.maxComments = s.maxComments)
    BY DEF s
  <2> HIDE DEF base
  <2> QED BY <2>1, <2>2 DEF Capped
<1>2. parsed.config \in {Unset, file.config} /\ (parsed.config # Unset => file.form = "mapping")
  BY DEF Parse
<1>3. \/ SettingsFor(d, conventions, file).settings = base
      \/ parsed.config # Unset /\ SettingsFor(d, conventions, file).settings = limited
  BY DEF SettingsFor
<1> HIDE DEF base, parsed
<1>4. parsed.config # Unset => Capped(d, asked)
  <2> SUFFICES ASSUME parsed.config # Unset
               PROVE  Capped(d, asked)
    OBVIOUS
  <2>1. parsed.config = file.config /\ file.form = "mapping"
    BY <1>2
  <2> QED BY <2>1, <1>1, ApplyCapped
<1> HIDE DEF asked
<1>5. Capped(d, asked) => Capped(d, limited)
  <2>1. DOMAIN limited = DOMAIN asked /\ ("maxComments" \in DOMAIN asked => limited.maxComments = asked.maxComments)
    OBVIOUS
  <2> HIDE DEF limited
  <2> QED BY <2>1 DEF Capped
<1> QED BY <1>1, <1>3, <1>4, <1>5

LEMMA PullCapped ==
    ASSUME IsPull(pull)
    PROVE  Settings.maxComments \in Int /\ (Deployment.maxComments > 0 => Settings.maxComments <= Deployment.maxComments)
<1>1. Capped(pull.deployment, SettingsFor(pull.deployment, pull.conventions, pull.file).settings)
  BY SettingsCapped DEF IsPull
<1> QED BY <1>1 DEF Capped, Settings, Resolved, Deployment

-----------------------------------------------------------------------------
(* The files of Azure's listing, once the workers are done with them.        *)
LEMMA FilledFits ==
    ASSUME IsPull(pull), FillInv, pc = "filling", reading = "diff"
    PROVE  FitFiles(files, pull.platform # "github")
<1> DEFINE k == Kept(pull.listing["diff"])
           s == pull.listing["diff"]
<1>1. pull.platform = "azure" /\ AzureFiles(pull, "diff", files)
  BY DEF FillInv, Azure
<1>2. k \in Seq(Range(s))
  BY <1>1, KeptFrom
<1>3. PICK pos : Origin(pull, "diff", pos)
  BY <1>1, KeptFrom
<1>4. /\ pos \in [1 .. Len(k) -> Entries(pull, "diff")]
      /\ \A i, j \in 1 .. Len(k) : pos[i] = pos[j] => i = j
      /\ \A i \in 1 .. Len(k) : k[i] = s[pos[i]]
  BY <1>3 DEF Origin
<1>5. \A i, j \in Entries(pull, "diff") : FileOf(pull, s[i]).path = FileOf(pull, s[j]).path => i = j
  BY DEF IsPull
<1>6. \A ch : FileOf(pull, ch).path = Trimmed(ch.path)
  BY <1>1 DEF FileOf, AzureFile
<1>7. DOMAIN k = 1 .. Len(k) /\ Len(k) \in Nat
  BY <1>2
<1>8. /\ files = [i \in DOMAIN k |-> files[i]]
      /\ \A i \in DOMAIN k : /\ files[i].path = Trimmed(k[i].path)
                             /\ files[i].patch = <<>> \/ WellFormed(files[i].patch, TRUE)
  <2>1. /\ files = [i \in DOMAIN k |-> files[i]]
        /\ \A i \in DOMAIN k :
              /\ files[i] = [path |-> Trimmed(k[i].path), previous |-> Trimmed(k[i].original),
                             patch |-> files[i].patch,
                             additions |-> files[i].additions, deletions |-> files[i].deletions]
              /\ files[i].patch = <<>> \/ WellFormed(files[i].patch, TRUE)
    BY <1>1 DEF AzureFiles
  <2>2. \A i \in DOMAIN k : files[i].path = Trimmed(k[i].path)
    <3> TAKE i \in DOMAIN k
    <3> DEFINE f == files[i]
    <3>1. f = [path |-> Trimmed(k[i].path), previous |-> Trimmed(k[i].original), patch |-> f.patch,
               additions |-> f.additions, deletions |-> f.deletions]
      BY <2>1
    <3> HIDE DEF f
    <3>2. f.path = Trimmed(k[i].path)
      BY <3>1
    <3> QED BY <3>2 DEF f
  <2> QED BY <2>1, <2>2
<1> HIDE DEF k, s
<1>9. files \in Seq(Range(files)) /\ DOMAIN files = 1 .. Len(k)
  <2>1. files = [i \in 1 .. Len(k) |-> files[i]]
    BY <1>7, <1>8
  <2>2. \A i \in 1 .. Len(k) : files[i] \in Range(files)
    BY <2>1 DEF Range
  <2> DEFINE R == Range(files)
  <2> HIDE DEF R
  <2>3. files \in Seq(R)
    BY <1>7, <2>1, <2>2 DEF R
  <2> QED BY <2>1, <2>3 DEF R
<1>10. \A i, j \in DOMAIN files : files[i].path = files[j].path => i = j
  <2> SUFFICES ASSUME NEW i \in 1 .. Len(k), NEW j \in 1 .. Len(k), files[i].path = files[j].path
               PROVE  i = j
    BY <1>9
  <2>0. /\ files[i].path = Trimmed(k[i].path) /\ files[j].path = Trimmed(k[j].path)
        /\ k[i] = s[pos[i]] /\ k[j] = s[pos[j]]
    BY <1>4, <1>7, <1>8
  <2>1. Trimmed(s[pos[i]].path) = Trimmed(s[pos[j]].path)
    BY <2>0
  <2>2. pos[i] \in Entries(pull, "diff") /\ pos[j] \in Entries(pull, "diff")
    BY <1>4
  <2>3. pos[i] = pos[j]
    BY <2>1, <2>2, <1>5, <1>6
  <2> QED BY <2>3, <1>4
<1>11. \A i \in DOMAIN files : files[i].patch = <<>> \/ WellFormed(files[i].patch, pull.platform # "github")
  BY <1>1, <1>7, <1>8, <1>9
<1> QED BY <1>9, <1>10, <1>11 DEF FitFiles

-----------------------------------------------------------------------------
(* The diff a review places its findings in.                                 *)
FullInv ==
    /\ pull \in Pulls
    /\ FitFiles(full.files, pull.platform # "github")
    /\ \A i \in DOMAIN full.files : ~Matched(Settings.ignore, full.files[i].path)

(* A diff without the ignored files.                                            *)
LEMMA FilteredFits ==
    ASSUME NEW diff, "files" \in DOMAIN diff, NEW ended, FitFiles(diff.files, ended), NEW ignore
    PROVE  LET kept == FilterPaths(diff, ignore)
           IN  /\ FitFiles(kept.files, ended)
               /\ \A i \in DOMAIN kept.files : ~Matched(ignore, kept.files[i].path)
<1> DEFINE fs == diff.files
           set == {f \in Range(fs) : ~Matched(ignore, f.path)}
           ks == Only(fs, set)
<1>1. FilterPaths(diff, ignore).files = ks
  BY DEF FilterPaths
<1>2. FitFiles(ks, ended)
  BY FitOnly
<1>3. Range(ks) = Range(fs) \cap set
  BY RangeOfOnly DEF FitFiles
<1>4. \A i \in DOMAIN ks : ks[i] \in set
  <2> HIDE DEF ks
  <2>1. \A i \in DOMAIN ks : ks[i] \in Range(ks)
    BY DEF Range
  <2> QED BY <2>1, <1>3
<1> HIDE DEF ks
<1>5. \A i \in DOMAIN ks : ~Matched(ignore, ks[i].path)
  BY <1>4
<1> QED BY <1>1, <1>2, <1>5

(* What a review takes for its diff fits.                                       *)
LEMMA GotFits ==
    ASSUME FullInv, NEW diff, "files" \in DOMAIN diff, FitFiles(diff.files, pull.platform # "github"), Got(diff),
           UNCHANGED pull
    PROVE  FullInv'
<1>1. full' = FilterPaths(diff, Settings.ignore)
  BY DEF Got
<1>2. Settings' = Settings
  BY DEF Settings, Resolved, Deployment
<1>3. /\ FitFiles(full'.files, pull.platform # "github")
      /\ \A i \in DOMAIN full'.files : ~Matched(Settings.ignore, full'.files[i].path)
  BY <1>1, FilteredFits
<1> QED BY <1>2, <1>3 DEF FullInv

LEMMA InitFull ==
    ASSUME Init
    PROVE  FullInv
<1>1. pull \in Pulls /\ full.files = <<>>
  BY DEF Init, Nothing
<1>2. FitFiles(<<>>, pull.platform # "github")
  BY DEF FitFiles
<1> QED BY <1>1, <1>2 DEF FullInv

(* FullInv is inductive, given FillInv.                                         *)
LEMMA FullStep ==
    ASSUME FullInv, FillInv, [Next]_vars
    PROVE  FullInv'
<1>1. IsPull(pull)
  BY PullsAssumption DEF FullInv
<1>2. CASE UNCHANGED <<pull, full>>
  <2>1. Settings' = Settings
    BY <1>2 DEF Settings, Resolved, Deployment
  <2> QED BY <1>2, <2>1 DEF FullInv
<1>3. CASE FetchDiff
  <2>1. CASE Azure
    <3>1. UNCHANGED <<pull, full>>
      BY <1>3, <2>1 DEF FetchDiff, report_vars
    <3> QED BY <3>1, <1>2
  <2>2. CASE ~Azure
    <3>1. "files" \in DOMAIN PlatformDiff
      BY DEF PlatformDiff, Paged
    <3> QED BY <1>1, <1>3, <2>2, <3>1, PlatformDiffFits, GotFits DEF FetchDiff
  <2> QED BY <2>1, <2>2
<1>4. CASE EndFill
  <2>1. CASE Got(FilledDiff) /\ reading = "diff"
    <3>1. FilledDiff.files = files /\ "files" \in DOMAIN FilledDiff
      BY DEF FilledDiff
    <3>2. pc = "filling" /\ UNCHANGED pull
      BY <1>4 DEF EndFill
    <3>3. FitFiles(files, pull.platform # "github")
      BY <1>1, <2>1, <3>2, FilledFits
    <3> QED BY <2>1, <3>1, <3>2, <3>3, GotFits
  <2>2. CASE UNCHANGED <<pull, full>>
    BY <2>2, <1>2
  <2> QED BY <1>4, <2>1, <2>2 DEF EndFill, Since, report_vars
<1>5. CASE ReadSettings \/ FailDiff \/ Fill \/ Incremental \/ FailCompare \/ Triage \/ RunAgent \/ RefuseModel
           \/ FailAgent
  <2>1. UNCHANGED <<pull, full>>
    BY <1>5 DEF ReadSettings, FailDiff, Fill, Incremental, Since, FailCompare, Triage, RunAgent, RefuseModel,
       FailAgent, Keep, report_vars
  <2> QED BY <2>1, <1>2
<1>6. CASE \/ UpsertSummary \/ UpsertFindings \/ FailSummary \/ CreateReviewAtOnce \/ PlaceComment
           \/ RefuseComment \/ FailReview \/ EndReview
  <2>1. UNCHANGED <<pull, full>>
    BY <1>6 DEF UpsertSummary, UpsertFindings, FailSummary, CreateReviewAtOnce, PlaceComment, RefuseComment,
       FailReview, EndReview, Keep, report_vars
  <2> QED BY <2>1, <1>2
<1>7. CASE UNCHANGED vars
  BY <1>7, <1>2 DEF vars, report_vars
<1> QED BY <1>3, <1>4, <1>5, <1>6, <1>7 DEF Next

(* What a review says is what Sanitize leaves of an answer of the agent's.   *)
ReportInv ==
    pc \in {"summary", "review", "fallback", "done"} =>
        /\ result \in pull.documents
        /\ report = Sanitize(result, Positions(full.files), Settings)

(* ReportInv is inductive.                                                      *)
LEMMA ReportStep ==
    ASSUME ReportInv, [Next]_vars
    PROVE  ReportInv'
<1>1. CASE UNCHANGED <<pull, full, result, report>>
           /\ (pc' \in {"summary", "review", "fallback", "done"} => pc \in {"summary", "review", "fallback", "done"})
  <2>1. Settings' = Settings
    BY <1>1 DEF Settings, Resolved, Deployment
  <2> QED BY <1>1, <2>1 DEF ReportInv
<1>2. CASE RunAgent
  <2>1. PICK document \in pull.documents :
            /\ result' = document
            /\ pc' = "summary" => report' = Sanitize(document, Positions(full.files), Settings)
            /\ pc' \in {"summary", "agent", "failed"}
    BY <1>2 DEF RunAgent
  <2>2. UNCHANGED <<pull, full>>
    BY <1>2 DEF RunAgent, Keep
  <2>3. Settings' = Settings
    BY <2>2 DEF Settings, Resolved, Deployment
  <2> QED BY <2>1, <2>2, <2>3 DEF ReportInv
<1>3. CASE ReadSettings \/ FetchDiff \/ FailDiff \/ Fill \/ EndFill \/ Incremental \/ FailCompare \/ Triage
           \/ RefuseModel \/ FailAgent
  <2>1. pc' \notin {"summary", "review", "fallback", "done"}
    BY <1>3 DEF ReadSettings, FetchDiff, FailDiff, Fill, EndFill, Incremental, Since, Got, FailCompare, Triage,
       RefuseModel, FailAgent, Fail
  <2> QED BY <2>1 DEF ReportInv
<1>4. CASE \/ UpsertSummary \/ UpsertFindings \/ FailSummary \/ CreateReviewAtOnce \/ PlaceComment
           \/ RefuseComment \/ FailReview \/ EndReview
  <2>1. UNCHANGED <<pull, full, result, report>>
    BY <1>4 DEF UpsertSummary, UpsertFindings, FailSummary, CreateReviewAtOnce, PlaceComment, RefuseComment,
       FailReview, EndReview, Keep, report_vars
  <2>2. pc \in {"summary", "review", "fallback", "done"}
    BY <1>4 DEF UpsertSummary, UpsertFindings, FailSummary, CreateReviewAtOnce, PlaceComment, RefuseComment,
       FailReview, EndReview, OneByOne
  <2> QED BY <2>1, <2>2, <1>1
<1>5. CASE UNCHANGED vars
  BY <1>5, <1>1 DEF vars, report_vars
<1> QED BY <1>2, <1>3, <1>4, <1>5 DEF Next

-----------------------------------------------------------------------------
(* Where the comments of an answer fit, and which is the first of its key.   *)
FirstOf(C, positions, low, k) == Min({i \in {j \in 1 .. Len(C) : Fit(C[j], positions, low)} : KeyOf(C[i]) = k})

(* The least position at which a key fits is that of the first comment of the key. *)
LEMMA FirstIsFirst ==
    ASSUME NEW S, NEW C \in Seq(S), NEW positions, NEW low
    PROVE  \A k \in FitKeys(C, positions, low) :
              LET f == FirstOf(C, positions, low, k)
              IN  /\ f \in 1 .. Len(C) /\ FirstFit(C, positions, low, f)
                  /\ KeyOf(C[f]) = k
                  /\ \A i \in 1 .. Len(C) : FirstFit(C, positions, low, i) /\ KeyOf(C[i]) = k => i = f
<1> DEFINE n == Len(C)
           fit == {i \in 1 .. n : Fit(C[i], positions, low)}
           T(k) == {i \in fit : KeyOf(C[i]) = k}
           first(k) == Min(T(k))
<1> SUFFICES ASSUME NEW k \in FitKeys(C, positions, low)
             PROVE  /\ first(k) \in 1 .. n /\ FirstFit(C, positions, low, first(k))
                    /\ KeyOf(C[first(k)]) = k
                    /\ \A i \in 1 .. n : FirstFit(C, positions, low, i) /\ KeyOf(C[i]) = k => i = first(k)
  BY DEF FirstOf
<1>n. n \in Nat
  OBVIOUS
<1> HIDE DEF n
<1>1. T(k) \in SUBSET Nat /\ T(k) # {} /\ T(k) \in SUBSET (1 .. n)
  BY <1>n DEF FitKeys, n
<1>2. first(k) \in T(k) /\ \A o \in T(k) : first(k) <= o
  BY <1>1, Least
<1> DEFINE f == first(k)
<1>3. f \in 1 .. n /\ Fit(C[f], positions, low) /\ KeyOf(C[f]) = k
  BY <1>2
<1>4. \A o \in 1 .. n : Fit(C[o], positions, low) /\ KeyOf(C[o]) = k => f <= o
  BY <1>2
<1> HIDE DEF f
<1>5. FirstFit(C, positions, low, f)
  <2>1. \A o \in 1 .. f - 1 : o \in 1 .. n /\ ~(f <= o)
    BY <1>3, <1>n
  <2> QED BY <2>1, <1>3, <1>4 DEF FirstFit, n
<1>6. ASSUME NEW i \in 1 .. n, FirstFit(C, positions, low, i), KeyOf(C[i]) = k
      PROVE  i = f
  <2>1. Fit(C[i], positions, low) /\ \A o \in 1 .. i - 1 : Fit(C[o], positions, low) => KeyOf(C[o]) # KeyOf(C[i])
    BY <1>6 DEF FirstFit
  <2>2. f <= i
    BY <2>1, <1>4, <1>6
  <2>3. f \notin 1 .. i - 1
    BY <2>1, <1>3, <1>6
  <2> QED BY <2>2, <2>3, <1>3, <1>n
<1> QED BY <1>3, <1>5, <1>6 DEF f, n

(* FindingsFit is what SanitizeFacts says of the diff that FullInv describes, its *)
(* lines those of LinesAllowed.                                                 *)
LEMMA FitInvariant ==
    ASSUME FullInv, ReportInv
    PROVE  FindingsFit
<1> SUFFICES ASSUME pc \in {"summary", "review", "fallback", "done"}
             PROVE  FindingsFit
  BY DEF FindingsFit
<1> DEFINE findings == report.findings
           F        == Range(report.findings)
           C        == result.comments
           Key(c)   == <<c.path, c.line, c.title>>
           fit      == {i \in DOMAIN C : /\ AtLeast(C[i].severity, Settings.minSeverity)
                                         /\ Shows(C[i].path, C[i].line)}
           Says(f, c) == /\ [c EXCEPT !.end = f.end] = f
                         /\ f.end = c.end \/ (f.end = 0 /\ ~Shows(c.path, c.end))
           first(k) == Min({i \in fit : Key(C[i]) = k})
           keys     == {Key(C[i]) : i \in fit}
           said     == {Key(f) : f \in F}
           P   == Positions(full.files)
           low == Settings.minSeverity
           n == Len(C)
           m == Len(findings)
           R == Range(C)
<1>1. IsPull(pull) /\ result \in pull.documents /\ report = Sanitize(result, P, Settings)
  BY PullsAssumption DEF FullInv, ReportInv
<1>2. Settings.maxComments \in Int /\ (Deployment.maxComments > 0 => Settings.maxComments <= Deployment.maxComments)
      /\ Deployment.maxComments \in Int
  BY <1>1, PullCapped DEF IsPull, Deployment
<1>3. C \in Seq(R) /\ \A i \in DOMAIN C : IsComment(C[i])
  BY <1>1 DEF IsPull
<1>4. DOMAIN C = 1 .. n /\ n \in Nat
  BY <1>3, SequenceOfItsRange
<1>5. /\ findings \in Seq({Shorten(C[i], P) : i \in 1 .. n})
      /\ m = Min({Cardinality(FitKeys(C, P, low)), Max({0, Settings.maxComments})})
      /\ m + Dropped(report) = n
      /\ \E from : Posted(C, P, low, findings, from)
  <2> HIDE DEF R, P
  <2>1. \A i \in 1 .. Len(result.comments) : IsComment(result.comments[i])
    BY <1>3, <1>4
  <2>2. result.comments \in Seq(R)
    BY <1>3
  <2>3. LET r == Sanitize(result, P, Settings)
        IN  /\ r.findings \in Seq({Shorten(result.comments[i], P) : i \in 1 .. Len(result.comments)})
            /\ Len(r.findings) = Min({Cardinality(FitKeys(result.comments, P, Settings.minSeverity)),
                                     Max({0, Settings.maxComments})})
            /\ Len(r.findings) + Dropped(r) = Len(result.comments)
            /\ \E from : Posted(result.comments, P, Settings.minSeverity, r.findings, from)
    BY <1>2, <2>1, <2>2, SanitizeFacts
  <2> QED BY <1>1, <2>3
<1>6. PICK from : Posted(C, P, low, findings, from)
  BY <1>5
<1>7. \A path : \A line \in Int : Shows(path, line) <=> LineAllowed(P, path, line)
  BY ShowsLines DEF FullInv
<1>8. \A i \in 1 .. n : C[i].line \in Int /\ C[i].end \in Int
  BY <1>3, <1>4 DEF IsComment
<1>9. fit = {i \in 1 .. n : Fit(C[i], P, low)}
  BY <1>4, <1>7, <1>8 DEF Fit
<1>10. \A c : Key(c) = KeyOf(c)
  BY DEF KeyOf
<1>11. keys = FitKeys(C, P, low)
  BY <1>9, <1>10 DEF FitKeys
<1> DEFINE firstOf(k) == FirstOf(C, P, low, k)
<1>12. \A k : first(k) = firstOf(k)
  BY <1>9, <1>10 DEF FirstOf
<1>13. \A k \in FitKeys(C, P, low) :
                  /\ firstOf(k) \in 1 .. n /\ FirstFit(C, P, low, firstOf(k))
                  /\ KeyOf(C[firstOf(k)]) = k
                  /\ \A i \in 1 .. n : FirstFit(C, P, low, i) /\ KeyOf(C[i]) = k => i = firstOf(k)
  <2> HIDE DEF P, R, low, C
  <2> QED BY <1>3, FirstIsFirst
<1> HIDE DEF P, R, low, n, firstOf
<1>14. m \in Nat /\ DOMAIN findings = 1 .. m /\ F = {findings[p] : p \in 1 .. m}
  <2>1. m \in Nat /\ DOMAIN findings = 1 .. m
    BY <1>5
  <2> QED BY <2>1 DEF Range
<1>15. /\ from \in [1 .. m -> 1 .. n]
       /\ \A p, r \in 1 .. m : from[p] = from[r] => p = r
       /\ \A p \in 1 .. m : FirstFit(C, P, low, from[p]) /\ findings[p] = Shorten(C[from[p]], P)
       /\ \A i \in 1 .. n :
             FirstFit(C, P, low, i) =>
                 \/ \E p \in 1 .. m : from[p] = i
                 \/ \A p \in 1 .. m : Rank(C[from[p]].severity) <= Rank(C[i].severity)
  BY <1>6 DEF Posted, n
<1> HIDE DEF C, findings, m
\* A finding and the comment it comes from.
<1>16. \A p \in 1 .. m :
          /\ from[p] \in 1 .. n /\ from[p] \in fit
          /\ KeyOf(findings[p]) = KeyOf(C[from[p]]) /\ KeyOf(findings[p]) \in FitKeys(C, P, low)
          /\ firstOf(KeyOf(findings[p])) = from[p]
          /\ findings[p].path = C[from[p]].path /\ findings[p].severity = C[from[p]].severity
          /\ Says(findings[p], C[from[p]])
  <2> TAKE p \in 1 .. m
  <2> DEFINE i == from[p]
             c == C[i]
             f == findings[p]
  <2>1. i \in 1 .. n /\ FirstFit(C, P, low, i) /\ f = Shorten(c, P)
    BY <1>15
  <2>2. IsComment(c) /\ c.end \in Int
    BY <2>1, <1>3, <1>4, <1>8
  <2> HIDE DEF i
  <2> HIDE DEF c, f
  <2>3. /\ f.path = c.path /\ f.line = c.line /\ f.severity = c.severity /\ f.title = c.title
        /\ [c EXCEPT !.end = f.end] = f
        /\ f.end = c.end \/ (f.end = 0 /\ ~LineAllowed(P, c.path, c.end))
    BY <2>1, <2>2, ShortenKeeps
  <2>4. KeyOf(f) = KeyOf(c)
    BY <2>3 DEF KeyOf
  <2>5. Fit(c, P, low)
    BY <2>1 DEF FirstFit, c
  <2>6. i \in fit
    BY <2>1, <2>5, <1>9 DEF c
  <2>7. KeyOf(c) \in FitKeys(C, P, low)
    BY <2>1, <2>5 DEF FitKeys, c, n
  <2>8. firstOf(KeyOf(f)) = i
    BY <2>1, <2>4, <2>7, <1>13 DEF c
  <2>9. Says(f, c)
    BY <2>2, <2>3, <1>7
  <2> HIDE DEF Says, fit
  <2>10. i \in 1 .. n
    BY <2>1
  <2> QED BY <2>3, <2>4, <2>6, <2>7, <2>8, <2>9, <2>10 DEF i, c, f
<1>17. Cardinality(said) = m
  <2> DEFINE g == [p \in 1 .. m |-> KeyOf(findings[p])]
  <2>1. said = {KeyOf(findings[p]) : p \in 1 .. m}
    BY <1>14, <1>10
  <2>2. g \in [1 .. m -> said] /\ \A e \in said : \E p \in 1 .. m : g[p] = e
    BY <2>1
  <2>3. \A p, r \in 1 .. m : g[p] = g[r] => p = r
    <3> TAKE p \in 1 .. m, r \in 1 .. m
    <3>1. from[p] = firstOf(KeyOf(findings[p])) /\ from[r] = firstOf(KeyOf(findings[r]))
      BY <1>16
    <3>2. g[p] = KeyOf(findings[p]) /\ g[r] = KeyOf(findings[r])
      OBVIOUS
    <3>3. g[p] = g[r] => from[p] = from[r]
      BY <3>1, <3>2
    <3> HIDE DEF g
    <3> QED BY <3>3, <1>15
  <2> HIDE DEF g, said
  <2> QED BY <1>14, <2>2, <2>3, Counted
<1>18. Deployment.maxComments > 0 => m <= Deployment.maxComments
  <2> DEFINE K == FitKeys(C, P, low)
             d == Deployment.maxComments
             t == Settings.maxComments
             u == Cardinality(K)
  <2>1. IsFiniteSet(K) /\ u \in Nat
    <3>1. IsFiniteSet(1 .. n)
      BY <1>4, FS_Interval
    <3> DEFINE D == {h \in 1 .. n : Fit(C[h], P, low)}
    <3>2. IsFiniteSet(D)
      BY <3>1, FS_Subset
    <3>3. K = {KeyOf(C[i]) : i \in D}
      BY DEF FitKeys, n
    <3> DEFINE h == [i \in D |-> KeyOf(C[i])]
    <3>4. h \in Surjection(D, K)
      BY <3>3 DEF Surjection
    <3> HIDE DEF D, h, K
    <3>5. IsFiniteSet(K)
      BY <3>2, <3>4, FS_Surjection
    <3> QED BY <3>5, FS_CardinalityType
  <2>2. m = Min({u, Max({0, t})}) /\ t \in Int /\ d \in Int /\ (d > 0 => t <= d)
    BY <1>2, <1>5
  <2> HIDE DEF u, t, d, K
  <2>3. Max({0, t}) = IF 0 <= t THEN t ELSE 0
    BY <2>2, GreatestOfTwo
  <2>4. Max({0, t}) \in Int
    BY <2>2, <2>3
  <2>5. m = IF u <= Max({0, t}) THEN u ELSE Max({0, t})
    BY <2>1, <2>2, <2>4, LeastOfTwo
  <2>6. d > 0 => m <= d
    BY <2>1, <2>2, <2>3, <2>5
  <2> QED BY <2>6 DEF d
<1>19. ASSUME NEW p \in 1 .. m
       PROVE  ~Matched(Settings.ignore, findings[p].path)
  <2>1. from[p] \in 1 .. n /\ Fit(C[from[p]], P, low) /\ findings[p].path = C[from[p]].path
    BY <1>15, <1>16 DEF FirstFit
  <2>2. findings[p].path \in DOMAIN P
    BY <2>1 DEF Fit, LineAllowed
  <2>3. \E i \in DOMAIN full.files : full.files[i].path = findings[p].path
    BY <2>2 DEF P, Positions
  <2> QED BY <2>3 DEF FullInv
<1>20. ASSUME NEW p \in 1 .. m, NEW k \in keys \ said
       PROVE  Rank(findings[p].severity) <= Rank(C[first(k)].severity)
  <2> DEFINE i == firstOf(k)
  <2>1. k \in FitKeys(C, P, low)
    BY <1>11
  <2>2. i \in 1 .. n /\ FirstFit(C, P, low, i) /\ KeyOf(C[i]) = k
    BY <2>1, <1>13
  <2>3. first(k) = i
    BY <1>12
  <2> HIDE DEF i
  <2>4. ASSUME NEW r \in 1 .. m, from[r] = i
        PROVE  FALSE
    <3>1. KeyOf(findings[r]) = k
      BY <1>16, <2>2, <2>4
    <3>2. findings[r] \in F
      BY <1>14
    <3>3. k \in said
      BY <3>1, <3>2, <1>10
    <3> QED BY <3>3
  <2>5. Rank(C[from[p]].severity) <= Rank(C[i].severity)
    BY <1>15, <2>2, <2>4
  <2>6. findings[p].severity = C[from[p]].severity
    BY <1>16
  <2> HIDE DEF first
  <2> QED BY <2>3, <2>5, <2>6
<1>21. \A f \in F : /\ Key(f) \in keys /\ Says(f, C[first(Key(f))])
                    /\ ~Matched(Settings.ignore, f.path)
                    /\ \A k \in keys \ said : Rank(f.severity) <= Rank(C[first(k)].severity)
  <2> SUFFICES ASSUME NEW p \in 1 .. m
               PROVE  LET f == findings[p]
                      IN  /\ Key(f) \in keys /\ Says(f, C[first(Key(f))])
                          /\ ~Matched(Settings.ignore, f.path)
                          /\ \A k \in keys \ said : Rank(f.severity) <= Rank(C[first(k)].severity)
    <3> HIDE DEF F, Key, keys, Says, first, said
    <3> QED BY <1>14
  <2> DEFINE f == findings[p]
  <2>1. Key(f) = KeyOf(f)
    BY <1>10
  <2>2. first(Key(f)) = from[p]
    <3>1. firstOf(KeyOf(f)) = from[p]
      BY <1>16
    <3>2. first(KeyOf(f)) = firstOf(KeyOf(f))
      BY <1>12
    <3> HIDE DEF Key, first
    <3> QED BY <2>1, <3>1, <3>2
  <2>3. Key(f) \in keys
    BY <2>1, <1>11, <1>16
  <2>4. Says(f, C[from[p]])
    BY <1>16
  <2> HIDE DEF Key, keys, Says, first, said
  <2> QED BY <2>2, <2>3, <2>4, <1>19, <1>20
<1>22. Len(report.findings) = Min({Cardinality(keys), Max({0, Settings.maxComments})})
  BY <1>5, <1>11 DEF m, findings, C
<1>23. Len(report.findings) + Dropped(report) = Len(C)
  BY <1>5 DEF m, findings, n
<1>24. Len(report.findings) = m
  BY DEF m, findings
<1> HIDE DEF F, Key, fit, keys, Says, first, said
<1>25. FindingsFit
  <2>1. /\ Len(report.findings) = Min({Cardinality(keys), Max({0, Settings.maxComments})})
        /\ Cardinality(said) = Len(report.findings)
        /\ Deployment.maxComments > 0 => Len(report.findings) <= Deployment.maxComments
        /\ \A f \in F : /\ Key(f) \in keys /\ Says(f, C[first(Key(f))])
                         /\ ~Matched(Settings.ignore, f.path)
                         /\ \A k \in keys \ said : Rank(f.severity) <= Rank(C[first(k)].severity)
        /\ Len(report.findings) + Dropped(report) = Len(C)
    BY <1>17, <1>18, <1>21, <1>22, <1>23, <1>24
  <2> QED BY <2>1, Zenon DEF FindingsFit, F, Key, fit, keys, Says, first, said, C
<1> QED BY <1>25

(* For all pull requests, platforms, deployments, settings and agents, and      *)
(* however Azure's workers overlap: the findings a review has left fit the diff, *)
(* the settings and the deployment's limit, and every other one is counted      *)
(* (reviewer/output.go, diffmap.go, worker/settings.go, azuredevops/diff.go).   *)
THEOREM ReviewFits == Spec => []FindingsFit
<1>1. Init => FillInv /\ FullInv /\ ReportInv
  <2>1. Init => ReportInv
    BY DEF Init, ReportInv
  <2> QED BY <2>1, InitFills, InitFull
<1>2. FillInv /\ FullInv /\ ReportInv /\ [Next]_vars => (FillInv /\ FullInv /\ ReportInv)'
  <2> SUFFICES ASSUME FillInv, FullInv, ReportInv, [Next]_vars
               PROVE  (FillInv /\ FullInv /\ ReportInv)'
    OBVIOUS
  <2>1. IsPull(pull)
    BY PullsAssumption DEF FullInv
  <2> QED BY <2>1, FillStep, FullStep, ReportStep
<1>3. FillInv /\ FullInv /\ ReportInv => FindingsFit
  BY FitInvariant
<1> QED BY <1>1, <1>2, <1>3, PTL DEF Spec

-----------------------------------------------------------------------------
(* What is shown to the agent, and what is said of it: SaidOrShown.            *)

(* What the agent is shown. Before the pull request's diff is there nothing  *)
(* is; from then on a file of it is shown or set aside, or the review only   *)
(* reads what was pushed, and of that every file is shown or set aside       *)
(* unless the comparison was cut off.                                        *)
IsDiff(d) == "files" \in DOMAIN d /\ "truncated" \in DOMAIN d /\ d.files \in Seq(Range(d.files))

HasDiff == \/ pc \in {"since", "triage", "agent", "summary", "review", "fallback", "done"}
           \/ pc = "filling" /\ reading = "compare"

Covered(s, d, skips) ==
    IF s THEN pull.pushed \in SUBSET (Paths(d) \cup Range(skips)) \/ d.truncated
    ELSE Paths(full) \in SUBSET (Paths(d) \cup Range(skips))

ShownInv ==
    /\ HasDiff => /\ IsDiff(shown) /\ shown.files # <<>>
                  /\ Covered(since, shown, skipped)
    /\ pc \in {"settings", "diff", "filling", "since"} => ~since
    /\ pc \in {"settings", "diff", "filling", "since", "triage"} => skipped = <<>>
    /\ since \in BOOLEAN
    /\ pc \in {"review", "fallback", "done"} => summary.skipped = skipped

LEMMA NoSkips == Range(<<>>) = {}
  BY DEF Range

(* What triage leaves of a diff, and what it names as left out.              *)
LEMMA NarrowedCovers ==
    ASSUME NEW d, IsDiff(d), d.files # <<>>, NEW paths
    PROVE  LET read == Narrowed(d, paths)
           IN  /\ IsDiff(read.diff) /\ read.diff.files # <<>>
               /\ read.diff.truncated = d.truncated
               /\ Paths(d) \in SUBSET (Paths(read.diff) \cup Range(read.skipped))
<1> DEFINE all == Range(d.files)
           wanted == {f \in all : f.path \in paths \/ (f.previous # <<>> /\ f.previous \in paths)}
           kept == Only(d.files, wanted)
           left == Only(d.files, all \ wanted)
           names == [i \in DOMAIN left |-> left[i].path]
           part == [d EXCEPT !.files = kept]
<1>1. /\ kept \in Seq(all) /\ Range(kept) = all \cap wanted
      /\ left \in Seq(all) /\ Range(left) = all \cap (all \ wanted)
  BY RangeOfOnly DEF IsDiff
<1>2. SelectFiles(d, paths) = [diff |-> part, skipped |-> names]
  BY DEF SelectFiles
<1>3. /\ "files" \in DOMAIN part /\ "truncated" \in DOMAIN part
      /\ part.files = kept /\ part.truncated = d.truncated
  BY DEF IsDiff
<1> HIDE DEF wanted
<1> HIDE DEF kept, left
<1> HIDE DEF part
<1> HIDE DEF all
<1>4. IsDiff(part)
  BY <1>1, <1>3, InItsRange DEF IsDiff
<1>5. Paths(part) = {f.path : f \in all \cap wanted}
  BY <1>1, <1>3 DEF Paths, Range
<1>6. Range(names) = {f.path : f \in all \ wanted}
  BY <1>1 DEF Range
<1>7. Paths(d) = {f.path : f \in all}
  BY DEF Paths, Range, all
<1>8. Paths(d) \in SUBSET (Paths(part) \cup Range(names))
  BY <1>5, <1>6, <1>7
<1> HIDE DEF names
<1>9. CASE kept = <<>>
  <2>1. Narrowed(d, paths) = [diff |-> d, skipped |-> <<>>]
    BY <1>2, <1>3, <1>9 DEF Narrowed
  <2> QED BY <2>1
<1>10. CASE kept # <<>>
  <2>1. Narrowed(d, paths) = [diff |-> part, skipped |-> names]
    BY <1>2, <1>3, <1>10 DEF Narrowed
  <2> QED BY <2>1, <1>3, <1>4, <1>8, <1>10
<1> QED BY <1>9, <1>10

(* Azure's comparison names every file that was pushed, or says it does not. *)
LEMMA FilledHasAll ==
    ASSUME IsPull(pull), FillInv, pc = "filling", reading = "compare"
    PROVE  /\ IsDiff(FilledDiff)
           /\ FilledDiff.truncated \/ pull.pushed \in SUBSET Paths(FilledDiff)
<1> DEFINE k == Kept(pull.listing["compare"])
           s == pull.listing["compare"]
<1>1. pull.platform = "azure" /\ AzureFiles(pull, "compare", files)
  BY DEF FillInv, Azure
<1>2. k \in Seq(Range(s))
  BY <1>1, KeptFrom
<1>3. DOMAIN k = 1 .. Len(k) /\ Len(k) \in Nat
  BY <1>2
<1>4. /\ files = [i \in DOMAIN k |-> files[i]]
      /\ \A i \in DOMAIN k :
              files[i] = [path |-> Trimmed(k[i].path), previous |-> Trimmed(k[i].original),
                          patch |-> files[i].patch,
                          additions |-> files[i].additions, deletions |-> files[i].deletions]
  BY <1>1 DEF AzureFiles
<1>5. FilledDiff.files = files /\ FilledDiff.truncated = (LeftOut(s) \/ over)
      /\ "files" \in DOMAIN FilledDiff /\ "truncated" \in DOMAIN FilledDiff
  BY DEF FilledDiff
<1> HIDE DEF k
<1>6. files \in Seq(Range(files)) /\ DOMAIN files = DOMAIN k
  <2>1. files = [i \in 1 .. Len(k) |-> files[i]]
    BY <1>3, <1>4
  <2>2. \A i \in 1 .. Len(k) : files[i] \in Range(files)
    BY <2>1 DEF Range
  <2> DEFINE R == Range(files)
  <2> HIDE DEF R
  <2>3. files \in Seq(R)
    BY <1>3, <2>1, <2>2 DEF R
  <2> QED BY <2>1, <2>3, <1>3 DEF R
<1>7. \A i \in DOMAIN k : files[i].path = Trimmed(k[i].path)
  <2> TAKE i \in DOMAIN k
  <2> DEFINE f == files[i]
  <2>1. f = [path |-> Trimmed(k[i].path), previous |-> Trimmed(k[i].original), patch |-> f.patch,
             additions |-> f.additions, deletions |-> f.deletions]
    BY <1>4
  <2> HIDE DEF f
  <2>2. f.path = Trimmed(k[i].path)
    BY <2>1
  <2> QED BY <2>2 DEF f
<1>8. ASSUME ~LeftOut(s)
      PROVE  pull.pushed \in SUBSET Paths(FilledDiff)
  <2>1. \A i \in Entries(pull, "compare") : s[i] \in Range(k)
    BY <1>1, <1>8, KeptHasAll DEF k
  <2>2. pull.pushed \in SUBSET {FileOf(pull, s[i]).path : i \in Entries(pull, "compare")}
    BY DEF IsPull
  <2>3. \A ch : FileOf(pull, ch).path = Trimmed(ch.path)
    BY <1>1 DEF FileOf, AzureFile
  <2> HIDE DEF s
  <2>4. ASSUME NEW i \in Entries(pull, "compare")
        PROVE  FileOf(pull, s[i]).path \in Paths(FilledDiff)
    <3>1. PICK j \in DOMAIN k : k[j] = s[i]
      BY <2>1 DEF Range
    <3>2. files[j].path = Trimmed(s[i].path) /\ j \in DOMAIN files
      BY <3>1, <1>6, <1>7
    <3>3. Trimmed(s[i].path) \in Paths(FilledDiff)
      BY <3>2, <1>5 DEF Paths
    <3> QED BY <3>3, <2>3
  <2> QED BY <2>2, <2>4
<1> QED BY <1>5, <1>6, <1>8 DEF IsDiff

LEMMA FirstIsSequence ==
    ASSUME NEW s, s \in Seq(Range(s)), NEW n \in Int
    PROVE  First(n, s) \in Seq(Range(First(n, s)))
<1> DEFINE R == Range(s)
           f == First(n, s)
<1> HIDE DEF R
<1>1. s \in Seq(R)
  BY DEF R
<1>2. f \in Seq(R)
  BY <1>1, FirstOfMany
<1> HIDE DEF f
<1>3. f \in Seq(Range(f))
  BY <1>2, InItsRange
<1> QED BY <1>3 DEF f

(* A comparison is a diff.                                                      *)
LEMMA ComparisonIsDiff ==
    ASSUME IsPull(pull), ~Azure
    PROVE  IsDiff(PlatformComparison)
<1> DEFINE l == ListedFiles(pull, "compare")
           s == pull.listing["compare"]
           n == MaxPages * PageSize
           f == First(MaxFiles, s)
           g == Mapped(f, GitLabFile)
           R == {GitLabFile(f[i]) : i \in 1 .. Len(f)}
           N == Len(f)
<1>1. pull.platform \in {"github", "gitlab"}
  BY DEF IsPull, Azure
<1>2. n \in Int /\ MaxFiles \in Int
  BY BoundsHold DEF Bounds
<1>3. CASE pull.platform = "github"
  <2>1. PlatformComparison = Paged(l)
    BY <1>3, PlatformLists DEF PlatformComparison
  <2>2. Paged(l).files = First(MaxFiles, First(n, l))
        /\ "files" \in DOMAIN Paged(l) /\ "truncated" \in DOMAIN Paged(l)
    BY DEF Paged
  <2>3. l \in Seq(Range(l))
    BY ListedIsSequence
  <2> HIDE DEF l, n
  <2>4. First(MaxFiles, First(n, l)) \in Seq(Range(First(MaxFiles, First(n, l))))
    BY <1>2, <2>3, FirstIsSequence
  <2> QED BY <2>1, <2>2, <2>4 DEF IsDiff
<1>4. CASE pull.platform = "gitlab"
  <2>1. /\ PlatformComparison.files = g
        /\ "files" \in DOMAIN PlatformComparison /\ "truncated" \in DOMAIN PlatformComparison
    BY <1>4 DEF PlatformComparison, GitLabComparison
  <2>2. f \in Seq(Range(f))
    BY <1>2, FirstIsSequence DEF IsPull
  <2>3. DOMAIN f = 1 .. N /\ N \in Nat
    BY <2>2, SequenceOfItsRange
  <2> HIDE DEF f
  <2>4. g = [i \in 1 .. N |-> GitLabFile(f[i])]
    BY <2>3 DEF Mapped
  <2>5. \A i \in 1 .. N : GitLabFile(f[i]) \in R
    OBVIOUS
  <2> HIDE DEF R, N
  <2>6. g \in Seq(R)
    BY <2>3, <2>4, <2>5
  <2> HIDE DEF g
  <2>7. g \in Seq(Range(g))
    BY <2>6, InItsRange
  <2> QED BY <2>1, <2>7 DEF IsDiff
<1> QED BY <1>1, <1>3, <1>4

LEMMA InitShown ==
    ASSUME Init
    PROVE  ShownInv
  BY DEF Init, ShownInv, HasDiff

(* The whole diff, without what the repository leaves out.                   *)
LEMMA GotShown ==
    ASSUME ShownInv, NEW diff, "files" \in DOMAIN diff, "truncated" \in DOMAIN diff,
           NEW ended, FitFiles(diff.files, ended), Got(diff), pc \in {"diff", "filling"}, UNCHANGED pull
    PROVE  ShownInv'
<1> DEFINE kept == FilterPaths(diff, Settings.ignore)
<1>1. "files" \in DOMAIN kept /\ "truncated" \in DOMAIN kept
  BY DEF FilterPaths
<1>2. kept.files \in Seq(Range(kept.files))
  BY FilteredFits DEF FitFiles
<1>3. full' = kept /\ shown' = kept /\ pc' = (IF kept.files = <<>> THEN "nothing" ELSE "since")
      /\ UNCHANGED <<since, skipped>>
  BY DEF Got
<1> HIDE DEF kept
<1>4. IsDiff(kept)
  BY <1>1, <1>2 DEF IsDiff
<1>5. ~since /\ skipped = <<>> /\ since \in BOOLEAN
  BY DEF ShownInv
<1>6. Covered(since, shown, skipped)'
  BY <1>3, <1>5 DEF Covered
<1>7. pc' = "since" => shown'.files # <<>>
  BY <1>3
<1>8. IsDiff(shown')
  BY <1>3, <1>4
<1>9. pc' \in {"nothing", "since"}
  BY <1>3
<1> QED BY <1>3, <1>5, <1>6, <1>7, <1>8, <1>9 DEF ShownInv, HasDiff

(* What was pushed, if there is any of it.                                   *)
LEMMA SinceShown ==
    ASSUME ShownInv, NEW partial, IsDiff(partial), partial.truncated \/ pull.pushed \in SUBSET Paths(partial),
           Since(partial), HasDiff, pc \in {"since", "filling"}, UNCHANGED pull
    PROVE  ShownInv'
<1>1. /\ IsDiff(shown) /\ shown.files # <<>> /\ Covered(since, shown, skipped)
      /\ ~since /\ skipped = <<>> /\ since \in BOOLEAN
  BY DEF ShownInv
<1>2. pc' = "triage" /\ UNCHANGED <<full, skipped>>
  BY DEF Since
<1>3. CASE partial.files = <<>>
  <2>1. UNCHANGED <<shown, since>>
    BY <1>3 DEF Since
  <2>2. Covered(since, shown, skipped)'
    BY <1>1, <1>2, <2>1 DEF Covered, Paths
  <2> QED BY <1>1, <1>2, <2>1, <2>2 DEF ShownInv, HasDiff
<1>4. CASE partial.files # <<>>
  <2>1. shown' = partial /\ since' = TRUE
    BY <1>4 DEF Since
  <2>2. Covered(since, shown, skipped)'
    BY <2>1 DEF Covered, Paths
  <2>3. IsDiff(shown') /\ shown'.files # <<>>
    BY <1>4, <2>1
  <2> QED BY <1>1, <1>2, <2>1, <2>2, <2>3 DEF ShownInv, HasDiff
<1> QED BY <1>3, <1>4

(* Triage shows or sets aside every file it had.                                *)
LEMMA TriageShown ==
    ASSUME ShownInv, Triage
    PROVE  ShownInv'
<1>1. /\ IsDiff(shown) /\ shown.files # <<>> /\ Covered(since, shown, skipped)
      /\ skipped = <<>> /\ since \in BOOLEAN
  BY DEF ShownInv, HasDiff, Triage
<1>2. pc' = "agent" /\ UNCHANGED <<pull, full, since, summary>>
  BY DEF Triage, Keep
<1>3. CASE UNCHANGED <<shown, skipped>>
  <2>1. Covered(since, shown, skipped)'
    BY <1>1, <1>2, <1>3 DEF Covered, Paths
  <2> QED BY <1>1, <1>2, <1>3, <2>1 DEF ShownInv, HasDiff
<1>4. ASSUME NEW paths, shown' = Narrowed(shown, paths).diff, skipped' = Narrowed(shown, paths).skipped
      PROVE  ShownInv'
  <2>1. /\ IsDiff(shown') /\ shown'.files # <<>> /\ shown'.truncated = shown.truncated
        /\ Paths(shown) \in SUBSET (Paths(shown') \cup Range(skipped'))
    BY <1>1, <1>4, NarrowedCovers
  <2>2. Covered(since, shown, <<>>)
    BY <1>1
  <2>3. Covered(since, shown, skipped)'
    <3>1. CASE since
      BY <1>2, <2>1, <2>2, <3>1, NoSkips DEF Covered
    <3>2. CASE ~since
      <4>1. Paths(full) \in SUBSET Paths(shown)
        BY <2>2, <3>2, NoSkips DEF Covered
      <4>2. Paths(full') = Paths(full)
        BY <1>2
      <4> QED BY <1>2, <2>1, <3>2, <4>1, <4>2 DEF Covered
    <3> QED BY <3>1, <3>2, <1>1
  <2> QED BY <1>1, <1>2, <2>1, <2>3 DEF ShownInv, HasDiff
<1>5. \/ UNCHANGED <<shown, skipped>>
      \/ \E paths : shown' = Narrowed(shown, paths).diff /\ skipped' = Narrowed(shown, paths).skipped
  BY DEF Triage
<1> QED BY <1>3, <1>4, <1>5

(* ShownInv is inductive, given FillInv and FullInv.                            *)
LEMMA ShownStep ==
    ASSUME IsPull(pull), FillInv, ShownInv, [Next]_vars
    PROVE  ShownInv'
<1>1. CASE /\ UNCHANGED <<pull, reading, full, shown, since, skipped, summary>>
           /\ \/ pc' = pc
              \/ pc = "settings" /\ pc' = "diff"
              \/ pc' \in {"failed", "not asked"}
              \/ pc = "since" /\ pc' = "triage"
              \/ pc = "agent" /\ pc' = "summary"
              \/ pc \in {"review", "fallback"} /\ pc' \in {"fallback", "done"}
  <2>1. Covered(since, shown, skipped)' <=> Covered(since, shown, skipped)
    BY <1>1 DEF Covered, Paths
  <2>2. HasDiff' => HasDiff
    BY <1>1 DEF HasDiff
  <2> QED BY <1>1, <2>1, <2>2 DEF ShownInv
<1>2. CASE ReadSettings \/ FailDiff \/ Fill \/ FailCompare \/ RefuseModel \/ FailAgent
  BY <1>1, <1>2 DEF ReadSettings, FailDiff, Fill, FailCompare, RefuseModel, FailAgent, Fail, Keep, report_vars
<1>3. CASE RunAgent
  <2>1. /\ pc = "agent" /\ pc' \in {"summary", "agent", "failed"}
        /\ UNCHANGED <<pull, reading, full, shown, since, skipped, summary>>
    BY <1>3 DEF RunAgent, Keep
  <2> QED BY <2>1, <1>1
<1>4. CASE Triage
  BY <1>4, TriageShown
<1>5. CASE FetchDiff
  <2>1. CASE Azure
    <3>1. /\ pc = "diff" /\ pc' = "filling" /\ reading' = "diff"
          /\ UNCHANGED <<pull, full, shown, since, skipped, summary>>
      BY <1>5, <2>1 DEF FetchDiff, StartFill, report_vars
    <3>2. ~HasDiff'
      BY <3>1 DEF HasDiff
    <3> QED BY <3>1, <3>2 DEF ShownInv
  <2>2. CASE ~Azure
    <3>1. "files" \in DOMAIN PlatformDiff /\ "truncated" \in DOMAIN PlatformDiff
      BY DEF PlatformDiff, Paged
    <3>2. FitFiles(PlatformDiff.files, pull.platform # "github")
      BY <2>2, PlatformDiffFits
    <3>3. Got(PlatformDiff) /\ pc = "diff" /\ UNCHANGED pull
      BY <1>5, <2>2 DEF FetchDiff
    <3> QED BY <3>1, <3>2, <3>3, GotShown
  <2> QED BY <2>1, <2>2
<1>6. CASE Incremental
  <2>1. pc = "since" /\ HasDiff /\ UNCHANGED pull
    BY <1>6 DEF Incremental, HasDiff
  <2>2. CASE pc' = "triage" /\ UNCHANGED <<reading, report_vars>>
    BY <1>1, <2>1, <2>2 DEF report_vars
  <2>3. CASE StartFill("compare") /\ pc' = "filling" /\ UNCHANGED report_vars
    <3>1. /\ reading' = "compare"
          /\ UNCHANGED <<full, shown, since, skipped, summary>>
      BY <2>3 DEF StartFill, report_vars
    <3>2. Covered(since, shown, skipped)' <=> Covered(since, shown, skipped)
      BY <2>1, <3>1 DEF Covered, Paths
    <3>3. IsDiff(shown') <=> IsDiff(shown)
      BY <3>1
    <3> QED BY <2>1, <2>3, <3>1, <3>2, <3>3 DEF ShownInv
  <2>4. CASE Since(PlatformComparison) /\ ~Azure
    <3>1. PlatformComparison.truncated \/ pull.pushed \in SUBSET Paths(PlatformComparison)
      BY <2>4, ComparisonHasAll
    <3>2. IsDiff(PlatformComparison)
      BY <2>4, ComparisonIsDiff
    <3> QED BY <2>1, <2>4, <3>1, <3>2, SinceShown
  <2> QED BY <1>6, <2>2, <2>3, <2>4 DEF Incremental
<1>7. CASE EndFill
  <2>1. pc = "filling" /\ UNCHANGED <<pull, reading>>
    BY <1>7 DEF EndFill
  <2>2. CASE reading = "diff" /\ Got(FilledDiff)
    <3>1. "files" \in DOMAIN FilledDiff /\ "truncated" \in DOMAIN FilledDiff /\ FilledDiff.files = files
      BY DEF FilledDiff
    <3>2. FitFiles(FilledDiff.files, pull.platform # "github")
      BY <2>1, <2>2, <3>1, FilledFits
    <3> QED BY <2>1, <2>2, <3>1, <3>2, GotShown
  <2>3. CASE reading = "compare" /\ Since(FilledDiff)
    <3>1. IsDiff(FilledDiff) /\ (FilledDiff.truncated \/ pull.pushed \in SUBSET Paths(FilledDiff))
      BY <2>1, <2>3, FilledHasAll
    <3>2. HasDiff
      BY <2>1, <2>3 DEF HasDiff
    <3> QED BY <2>1, <2>3, <3>1, <3>2, SinceShown
  <2>4. CASE Fail /\ UNCHANGED report_vars
    BY <1>1, <2>1, <2>4 DEF Fail, report_vars
  <2>5. CASE reading = "compare" /\ pc' = "triage" /\ UNCHANGED report_vars
    <3>1. UNCHANGED <<full, shown, since, skipped, summary>> /\ HasDiff
      BY <2>1, <2>5 DEF report_vars, HasDiff
    <3>2. Covered(since, shown, skipped)' <=> Covered(since, shown, skipped)
      BY <2>1, <3>1 DEF Covered, Paths
    <3>3. IsDiff(shown') <=> IsDiff(shown)
      BY <3>1
    <3> QED BY <2>1, <2>5, <3>1, <3>2, <3>3 DEF ShownInv
  <2> QED BY <1>7, <2>2, <2>3, <2>4, <2>5 DEF EndFill
<1>8. CASE UpsertSummary \/ UpsertFindings
  <2>1. /\ pc \in {"summary", "fallback"} /\ pc' \in {"review", "done"}
        /\ UNCHANGED <<pull, reading, full, shown, since, skipped>> /\ summary'.skipped = skipped
    BY <1>8 DEF UpsertSummary, UpsertFindings, Named, Keep
  <2>2. Covered(since, shown, skipped)' <=> Covered(since, shown, skipped)
    BY <2>1 DEF Covered, Paths
  <2>3. HasDiff /\ (IsDiff(shown') <=> IsDiff(shown))
    BY <2>1 DEF HasDiff
  <2> QED BY <2>1, <2>2, <2>3 DEF ShownInv
<1>9. CASE FailSummary \/ CreateReviewAtOnce \/ PlaceComment \/ RefuseComment \/ FailReview \/ EndReview
  <2>1. UNCHANGED <<pull, reading, full, shown, since, skipped, summary>>
    BY <1>9 DEF FailSummary, CreateReviewAtOnce, PlaceComment, RefuseComment, FailReview, EndReview, Keep, report_vars
  <2>2. pc' = pc \/ pc' = "failed" \/ (pc \in {"review", "fallback"} /\ pc' \in {"fallback", "done"})
    BY <1>9 DEF FailSummary, CreateReviewAtOnce, PlaceComment, RefuseComment, FailReview, EndReview, OneByOne, Fail
  <2> QED BY <2>1, <2>2, <1>1
<1>10. CASE UNCHANGED vars
  BY <1>1, <1>10 DEF vars, report_vars
<1> QED BY <1>2, <1>3, <1>4, <1>5, <1>6, <1>7, <1>8, <1>9, <1>10 DEF Next

-----------------------------------------------------------------------------
(* What has been said. Where no place was refused, the findings that were    *)
(* placed are the first ones of the report.                                  *)
Saying == pc \in {"summary", "review", "fallback", "done"}

PostInv ==
    /\ refused \in Nat
    /\ pc \in {"settings", "diff", "filling", "since", "triage", "agent", "summary"} => posted = {} /\ refused = 0
    /\ pc = "review" => /\ IsFiniteSet(posted)
                        /\ refused = 0 => posted = {report.findings[i] : i \in 1 .. Cardinality(posted)}
    /\ pc = "done" => \/ Range(report.findings) \in SUBSET (posted \cup summary.findings)
                      \/ pull.platform = "gitlab" /\ posted # {} /\ refused > 0

(* No finding is there twice.                                                *)
LEMMA FindingsDistinct ==
    ASSUME FullInv, ReportInv, Saying
    PROVE  /\ Len(report.findings) \in Nat
           /\ DOMAIN report.findings = 1 .. Len(report.findings)
           /\ \A i, j \in 1 .. Len(report.findings) : report.findings[i] = report.findings[j] => i = j
<1> DEFINE F == report.findings
           m == Len(F)
           g == [i \in 1 .. m |-> <<F[i].path, F[i].line, F[i].title>>]
           said == {<<f.path, f.line, f.title>> : f \in Range(F)}
           P == Positions(full.files)
           C == result.comments
<1>1. IsPull(pull) /\ result \in pull.documents /\ report = Sanitize(result, P, Settings)
  BY PullsAssumption DEF FullInv, ReportInv, Saying
<1>2. C \in Seq(Range(C)) /\ \A i \in DOMAIN C : IsComment(C[i])
  BY <1>1 DEF IsPull
<1>3. Settings.maxComments \in Int
  BY <1>1, PullCapped
<1>4. F \in Seq({Shorten(C[i], P) : i \in 1 .. Len(C)})
  <2>1. \A i \in 1 .. Len(result.comments) : IsComment(result.comments[i])
    BY <1>2, SequenceOfItsRange
  <2> DEFINE R == Range(C)
  <2>2. result.comments \in Seq(R)
    BY <1>2
  <2> HIDE DEF R, P
  <2>3. LET r == Sanitize(result, P, Settings)
        IN  /\ r.findings \in Seq({Shorten(result.comments[i], P) : i \in 1 .. Len(result.comments)})
            /\ Len(r.findings) = Min({Cardinality(FitKeys(result.comments, P, Settings.minSeverity)),
                                     Max({0, Settings.maxComments})})
            /\ Len(r.findings) + Dropped(r) = Len(result.comments)
            /\ \E from : Posted(result.comments, P, Settings.minSeverity, r.findings, from)
    BY <1>3, <2>1, <2>2, SanitizeFacts
  <2> QED BY <2>3, <1>1
<1>5. m \in Nat /\ DOMAIN F = 1 .. m
  BY <1>4
<1>6. Cardinality(said) = m
  <2>1. FindingsFit
    BY FitInvariant
  <2> QED BY <2>1 DEF FindingsFit, Saying
<1>7. Range(F) = {F[i] : i \in 1 .. m}
  BY <1>5 DEF Range
<1>8. g \in Surjection(1 .. m, said)
  <2>1. g \in [1 .. m -> said]
    BY <1>7
  <2>2. \A e \in said : \E i \in 1 .. m : g[i] = e
    BY <1>7
  <2> HIDE DEF g, said
  <2> QED BY <2>1, <2>2 DEF Surjection
<1>9. \A i, j \in 1 .. m : F[i] = F[j] => g[i] = g[j]
  OBVIOUS
<1> HIDE DEF g, said, F, m
<1>10. g \in Injection(1 .. m, said)
  <2>1. IsFiniteSet(1 .. m) /\ Cardinality(1 .. m) = m
    BY <1>5, FS_Interval
  <2>2. Cardinality(said) = Cardinality(1 .. m) <=> g \in Injection(1 .. m, said)
    BY <1>8, <2>1, FS_Surjection
  <2> QED BY <1>6, <2>1, <2>2
<1>11. \A i, j \in 1 .. m : g[i] = g[j] => i = j
  BY <1>10 DEF Injection, IsInjective
<1> QED BY <1>5, <1>9, <1>11 DEF F, m

(* One more finding is placed: the one after those there are.                *)
Leading(F, there) == there = {F[i] : i \in 1 .. Cardinality(there)}

LEMMA OneMorePlaced ==
    ASSUME NEW F, Len(F) \in Nat, \A i, j \in 1 .. Len(F) : F[i] = F[j] => i = j,
           NEW there, IsFiniteSet(there), Leading(F, there), Cardinality(there) < Len(F),
           NEW more, more = there \cup {F[Cardinality(there) + 1]}
    PROVE  Leading(F, more)
<1> DEFINE c == Cardinality(there)
           n == Len(F)
           e == F[c + 1]
<1>1. c \in Nat
  BY FS_CardinalityType
<1>2. c < n /\ n \in Nat
  OBVIOUS
<1>h. there = {F[i] : i \in 1 .. c} /\ \A i, j \in 1 .. n : F[i] = F[j] => i = j
  BY DEF Leading
<1>m. more = there \cup {e}
  OBVIOUS
<1> HIDE DEF c, n
<1>3. e \notin there
  <2>1. \A i \in 1 .. c : i \in 1 .. n /\ c + 1 \in 1 .. n /\ i # c + 1
    BY <1>1, <1>2
  <2>2. \A i \in 1 .. c : F[i] # e
    BY <2>1, <1>h
  <2> QED BY <2>2, <1>h
<1>4. Cardinality(more) = c + 1
  <2> HIDE DEF e
  <2>1. Cardinality(there \cup {e}) = Cardinality(there) + 1
    BY <1>3, FS_AddElement
  <2> QED BY <2>1, <1>m DEF c
<1>5. more = {F[i] : i \in 1 .. c + 1}
  <2>1. 1 .. c + 1 = (1 .. c) \cup {c + 1}
    BY <1>1
  <2>2. {F[i] : i \in 1 .. c + 1} = {F[i] : i \in 1 .. c} \cup {F[c + 1]}
    BY <2>1, <1>1
  <2> QED BY <2>2, <1>h, <1>m
<1>6. Leading(F, more)
  BY <1>4, <1>5 DEF Leading
<1> QED BY <1>6

(* PostInv is inductive, given the others.                                      *)
LEMMA PostStep ==
    ASSUME IsPull(pull), FullInv, ReportInv, PostInv, [Next]_vars
    PROVE  PostInv'
<1> DEFINE early == {"settings", "diff", "filling", "since", "triage", "agent", "summary"}
<1>1. CASE ReadSettings \/ FetchDiff \/ FailDiff \/ Fill \/ EndFill \/ Incremental \/ FailCompare \/ Triage
           \/ RunAgent \/ RefuseModel \/ FailAgent
  <2>1. UNCHANGED <<posted, refused>> /\ pc \in early
    BY <1>1 DEF ReadSettings, FetchDiff, FailDiff, Fill, EndFill, Incremental, Since, Got, FailCompare, Triage,
       RunAgent, RefuseModel, FailAgent, report_vars
  <2>2. pc' \notin {"review", "done"}
    BY <1>1 DEF ReadSettings, FetchDiff, FailDiff, Fill, EndFill, Incremental, Since, Got, FailCompare, Triage,
       RunAgent, RefuseModel, FailAgent, Fail
  <2> QED BY <2>1, <2>2 DEF PostInv
<1>2. CASE UpsertSummary
  <2>1. /\ pc = "summary" /\ pc' = (IF report.findings = <<>> THEN "done" ELSE "review")
        /\ UNCHANGED <<posted, refused, report, pull>>
    BY <1>2 DEF UpsertSummary, Keep
  <2>2. posted = {} /\ refused = 0
    BY <2>1 DEF PostInv
  <2>3. IsFiniteSet({}) /\ Cardinality({}) = 0
    BY FS_EmptySet
  <2>4. {report.findings[i] : i \in 1 .. 0} = {}
    OBVIOUS
  <2>5. report.findings = <<>> => Range(report.findings) = {}
    BY NoSkips
  <2>6. CASE report.findings = <<>>
    <3>1. pc' = "done" /\ Range(report'.findings) = {}
      BY <2>1, <2>5, <2>6
    <3> QED BY <2>1, <2>2, <3>1 DEF PostInv
  <2>7. CASE report.findings # <<>>
    <3>1. pc' = "review"
      BY <2>1, <2>7
    <3> QED BY <2>1, <2>2, <2>3, <2>4, <3>1 DEF PostInv
  <2> QED BY <2>6, <2>7
<1>3. CASE UpsertFindings
  <2>1. pc' = "done" /\ summary'.findings = Range(report.findings) /\ UNCHANGED <<posted, refused, report, pull>>
    BY <1>3 DEF UpsertFindings, Named, Keep
  <2> QED BY <2>1 DEF PostInv
<1>4. CASE FailSummary
  <2>1. pc' = "failed" /\ UNCHANGED refused
    BY <1>4 DEF FailSummary, Fail, report_vars
  <2> QED BY <2>1 DEF PostInv
<1>5. CASE CreateReviewAtOnce
  <2>1. UNCHANGED <<refused, report>>
        /\ (pc' \in {"fallback", "failed"} \/ (pc' = "done" /\ posted' = Range(report.findings)))
    BY <1>5 DEF CreateReviewAtOnce
  <2> QED BY <2>1 DEF PostInv
<1>6. CASE PlaceComment
  <2> DEFINE F == report.findings
             c == Cardinality(posted)
  <2>1. /\ pc = "review" /\ pc' = "review" /\ UNCHANGED <<refused, report>>
        /\ c + refused < Len(F) /\ posted' = posted \cup {F[c + refused + 1]}
    BY <1>6 DEF PlaceComment, OneByOne, Answered
  <2>2. /\ IsFiniteSet(posted) /\ refused \in Nat
        /\ refused = 0 => posted = {F[i] : i \in 1 .. c}
    BY <2>1 DEF PostInv
  <2>3. Len(F) \in Nat /\ \A i, j \in 1 .. Len(F) : F[i] = F[j] => i = j
    BY <2>1, FindingsDistinct DEF Saying
  <2>4. c \in Nat
    BY <2>2, FS_CardinalityType
  <2>5. IsFiniteSet(posted')
    BY <2>1, <2>2, FS_AddElement
  <2> HIDE DEF F
  <2>6. ASSUME refused = 0
        PROVE  posted' = {F[i] : i \in 1 .. Cardinality(posted')}
    <3>1. posted' = posted \cup {F[c + 1]} /\ c < Len(F)
      BY <2>1, <2>4, <2>6
    <3>2. Leading(F, posted')
      <4>1. Leading(F, posted)
        BY <2>2, <2>6 DEF Leading, F
      <4> QED BY <2>2, <2>3, <3>1, <4>1, OneMorePlaced
    <3> QED BY <3>1, <3>2 DEF Leading
  <2>7. refused' = 0 => posted' = {report'.findings[i] : i \in 1 .. Cardinality(posted')}
    BY <2>1, <2>6 DEF F
  <2> QED BY <2>1, <2>2, <2>5, <2>7 DEF PostInv
<1>7. CASE RefuseComment
  <2>1. pc = "review" /\ pc' = "review" /\ refused' = refused + 1 /\ UNCHANGED posted
    BY <1>7 DEF RefuseComment, OneByOne
  <2>2. refused \in Nat /\ IsFiniteSet(posted)
    BY <2>1 DEF PostInv
  <2>3. refused' \in Nat /\ refused' # 0
    BY <2>1, <2>2
  <2> QED BY <2>1, <2>2, <2>3 DEF PostInv
<1>8. CASE FailReview
  <2>1. pc' \in {"failed", "fallback"} /\ UNCHANGED refused
    BY <1>8 DEF FailReview, report_vars
  <2> QED BY <2>1 DEF PostInv
<1>9. CASE EndReview
  <2> DEFINE F == report.findings
             c == Cardinality(posted)
  <2>1. /\ pc = "review" /\ UNCHANGED <<refused, report, posted, pull, summary>>
        /\ c + refused = Len(F) /\ pull.platform # "github"
    BY <1>9 DEF EndReview, Answered, report_vars, Keep
  <2>2. /\ IsFiniteSet(posted) /\ refused \in Nat
        /\ refused = 0 => posted = {F[i] : i \in 1 .. c}
    BY <2>1 DEF PostInv
  <2>3. DOMAIN F = 1 .. Len(F) /\ Len(F) \in Nat
    BY <2>1, FindingsDistinct DEF Saying
  <2>4. c \in Nat
    BY <2>2, FS_CardinalityType
  <2>5. refused = 0 => posted = Range(F)
    <3>1. refused = 0 => Len(F) = c
      BY <2>1, <2>2, <2>4
    <3> QED BY <2>2, <2>3, <3>1 DEF Range
  <2>6. refused = 0 \/ refused > 0
    BY <2>2
  <2>7. pull.platform \in {"gitlab", "azure"}
    BY <2>1 DEF IsPull
  <2>8. CASE Azure
    <3>1. pc' = IF refused > 0 THEN "failed" ELSE "done"
      BY <1>9, <2>8 DEF EndReview
    <3> QED BY <2>1, <2>2, <2>5, <2>6, <3>1 DEF PostInv
  <2>9. CASE ~Azure
    <3>1. pc' = IF posted = {} THEN "fallback" ELSE "done"
      BY <1>9, <2>9 DEF EndReview
    <3>2. pull.platform = "gitlab"
      BY <2>7, <2>9 DEF Azure
    <3> QED BY <2>1, <2>2, <2>5, <2>6, <3>1, <3>2 DEF PostInv
  <2> QED BY <2>8, <2>9
<1>10. CASE UNCHANGED vars
  BY <1>10 DEF vars, report_vars, PostInv
<1> QED BY <1>1, <1>2, <1>3, <1>4, <1>5, <1>6, <1>7, <1>8, <1>9, <1>10 DEF Next

(* What is shown and what is said, together, at the end.                        *)
LEMMA SaidInvariant ==
    ASSUME ShownInv, PostInv
    PROVE  SaidOrShown
<1> SUFFICES ASSUME pc = "done"
             PROVE  /\ shown.files # <<>>
                    /\ Paths(full) \in SUBSET (Paths(shown) \cup Range(summary.skipped) \cup Seen
                                  \cup (IF since /\ shown.truncated THEN pull.pushed ELSE {}))
                    /\ \/ Range(report.findings) \in SUBSET (posted \cup summary.findings)
                       \/ pull.platform = "gitlab" /\ posted # {} /\ refused > 0
  BY DEF SaidOrShown
<1>1. /\ shown.files # <<>> /\ Covered(since, shown, skipped) /\ summary.skipped = skipped /\ since \in BOOLEAN
  BY DEF ShownInv, HasDiff
<1>2. CASE since
  <2>1. Seen = Paths(full) \ pull.pushed
    BY <1>2 DEF Seen
  <2>2. pull.pushed \in SUBSET (Paths(shown) \cup Range(skipped)) \/ shown.truncated
    BY <1>1, <1>2 DEF Covered
  <2> QED BY <1>1, <1>2, <2>1, <2>2 DEF PostInv
<1>3. CASE ~since
  BY <1>1, <1>3 DEF Covered, PostInv
<1> QED BY <1>1, <1>2, <1>3

(* For all pull requests, platforms, deployments and agents, and whatever fails: *)
(* when a review is over, no file of the pull request disappeared unnamed, and  *)
(* no finding unsaid but one that GitLab refused while it took another          *)
(* (worker/review.go review, incremental and post, worker/triage.go).           *)
THEOREM ReviewSaysOrShows == Spec => []SaidOrShown
<1>1. Init => FillInv /\ FullInv /\ ReportInv /\ ShownInv /\ PostInv
  <2>1. Init => ReportInv /\ PostInv
    BY DEF Init, ReportInv, PostInv
  <2> QED BY <2>1, InitFills, InitFull, InitShown
<1>2. FillInv /\ FullInv /\ ReportInv /\ ShownInv /\ PostInv /\ [Next]_vars
      => (FillInv /\ FullInv /\ ReportInv /\ ShownInv /\ PostInv)'
  <2> SUFFICES ASSUME FillInv, FullInv, ReportInv, ShownInv, PostInv, [Next]_vars
               PROVE  (FillInv /\ FullInv /\ ReportInv /\ ShownInv /\ PostInv)'
    OBVIOUS
  <2>1. IsPull(pull)
    BY PullsAssumption DEF FullInv
  <2> QED BY <2>1, FillStep, FullStep, ReportStep, ShownStep, PostStep
<1>3. ShownInv /\ PostInv => SaidOrShown
  BY SaidInvariant
<1> QED BY <1>1, <1>2, <1>3, PTL DEF Spec
=============================================================================
