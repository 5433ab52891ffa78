----------------------------- MODULE Implement -----------------------------
(***************************************************************************)
(* `implement` and `plan` on one issue (internal/worker/implement.go and   *)
(* implement_run.go): the agent edits a checkout, the sandbox builds it    *)
(* somewhere else (internal/sandbox, cmd/kibitz-runner), and a change that *)
(* passed is pushed and offered as a pull request.                         *)
(*                                                                         *)
(* The guard runs one request per issue at a time unless a lease is lost,  *)
(* and hands a failed one over again (Guard, Lease).  Each agent run makes *)
(* one change, named by its number; a verification is named by the change  *)
(* it is for.  People use the branch too.  What goes wrong is a Fault.     *)
(***************************************************************************)
EXTENDS Naturals, FiniteSets

CONSTANTS
  Workers,        \* workers that may get a request for the issue
  MaxRequests,    \* bound: requests in a behaviour
  MaxChanges,     \* bound: agent runs in a behaviour
  Faults,         \* what may go wrong, a subset of FaultKinds
  MaxFaults,      \* bound: how often
  MaxMeddling,    \* bound: what people do to the branch
  MaxDeliveries,  \* Guard.MaxDeliveries
  MaxAttempts,    \* the subscription's max_delivery_attempts
  MaxPosts        \* ReviewJob.MaxPostsPerHour

FaultKinds == {"forge", "bucket", "runner", "agent", "late", "store", "crash", "lease"}

Requests == 1..MaxRequests
Changes == 1..MaxChanges
Locations == 1..MaxChanges
Theirs == 0  \* a commit somebody else made

ASSUME ImplementConstants ==
  /\ MaxRequests \in Nat /\ MaxChanges \in Nat /\ MaxMeddling \in Nat
  /\ Faults \subseteq FaultKinds /\ MaxFaults \in Nat
  /\ MaxDeliveries \in Nat /\ MaxAttempts \in Nat /\ MaxPosts \in Nat

VARIABLES
  requests,    \* per request: its state, attempts and kind, and what the last
               \* attempt said on the issue
  jobs,        \* per worker: the request it handles and how far it is
  changes,     \* per agent run: the request it was for and what it edited
  forge,       \* the issue's branch and its pull request
  bucket,      \* per location: the tree that is staged and the result
  executions,  \* per change: the runner that verifies it
  posts,       \* the posts key of the issue
  faults,      \* how many faults there have been
  meddling,    \* how often people have used the branch
  past         \* history: changes that passed, changes offered

vars == <<requests, jobs, changes, forge, bucket, executions, posts, faults, meddling, past>>

world == <<forge, bucket, executions, past>>

Steps == {"idle", "gate", "find", "clone", "branch", "agent", "changes", "stage",
          "execute", "await", "push", "open", "say"}

\* What the comment on the issue says in the end.
Refusals == {"refused", "exists", "taken"}
Denials == {"nothing", "outside", "unverified"}
Replies == Refusals \cup Denials \cup {"opened", "planned"}

Idle == [request |-> 0, step |-> "idle", change |-> 0, say |-> "none", shared |-> FALSE]
NoTree == [change |-> 0, whole |-> FALSE]

RequestRecord == [state : {"none", "waiting", "running", "settled", "dead"}, tries : Nat,
                  kind : {"implement", "plan"}, told : Replies \cup {"none", "limited"}]
JobRecord == [request : 0..MaxRequests, step : Steps, change : 0..MaxChanges,
              say : Replies \cup {"none"}, shared : BOOLEAN]
ChangeRecord == [for : 0..MaxRequests, is : {"unborn", "nothing", "outside", "edits"}]
PlaceRecord == [change : 0..MaxChanges, whole : BOOLEAN, result : {"none", "passed", "failed"}]
ExecutionRecord == [at : 0..MaxChanges, step : {"none", "started", "running", "over"},
                    tree : [change : 0..MaxChanges, whole : BOOLEAN]]

TypeOK ==
  /\ requests \in [Requests -> RequestRecord]
  /\ jobs \in [Workers -> JobRecord]
  /\ changes \in [Changes -> ChangeRecord]
  /\ forge \in [exists : BOOLEAN, commits : SUBSET (Changes \cup {Theirs}), open : BOOLEAN]
  /\ bucket \in [Locations -> PlaceRecord]
  /\ executions \in [Changes -> ExecutionRecord]
  /\ \A c \in Changes : executions[c].step # "none" => executions[c].at \in Locations
  /\ posts \in Nat /\ faults \in Nat /\ meddling \in Nat
  /\ past \in [passed : SUBSET (0..MaxChanges), offered : SUBSET Changes]
  /\ \A r \in Requests : (requests[r].state = "running") <=> \E w \in Workers : jobs[w].request = r
  /\ forge.open => forge.exists

Init ==
  /\ requests = [r \in Requests |->
       [state |-> "none", tries |-> 0, kind |-> "implement", told |-> "none"]]
  /\ jobs = [w \in Workers |-> Idle]
  /\ changes = [c \in Changes |-> [for |-> 0, is |-> "unborn"]]
  /\ forge = [exists |-> FALSE, commits |-> {}, open |-> FALSE]
  /\ bucket = [l \in Locations |-> [change |-> 0, whole |-> FALSE, result |-> "none"]]
  /\ executions = [c \in Changes |-> [at |-> 0, step |-> "none", tree |-> NoTree]]
  /\ posts = 0 /\ faults = 0 /\ meddling = 0
  /\ past = [passed |-> {}, offered |-> {}]

-----------------------------------------------------------------------------
(* The job's bookkeeping.                                                  *)

At(w, step) == jobs[w].step = step
current(w) == jobs[w].request
change(w) == jobs[w].change
Busy == {w \in Workers : ~At(w, "idle")}

GoTo(w, step) ==
  /\ jobs' = [jobs EXCEPT ![w].step = step]
  /\ UNCHANGED requests

\* sayOnIssue is the last thing a job does.
Reply(w, what) ==
  /\ jobs' = [jobs EXCEPT ![w].step = "say", ![w].say = what]
  /\ UNCHANGED requests

\* The job is over and its request is left in the given state.
Over(w, state) ==
  /\ jobs' = [jobs EXCEPT ![w] = Idle]
  /\ requests' = [requests EXCEPT ![current(w)].state = state]

\* Mutant: the request of a failed job keeps its place at the worker.
StillRunning(w) == "running"

\* Guard.fail: the guard gives up or waits for a redelivery.  NotifyFailure
\* has nothing to say about an event without a pull request.
AfterFailure(w) ==
  IF requests[current(w)].tries >= MaxDeliveries THEN "settled" ELSE "waiting"

Fail(w) == Over(w, AfterFailure(w))

NoFault == UNCHANGED faults

Fault(f) ==
  /\ f \in Faults
  /\ faults < MaxFaults
  /\ faults' = faults + 1

FailsBy(w, f) == Fault(f) /\ Fail(w)

-----------------------------------------------------------------------------
(* The world: the issue, people, the guard and the clock.                  *)

\* Somebody writes a command on the issue.
Ask(r, kind) ==
  /\ requests[r].state = "none"
  /\ \A q \in Requests : q < r => requests[q].state # "none"
  /\ requests' = [requests EXCEPT ![r].state = "waiting", ![r].kind = kind]
  /\ UNCHANGED <<jobs, changes, world, posts, faults, meddling>>

\* The guard has the issue's lock.  Another worker may still be at it when its
\* lease ran out.
Begin(w, r) ==
  /\ At(w, "idle")
  /\ requests[r].state = "waiting"
  /\ requests[r].tries < MaxAttempts
  /\ IF Busy = {} THEN NoFault ELSE Fault("lease")
  /\ requests' = [requests EXCEPT ![r] =
       [state |-> "running", tries |-> @.tries + 1, kind |-> @.kind, told |-> "none"]]
  /\ jobs' = [v \in Workers |->
       IF v = w THEN [request |-> r, step |-> "gate", change |-> 0, say |-> "none",
                      shared |-> Busy # {}]
       ELSE [jobs[v] EXCEPT !.shared = @ \/ v \in Busy]]
  /\ UNCHANGED <<changes, world, posts, meddling>>

\* The attempts are used up: the message goes to the dead letter topic.
DeadLetter(r) ==
  /\ requests[r].state = "waiting"
  /\ requests[r].tries >= MaxAttempts
  /\ requests' = [requests EXCEPT ![r].state = "dead"]
  /\ UNCHANGED <<jobs, changes, world, posts, faults, meddling>>

\* The worker dies, or loses its job some other way, between two calls.
Crash(w) ==
  /\ w \in Busy
  /\ Fault("crash")
  /\ Over(w, "waiting")
  /\ UNCHANGED <<changes, world, posts, meddling>>

\* People create the branch, commit to it, delete it, or close the pull
\* request.  Deleting the branch closes it too.
Meddle ==
  /\ meddling < MaxMeddling
  /\ meddling' = meddling + 1
  /\ forge' \in ({[forge EXCEPT !.exists = TRUE],
                  [forge EXCEPT !.exists = TRUE, !.commits = @ \cup {Theirs}],
                  [exists |-> FALSE, commits |-> {}, open |-> FALSE],
                  [forge EXCEPT !.open = FALSE]} \ {forge})
  /\ UNCHANGED <<requests, jobs, changes, bucket, executions, posts, faults, past>>

\* The posts key of the next hour starts from nothing.
NewHour ==
  /\ posts > 0
  /\ posts' = 0
  /\ UNCHANGED <<requests, jobs, changes, world, faults, meddling>>

-----------------------------------------------------------------------------
(* What is asked before anything is spent.                                 *)

\* issueCommand and allowImplement, and implement's own preconditions.  The
\* settings may refuse; unreadable ones give way to defaults, which do.
Gate(w) ==
  /\ At(w, "gate")
  /\ NoFault
  /\ \/ Reply(w, "refused")
     \/ GoTo(w, IF requests[current(w)].kind = "plan" THEN "clone" ELSE "find")
  /\ UNCHANGED <<changes, world, posts, meddling>>

\* FindPullRequest: the open pull request of the branch.
Find(w) ==
  /\ At(w, "find")
  /\ \/ FailsBy(w, "forge")
     \/ forge.open /\ Reply(w, "exists") /\ NoFault
     \/ ~forge.open /\ GoTo(w, "clone") /\ NoFault
  /\ UNCHANGED <<changes, world, posts, meddling>>

\* prepareIssueWorkspace.  Without a default branch the failure is permanent.
Clone(w) ==
  /\ At(w, "clone")
  /\ \/ FailsBy(w, "forge")
     \/ Over(w, "settled") /\ NoFault
     \/ /\ GoTo(w, IF requests[current(w)].kind = "plan" THEN "agent" ELSE "branch")
        /\ NoFault
  /\ UNCHANGED <<changes, world, posts, meddling>>

\* Mutant: only the pull request is looked for.
NeverTaken == FALSE

\* BranchExists, asked of the remote.
Taken == forge.exists

CheckBranch(w) ==
  /\ At(w, "branch")
  /\ \/ FailsBy(w, "forge")
     \/ Taken /\ Reply(w, "taken") /\ NoFault
     \/ ~Taken /\ GoTo(w, "agent") /\ NoFault
  /\ UNCHANGED <<changes, world, posts, meddling>>

-----------------------------------------------------------------------------
(* The agent, and what it may have edited.                                 *)

\* Engine.Run and the charge for it.  A plan changes nothing.
Agent(w) ==
  /\ At(w, "agent")
  /\ \/ FailsBy(w, "agent") /\ UNCHANGED changes
     \/ /\ requests[current(w)].kind = "plan"
        /\ Reply(w, "planned") /\ NoFault /\ UNCHANGED changes
     \/ /\ requests[current(w)].kind = "implement"
        /\ \E c \in Changes, is \in {"nothing", "outside", "edits"} :
             /\ changes[c].is = "unborn"
             /\ \A b \in Changes : b < c => changes[b].is # "unborn"
             /\ changes' = [changes EXCEPT ![c] = [for |-> current(w), is |-> is]]
             /\ jobs' = [jobs EXCEPT ![w].step = "changes", ![w].change = c]
        /\ UNCHANGED requests /\ NoFault
  /\ UNCHANGED <<world, posts, meddling>>

\* notEditable: the paths of a change that the repository does not allow.
NotEditable(c) == IF changes[c].is = "outside" THEN {c} ELSE {}

\* Discard, Changes and notEditable: nothing edited, or not in bounds.
LookAtChanges(w) ==
  /\ At(w, "changes")
  /\ LET c == change(w)
     IN \/ changes[c].is = "nothing" /\ Reply(w, "nothing")
        \/ changes[c].is # "nothing" /\ NotEditable(c) # {} /\ Reply(w, "outside")
        \/ changes[c].is # "nothing" /\ NotEditable(c) = {} /\ GoTo(w, "stage")
  /\ NoFault
  /\ UNCHANGED <<changes, world, posts, meddling>>

-----------------------------------------------------------------------------
(* Job.Verify and the runner.                                              *)

\* Mutant: all verifications of the issue are staged in one place.
OnePlace(c) == 1

\* runID: every verification is staged in a place of its own.
Location(c) == c

Staged(l, c, whole) ==
  bucket' = [bucket EXCEPT ![l] = [@ EXCEPT !.change = c, !.whole = whole]]

\* Put and upload: the request and the tree.  An upload that fails may leave
\* nothing or a part of the tree behind.
Stage(w) ==
  /\ At(w, "stage")
  /\ LET c == change(w)  l == Location(c)
     IN \/ Staged(l, c, TRUE) /\ GoTo(w, "execute") /\ NoFault
        \/ FailsBy(w, "bucket") /\ (UNCHANGED bucket \/ Staged(l, c, FALSE))
  /\ UNCHANGED <<changes, forge, executions, past, posts, meddling>>

\* Execute.  The call may fail though the execution was started, or later,
\* while it is waited for.
Execute(w) ==
  /\ At(w, "execute")
  /\ LET c == change(w)
         started == [executions EXCEPT ![c] =
                      [at |-> Location(c), step |-> "started", tree |-> NoTree]]
     IN \/ executions' = started /\ GoTo(w, "await") /\ NoFault
        \/ executions' \in {executions, started} /\ FailsBy(w, "runner")
  /\ UNCHANGED <<changes, forge, bucket, past, posts, meddling>>

\* await: the result is looked for until the deadline, which ends in a result
\* that has not passed, or until the job's own timeout, which is an error.
\* The deadline is later than the end of any execution, unless that is late.
Await(w) ==
  /\ At(w, "await")
  /\ LET c == change(w)  result == bucket[Location(c)].result
     IN \/ result = "passed" /\ GoTo(w, "push") /\ NoFault
        \/ result = "failed" /\ Reply(w, "unverified") /\ NoFault
        \/ /\ result = "none"
           /\ IF executions[c].step = "over" THEN NoFault ELSE Fault("late")
           /\ Reply(w, "unverified")
        \/ FailsBy(w, "late")
        \/ FailsBy(w, "bucket")
  /\ UNCHANGED <<changes, world, posts, meddling>>

\* The runner starts and unpacks what is staged at its location; whatever is
\* wrong with that is a result too.
RunnerReads(c) ==
  /\ executions[c].step = "started"
  /\ LET b == bucket[executions[c].at]
     IN executions' = [executions EXCEPT ![c] =
                         [@ EXCEPT !.step = "running",
                                   !.tree = [change |-> b.change, whole |-> b.whole]]]
  /\ UNCHANGED <<requests, jobs, changes, forge, bucket, posts, faults, meddling, past>>

\* The commands pass or fail, or run out of time, and the result is written;
\* an incomplete tree does not unpack.  A runner may die without a word.
RunnerEnds(c) ==
  /\ executions[c].step = "running"
  /\ LET e == executions[c]
         wrote(result) == bucket' = [bucket EXCEPT ![e.at].result = result]
     IN \/ /\ e.tree.whole
           /\ wrote("passed") /\ NoFault
           /\ past' = [past EXCEPT !.passed = @ \cup {e.tree.change}]
        \/ wrote("failed") /\ NoFault /\ UNCHANGED past
        \/ Fault("runner") /\ UNCHANGED <<bucket, past>>
  /\ executions' = [executions EXCEPT ![c].step = "over"]
  /\ UNCHANGED <<requests, jobs, changes, forge, posts, meddling>>

-----------------------------------------------------------------------------
(* What the repository and the issue get to see.                           *)

\* Mutant: the push is forced.
Forced(c) == TRUE

\* What git does with a push that is not forced: the branch is new, or holds
\* nothing the pushed commit does not contain.
Accepted(c) == ~forge.exists \/ forge.commits \subseteq {c}

\* Record and Push.  A failed push may have gone through.
Push(w) ==
  /\ At(w, "push")
  /\ LET c == change(w)
         pushed == [forge EXCEPT !.exists = TRUE, !.commits = {c}]
     IN \/ Accepted(c) /\ forge' = pushed /\ GoTo(w, "open") /\ NoFault
        \/ ~Accepted(c) /\ Fail(w) /\ NoFault /\ UNCHANGED forge
        \/ FailsBy(w, "forge") /\ (UNCHANGED forge \/ (Accepted(c) /\ forge' = pushed))
  /\ UNCHANGED <<changes, bucket, executions, past, posts, meddling>>

\* Mutant: an error is logged and the change called opened.
LogsError(w) == Reply(w, "opened")

\* A pull request that could not be opened is worth a retry.
NotOpened(w) == Fail(w)

\* CreatePullRequest: one that is open already is an answer; without a branch
\* there is none to open; a failed call may have opened it.
Open(w) ==
  /\ At(w, "open")
  /\ LET opened == /\ forge' = [forge EXCEPT !.open = TRUE]
                   /\ past' = [past EXCEPT !.offered = @ \cup (forge.commits \cap Changes)]
     IN \/ forge.exists /\ opened /\ Reply(w, "opened") /\ NoFault
        \/ ~forge.exists /\ NotOpened(w) /\ NoFault /\ UNCHANGED <<forge, past>>
        \/ /\ Fault("forge") /\ NotOpened(w)
           /\ UNCHANGED <<forge, past>> \/ (forge.exists /\ opened)
  /\ UNCHANGED <<changes, bucket, executions, posts, meddling>>

\* sayOnIssue with allowPost: counted first, silent over the limit; a failed
\* call may have written the comment.
Say(w) ==
  /\ At(w, "say")
  /\ LET r == current(w)
         told(what, state) ==
           /\ requests' = [requests EXCEPT ![r].told = what, ![r].state = state]
           /\ jobs' = [jobs EXCEPT ![w] = Idle]
         write == \/ told(jobs[w].say, "settled") /\ NoFault
                  \/ /\ Fault("forge")
                     /\ \E what \in {jobs[w].say, requests[r].told} :
                          told(what, AfterFailure(w))
     IN \/ posts' = posts + 1 /\ posts' <= MaxPosts /\ write
        \/ posts' = posts + 1 /\ posts' > MaxPosts /\ told("limited", "settled") /\ NoFault
        \/ /\ posts' \in {posts, posts + 1} /\ Fault("store")
           /\ told(jobs[w].say, "settled")
  /\ UNCHANGED <<changes, world, meddling>>

-----------------------------------------------------------------------------
Step(w) ==
  \/ Gate(w) \/ Find(w) \/ Clone(w) \/ CheckBranch(w) \/ Agent(w) \/ LookAtChanges(w)
  \/ Stage(w) \/ Execute(w) \/ Await(w) \/ Push(w) \/ Open(w) \/ Say(w)

Next ==
  \/ \E w \in Workers : Step(w) \/ Crash(w)
  \/ \E w \in Workers, r \in Requests : Begin(w, r)
  \/ \E r \in Requests : DeadLetter(r) \/ \E k \in {"implement", "plan"} : Ask(r, k)
  \/ \E c \in Changes : RunnerReads(c) \/ RunnerEnds(c)
  \/ Meddle
  \/ NewHour

Spec == Init /\ [][Next]_vars

-----------------------------------------------------------------------------
(* Properties.                                                             *)

\* What kibitz puts on the branch was allowed by the repository, and this
\* change, staged whole, passed its checks: not the tree of an earlier attempt
\* whose runner was late, nor of another worker (implement_run.go: a change
\* nobody built must not become a pull request).
OnlyVerifiedOffered ==
  \A c \in forge.commits \cap Changes : c \in past.passed /\ changes[c].is = "edits"

\* A retry, or a second command, does not pay for the agent while the branch
\* holds an earlier attempt's change, whether or not its pull request was ever
\* opened, unless two workers had the issue at once (implement_run.go: asked
\* before anything is spent).
PaidOnce ==
  [][\A w \in Workers : At(w, "agent") /\ jobs'[w].step = "changes" /\ ~jobs[w].shared
       => forge.commits \cap Changes = {}]_vars

\* Nothing kibitz does takes a commit off the branch, though people commit to
\* it between the look at the branch and the push (write.go, Push).
WorkKept ==
  [][(\E w \in Workers : Step(w)) => forge.commits \subseteq forge'.commits]_vars

\* What the last attempt says on the issue is true.  Who reads that a change
\* was offered finds that it was, unless people used the branch meanwhile, and
\* who reads that nothing came of it finds no change of this request on the
\* branch, however the request was retried (implement_run.go, sayOnIssue).
HonestAnswers ==
  \A r \in Requests :
    LET mine == {c \in Changes : changes[c].for = r}
    IN requests[r].state = "settled" =>
         /\ requests[r].told = "opened" => meddling > 0 \/ mine \cap past.offered # {}
         /\ requests[r].told \in Denials => mine \cap forge.commits = {}

=============================================================================
