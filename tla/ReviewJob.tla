----------------------------- MODULE ReviewJob -----------------------------
(***************************************************************************)
(* The worker's ReviewJob (internal/worker/review.go): what one request    *)
(* does to its pull request and to what the store remembers about it.      *)
(* Requests are webhook deliveries the guard hands over: it runs at most   *)
(* one of them per pull request, in any order, hands a failed one over     *)
(* again, and reports the one it gives up (Guard has the details).  The    *)
(* pull requests belong to one repository and share its budget.            *)
(*                                                                         *)
(* A commit is its position on the branch, so a set of commits stands for  *)
(* a diff; comparing two of them may fail, as it does after a force push.  *)
(* What goes wrong is a Fault; MaxFaults bounds them.                      *)
(***************************************************************************)
EXTENDS Naturals, FiniteSets

CONSTANTS
  Pulls,          \* pull requests of one repository
  MaxRequests,    \* bound: requests in a behaviour
  Kinds,          \* the kinds of request there are, a subset of AllKinds
  MaxHead,        \* bound: commits on a branch
  MaxHours,       \* bound: how often the hour of the posting limit turns
  Expiring,       \* the keys that may run out of time, a subset of Keys
  Faults,         \* what may go wrong, a subset of FaultKinds
  MaxFaults,      \* bound: how often
  MaxDeliveries,  \* Guard.MaxDeliveries
  MaxAttempts,    \* the subscription's max_delivery_attempts
  MaxPosts,       \* ReviewJob.MaxPostsPerHour
  Budget,         \* the repository's ceiling for the month
  MaxCost,        \* what one run of an agent costs at most
  MaxUnchecked,   \* bound: runs on issues that end over the ceiling
  NoEvent         \* the event of a request that has not been made

\* A review asked for by an event of the pull request; by `review` and by
\* `review --full`; a question; `ignore`; and the end of the pull request.
AllKinds == {"auto", "review", "full", "question", "ignore", "closed"}
Reviews == {"auto", "review", "full"}
FaultKinds == {"forge", "store", "agent", "crash"}
Keys == {"job", "reviewed", "ignored"}

Requests == 1..MaxRequests
Commits == 1..MaxHead
Events == [pull : Pulls, kind : Kinds, head : Commits]

ASSUME ReviewConstants ==
  /\ MaxRequests \in Nat /\ MaxHead \in Nat \ {0} /\ MaxHours \in Nat
  /\ Kinds \subseteq AllKinds /\ Expiring \subseteq Keys
  /\ Faults \subseteq FaultKinds /\ MaxFaults \in Nat
  /\ MaxDeliveries \in Nat /\ MaxAttempts \in Nat /\ MaxPosts \in Nat
  /\ Budget \in Nat \ {0} /\ MaxCost \in Nat /\ MaxUnchecked \in Nat
  /\ NoEvent \notin Events

VARIABLES
  requests,  \* per request: its state, its attempts and its event
  forge,     \* per pull request: head, state and the summary comment
  store,     \* per pull request: job keys, reviewed key, ignore key, posts
  spent,     \* the repository's spend key
  unchecked, \* history: runs on issues that ended at the ceiling or over it
  jobs,      \* per pull request: the request being handled and how far it is
  hours,     \* how often the hour has turned
  faults,    \* how many faults there have been
  past       \* history, per pull request (see PastType)

vars == <<requests, forge, store, spent, unchecked, jobs, hours, faults, past>>

Steps == {"idle", "lift", "look", "ignored", "budget", "mark", "diff", "allow",
          "announce", "clone", "agent", "charge", "record", "summary",
          "findings", "reply", "ignore", "forget"}

Summaries == [is : {"none", "reviewing", "result", "failed"}, commit : 0..MaxHead]

PastType ==
  [read     : SUBSET Commits,      \* commits some finished review was shown
   slipped  : SUBSET Commits,      \* pushed between a review's diff and clone
   started  : [Commits -> Nat],    \* automatic reviews started, per job key
   written  : Nat,                 \* results written in this hour
   newest   : 0..MaxHead,          \* the newest commit a result was for
   wish     : {"none", "out"}]     \* the last one heard, until its flag lapses

Idle == [request |-> 0, step |-> "idle", head |-> 0, scope |-> {}, tree |-> 0]

TypeOK ==
  /\ requests \in [Requests -> [state : {"none", "waiting", "running", "failing", "settled", "dead"},
                                tries : Nat, event : Events \cup {NoEvent}]]
  /\ forge \in [Pulls -> [head : Commits, state : {"open", "closed", "merged"},
                          summary : Summaries]]
  /\ store \in [Pulls -> [marked : SUBSET Commits, reviewed : 0..MaxHead,
                          ignored : BOOLEAN, posts : Nat]]
  /\ spent \in Nat /\ unchecked \in Nat
  /\ jobs \in [Pulls -> [request : 0..MaxRequests, step : Steps, head : 0..MaxHead,
                         scope : SUBSET Commits, tree : 0..MaxHead]]
  /\ hours \in Nat /\ faults \in Nat
  /\ past \in [Pulls -> PastType]
  /\ \A r \in Requests : requests[r].state = "running" =>
       jobs[requests[r].event.pull].request = r

Init ==
  /\ requests = [r \in Requests |-> [state |-> "none", tries |-> 0, event |-> NoEvent]]
  /\ forge = [p \in Pulls |-> [head |-> 1, state |-> "open",
                               summary |-> [is |-> "none", commit |-> 0]]]
  /\ store = [p \in Pulls |-> [marked |-> {}, reviewed |-> 0,
                               ignored |-> FALSE, posts |-> 0]]
  /\ spent = 0 /\ unchecked = 0
  /\ jobs = [p \in Pulls |-> Idle]
  /\ hours = 0 /\ faults = 0
  /\ past = [p \in Pulls |-> [read |-> {}, slipped |-> {},
                              started |-> [c \in Commits |-> 0],
                              written |-> 0, newest |-> 0, wish |-> "none"]]

-----------------------------------------------------------------------------
(* The job's bookkeeping.                                                  *)

At(p, step) == jobs[p].step = step
current(p) == jobs[p].request
kind(p) == requests[current(p)].event.kind

GoTo(p, step) ==
  /\ jobs' = [jobs EXCEPT ![p].step = step]
  /\ UNCHANGED requests

\* The job is over and its request is left in the given state.
Over(p, state) ==
  /\ jobs' = [jobs EXCEPT ![p] = Idle]
  /\ requests' = [requests EXCEPT ![current(p)].state = state]

\* Handle returned nil: the guard acknowledges the request.
Settle(p) == Over(p, "settled")

\* Mutant: the request of a failed job keeps its place at the worker.
StillRunning == "running"

Requeued == "waiting"

\* Handle returned an error: the guard gives up or waits for a redelivery.
\* The lock is released first, so others may work on the pull request by then.
Fail(p) ==
  Over(p, IF requests[current(p)].tries >= MaxDeliveries THEN "failing" ELSE Requeued)

NoFault == UNCHANGED faults

Fault(f) ==
  /\ f \in Faults
  /\ faults < MaxFaults
  /\ faults' = faults + 1

\* A call fails and Handle returns its error.
FailsBy(p, f) == Fault(f) /\ Fail(p)

\* A write to the store; an error may hide one that took effect.
Write(p, new) == store' = [store EXCEPT ![p] = new]
MaybeWrite(p, new) == store' \in {store, [store EXCEPT ![p] = new]}

-----------------------------------------------------------------------------
(* The world: people, forges, the guard and the clock.                     *)

\* Somebody pushes a commit.
Push(p) ==
  /\ forge[p].head < MaxHead
  /\ forge[p].state = "open"
  /\ forge' = [forge EXCEPT ![p].head = @ + 1]
  /\ UNCHANGED <<requests, store, spent, unchecked, jobs, hours, faults, past>>

\* A webhook is delivered, with the head of its moment in it.  "closed" says
\* that somebody has just closed or merged the pull request.
Ask(r, p, k) ==
  /\ requests[r].state = "none"
  /\ \A q \in Requests : q < r => requests[q].state # "none"
  /\ IF k = "closed"
     THEN /\ forge[p].state = "open"
          /\ \E s \in {"closed", "merged"} : forge' = [forge EXCEPT ![p].state = s]
     ELSE UNCHANGED forge
  /\ requests' = [requests EXCEPT
       ![r] = [state |-> "waiting", tries |-> 0,
               event |-> [pull |-> p, kind |-> k, head |-> forge[p].head]]]
  /\ UNCHANGED <<store, spent, unchecked, jobs, hours, faults, past>>

\* Mutant: every review lifts an earlier "ignore".
EveryReviewLifts(k) ==
  CASE k \in Reviews     -> "lift"
    [] k = "question"    -> "look"
    [] k = "ignore"      -> "ignore"
    [] k = "closed"      -> "forget"

\* Handle and command: where a request of each kind goes.
FirstStep(k) ==
  CASE k \in {"review", "full"}   -> "lift"
    [] k \in {"auto", "question"} -> "look"
    [] k = "ignore"               -> "ignore"
    [] k = "closed"               -> "forget"

\* The guard has the lock of the pull request and starts the job.
Begin(r) ==
  /\ requests[r].state = "waiting"
  /\ requests[r].tries < MaxAttempts
  /\ LET e == requests[r].event
     IN /\ At(e.pull, "idle")
        /\ jobs' = [jobs EXCEPT ![e.pull] =
                      [Idle EXCEPT !.request = r, !.step = FirstStep(e.kind)]]
        /\ past' = [past EXCEPT ![e.pull].wish =
                      IF e.kind \in {"review", "full"} THEN "none" ELSE @]
  /\ requests' = [requests EXCEPT ![r].state = "running", ![r].tries = @ + 1]
  /\ UNCHANGED <<forge, store, spent, unchecked, hours, faults>>

\* The attempts are used up: the message goes to the dead letter topic.
DeadLetter(r) ==
  /\ requests[r].state = "waiting"
  /\ requests[r].tries >= MaxAttempts
  /\ requests' = [requests EXCEPT ![r].state = "dead"]
  /\ UNCHANGED <<forge, store, spent, unchecked, jobs, hours, faults, past>>

\* The worker dies, or loses its job some other way, between two calls.
Crash(p) ==
  /\ ~At(p, "idle")
  /\ Fault("crash")
  /\ Over(p, "waiting")
  /\ UNCHANGED <<forge, store, spent, unchecked, hours, past>>

\* The posts key of the next hour starts from nothing.
NewHour ==
  /\ hours < MaxHours
  /\ \E p \in Pulls : store[p].posts > 0
  /\ hours' = hours + 1
  /\ store' = [p \in Pulls |-> [store[p] EXCEPT !.posts = 0]]
  /\ past' = [p \in Pulls |-> [past[p] EXCEPT !.written = 0]]
  /\ UNCHANGED <<requests, forge, spent, unchecked, jobs, faults>>

\* The flag and the reviewed key are kept for SessionTTL, a job key for
\* ReviewedTTL; all run out while nothing is written to them.  The job that
\* made a job key is over long before.
IgnoreExpires(p) ==
  /\ "ignored" \in Expiring
  /\ store[p].ignored
  /\ store' = [store EXCEPT ![p].ignored = FALSE]
  /\ past' = [past EXCEPT ![p].wish = "none"]
  /\ UNCHANGED <<requests, forge, spent, unchecked, jobs, hours, faults>>

ReviewedExpires(p) ==
  /\ "reviewed" \in Expiring
  /\ store[p].reviewed # 0
  /\ store' = [store EXCEPT ![p].reviewed = 0]
  /\ UNCHANGED <<requests, forge, spent, unchecked, jobs, hours, faults, past>>

JobKeyExpires(p, c) ==
  /\ "job" \in Expiring
  /\ c \in store[p].marked
  /\ At(p, "idle")
  /\ store' = [store EXCEPT ![p].marked = @ \ {c}]
  /\ past' = [past EXCEPT ![p].started[c] = 0]
  /\ UNCHANGED <<requests, forge, spent, unchecked, jobs, hours, faults>>

\* plan and implement run the agent on an issue of the repository and charge
\* the same spend key, without a look at the ceiling.
IssueRun ==
  /\ unchecked < MaxUnchecked
  /\ \E c \in 1..MaxCost :
       /\ spent' = spent + c
       /\ unchecked' = unchecked + (IF spent + c >= Budget THEN 1 ELSE 0)
  /\ UNCHANGED <<requests, forge, store, jobs, hours, faults, past>>

-----------------------------------------------------------------------------
(* Commands that are not reviews.                                          *)

\* acknowledgeIgnore: the flag is stored and the notice posted.
Ignore(p) ==
  /\ At(p, "ignore")
  /\ LET flagged == [store[p] EXCEPT !.ignored = TRUE]
     IN \/ /\ Write(p, flagged)
           /\ past' = [past EXCEPT ![p].wish = "out"]
           /\ (Settle(p) /\ NoFault) \/ FailsBy(p, "forge")
        \/ /\ MaybeWrite(p, flagged)
           /\ FailsBy(p, "store")
           /\ UNCHANGED past
  /\ UNCHANGED <<forge, spent, unchecked, hours>>

\* forget: the keys are deleted one after another; an error leaves the rest.
Forget(p) ==
  /\ At(p, "forget")
  /\ LET lifted == [store[p] EXCEPT !.ignored = FALSE]
         forgotten == [lifted EXCEPT !.reviewed = 0]
     IN \/ Write(p, forgotten) /\ Settle(p) /\ NoFault
        \/ /\ \E s \in {store[p], lifted, forgotten} : Write(p, s)
           /\ FailsBy(p, "store")
  /\ past' = [past EXCEPT ![p].wish = "none"]
  /\ UNCHANGED <<forge, spent, unchecked, hours>>

\* unignore: an error is only logged.
Lift(p) ==
  /\ At(p, "lift")
  /\ LET lifted == [store[p] EXCEPT !.ignored = FALSE]
     IN (Write(p, lifted) /\ NoFault) \/ (MaybeWrite(p, lifted) /\ Fault("store"))
  /\ GoTo(p, "look")
  /\ UNCHANGED <<forge, spent, unchecked, hours, past>>

-----------------------------------------------------------------------------
(* review, and the steps answer shares with it.                            *)

\* The pull request is fetched.  The repository's settings may ask for no
\* review of this kind, or no answers; a closed one is not reviewed.
Look(p) ==
  /\ At(p, "look")
  /\ \/ FailsBy(p, "forge")
     \/ Settle(p) /\ NoFault
     \/ /\ kind(p) \in Reviews => forge[p].state # "closed"
        /\ jobs' = [jobs EXCEPT ![p].head = forge[p].head,
                    ![p].step = IF kind(p) \in Reviews THEN "ignored" ELSE "budget"]
        /\ UNCHANGED requests
        /\ NoFault
  /\ UNCHANGED <<forge, store, spent, unchecked, hours, past>>

\* ignored: an unreadable flag does not silence kibitz.
CheckIgnored(p) ==
  /\ At(p, "ignored")
  /\ \/ store[p].ignored /\ Settle(p) /\ NoFault
     \/ ~store[p].ignored /\ GoTo(p, "budget") /\ NoFault
     \/ Fault("store") /\ GoTo(p, "budget")
  /\ UNCHANGED <<forge, store, spent, unchecked, hours, past>>

\* Mutant: a budget that is spent to the last cent is not exhausted.
Overdrawn == spent > Budget

\* exhausted: the ceiling stops the next review, not the one that runs.
Exhausted == spent >= Budget

\* reportExhausted; an unreadable total does not stop reviews.
CheckBudget(p) ==
  /\ At(p, "budget")
  /\ LET next == CASE kind(p) = "auto"             -> "mark"
                   [] kind(p) \in {"review", "full"} -> "diff"
                   [] kind(p) = "question"         -> "clone"
     IN \/ Exhausted /\ Settle(p) /\ NoFault
        \/ ~Exhausted /\ GoTo(p, next) /\ NoFault
        \/ Fault("store") /\ GoTo(p, next)
  /\ UNCHANGED <<forge, store, spent, unchecked, hours, past>>

\* Mutant: the job key is made of the commit the event was about.
EventCommit(p) == requests[current(p)].event.head

\* The commit in the job key: the head that was fetched.
JobCommit(p) == jobs[p].head

\* alreadyReviewed: MarkProcessed on the job key.  Nobody gives it back.
Mark(p) ==
  /\ At(p, "mark")
  /\ LET c == JobCommit(p)
         marked == [store[p] EXCEPT !.marked = @ \cup {c}]
     IN \/ /\ c \notin store[p].marked
           /\ Write(p, marked) /\ GoTo(p, "diff") /\ NoFault
        \/ /\ c \in store[p].marked
           /\ Settle(p) /\ NoFault /\ UNCHANGED store
        \/ MaybeWrite(p, marked) /\ FailsBy(p, "store")
  /\ UNCHANGED <<forge, spent, unchecked, hours, past>>

\* Mutant: an incremental review starts from the commit last claimed.
LastClaimed(p) ==
  LET earlier == store[p].marked \ {jobs[p].head}
  IN IF earlier = {} THEN 0
     ELSE CHOOSE c \in earlier : \A o \in earlier : o <= c

LastReviewed(p) == store[p].reviewed

\* incremental: what was pushed since the last review, or everything when
\* that is not known, not wanted or not to be had.
Scopes(p) ==
  LET since == LastReviewed(p)
      new == since + 1 .. jobs[p].head
      everything == 1 .. forge[p].head
  IN {everything} \cup
     {s \in {new} : kind(p) # "full" /\ since # 0 /\ since # jobs[p].head /\ s # {}}

\* Diff and Compare.  Nothing may be left after the repository's settings.
Diff(p) ==
  /\ At(p, "diff")
  /\ \/ FailsBy(p, "forge")
     \/ Settle(p) /\ NoFault
     \/ /\ \E s \in Scopes(p) :
             jobs' = [jobs EXCEPT ![p].scope = s, ![p].step = "allow"]
        /\ UNCHANGED requests
        /\ NoFault
  /\ UNCHANGED <<forge, store, spent, unchecked, hours, past>>

\* Mutant: the post about to be made is not counted.
AllowedBefore(p) == store[p].posts <= MaxPosts

Allowed(p) == store[p].posts + 1 <= MaxPosts

\* allowPost: counted first and compared after, so a refusal counts too.
Allow(p) ==
  /\ At(p, "allow")
  /\ LET counted == [store[p] EXCEPT !.posts = @ + 1]
     IN \/ Write(p, counted) /\ Allowed(p) /\ GoTo(p, "announce") /\ NoFault
        \/ Write(p, counted) /\ ~Allowed(p) /\ Settle(p) /\ NoFault
        \/ MaybeWrite(p, counted) /\ Fault("store") /\ GoTo(p, "announce")
  /\ UNCHANGED <<forge, spent, unchecked, hours, past>>

\* announce: failing to say so does not fail the review.
Announce(p) ==
  /\ At(p, "announce")
  /\ \/ /\ forge' = [forge EXCEPT
              ![p].summary = [is |-> "reviewing", commit |-> jobs[p].head]]
        /\ NoFault
     \/ UNCHANGED forge /\ Fault("forge")
  /\ past' = [past EXCEPT ![p].started[jobs[p].head] =
                @ + (IF kind(p) = "auto" THEN 1 ELSE 0)]
  /\ GoTo(p, "clone")
  /\ UNCHANGED <<store, spent, unchecked, hours>>

\* Mutant: the workspace holds the commit the event was about.
EventTree(p) == requests[current(p)].event.head

\* prepareWorkspace clones the pull request's head, whatever that is by now.
Tree(p) == forge[p].head

Clone(p) ==
  /\ At(p, "clone")
  /\ \/ FailsBy(p, "forge") /\ UNCHANGED past
     \/ /\ jobs' = [jobs EXCEPT ![p].tree = Tree(p), ![p].step = "agent"]
        /\ past' = [past EXCEPT ![p].slipped =
             IF kind(p) \in Reviews
             THEN @ \cup {c \in 1..Tree(p) : \A s \in jobs[p].scope : c > s} ELSE @]
        /\ UNCHANGED requests
        /\ NoFault
  /\ UNCHANGED <<forge, store, spent, unchecked, hours>>

\* runWithRetry: the agent reads what is in scope, or the job fails.
Agent(p) ==
  /\ At(p, "agent")
  /\ \/ FailsBy(p, "agent") /\ UNCHANGED past
     \/ /\ GoTo(p, "charge")
        /\ past' = [past EXCEPT ![p].read = @ \cup jobs[p].scope]
        /\ NoFault
  /\ UNCHANGED <<forge, store, spent, unchecked, hours>>

\* charge: a run without a price counts nothing, and an error is logged.
Charge(p) ==
  /\ At(p, "charge")
  /\ \/ \E c \in 0..MaxCost : spent' = spent + c /\ NoFault
     \/ UNCHANGED spent /\ Fault("store")
  /\ GoTo(p, IF kind(p) = "question" THEN "reply" ELSE "record")
  /\ UNCHANGED <<forge, store, unchecked, hours, past>>

\* rememberReviewed: where the next review starts from.
Record(p) ==
  /\ At(p, "record")
  /\ LET reviewed == [store[p] EXCEPT !.reviewed = jobs[p].tree]
     IN (Write(p, reviewed) /\ NoFault) \/ (MaybeWrite(p, reviewed) /\ Fault("store"))
  /\ GoTo(p, "summary")
  /\ UNCHANGED <<forge, spent, unchecked, hours, past>>

\* post: the summary replaces the notice, then the findings follow, if any.
Summary(p) ==
  /\ At(p, "summary")
  /\ LET c == jobs[p].tree
         shown == [forge EXCEPT ![p].summary = [is |-> "result", commit |-> c]]
     IN \/ /\ forge' = shown
           /\ past' = [past EXCEPT ![p].written = @ + 1,
                                   ![p].newest = IF @ < c THEN c ELSE @]
           /\ (NoFault /\ (GoTo(p, "findings") \/ Settle(p))) \/ FailsBy(p, "forge")
        \/ UNCHANGED <<forge, past>> /\ FailsBy(p, "forge")
  /\ UNCHANGED <<store, spent, unchecked, hours>>

\* CreateReview, or the findings as text when the forge rejects a position.
Findings(p) ==
  /\ At(p, "findings")
  /\ (Settle(p) /\ NoFault) \/ FailsBy(p, "forge")
  /\ UNCHANGED <<forge, store, spent, unchecked, hours, past>>

Reply(p) ==
  /\ At(p, "reply")
  /\ (Settle(p) /\ NoFault) \/ FailsBy(p, "forge")
  /\ UNCHANGED <<forge, store, spent, unchecked, hours, past>>

\* NotifyFailure: a review replaces its summary, anything else has a notice of
\* its own.  The guard logs an error and acknowledges the request anyway, and
\* a worker that dies here leaves it waiting; neither is counted as a fault.
GiveUp(r) ==
  /\ requests[r].state = "failing"
  /\ LET e == requests[r].event
         failed == [forge EXCEPT ![e.pull].summary = [is |-> "failed", commit |-> 0]]
     IN forge' \in {forge, IF e.kind \in Reviews THEN failed ELSE forge}
  /\ \E s \in {"settled", "waiting"} : requests' = [requests EXCEPT ![r].state = s]
  /\ UNCHANGED <<store, spent, unchecked, jobs, hours, faults, past>>

-----------------------------------------------------------------------------
Step(p) ==
  \/ Ignore(p) \/ Forget(p) \/ Lift(p) \/ Look(p) \/ CheckIgnored(p)
  \/ CheckBudget(p) \/ Mark(p) \/ Diff(p) \/ Allow(p) \/ Announce(p)
  \/ Clone(p) \/ Agent(p) \/ Charge(p) \/ Record(p) \/ Summary(p)
  \/ Findings(p) \/ Reply(p)

Next ==
  \/ \E p \in Pulls : Step(p) \/ Crash(p) \/ Push(p)
  \/ \E p \in Pulls : IgnoreExpires(p) \/ ReviewedExpires(p)
  \/ \E p \in Pulls, c \in Commits : JobKeyExpires(p, c)
  \/ \E r \in Requests : Begin(r) \/ DeadLetter(r) \/ GiveUp(r)
  \/ \E r \in Requests, p \in Pulls, k \in Kinds : Ask(r, p, k)
  \/ NewHour \/ IssueRun

Spec == Init /\ [][Next]_vars

-----------------------------------------------------------------------------
(* Properties.                                                             *)

\* Every commit up to the one the next review starts from was shown to some
\* review that finished, except what was pushed between a review's diff and
\* its clone: failures, retries, full and incremental reviews and lost store
\* answers never move the base past a commit nobody read (review.go,
\* incremental; memory.go, rememberReviewed).
NothingUnread ==
  \A p \in Pulls : 1..store[p].reviewed \subseteq past[p].read \cup past[p].slipped

\* The summary never goes back to an older commit, though requests arrive out
\* of order and late retries come after newer reviews (review.go, review: the
\* current state is fetched because the event's snapshot is stale).
NewestShown ==
  \A p \in Pulls : forge[p].summary.is = "result" =>
    forge[p].summary.commit = past[p].newest

\* At most one automatic review starts per head as long as its job key is
\* kept, whichever events resolve to the head and however often they are
\* redelivered (review.go, alreadyReviewed).
OneReviewPerHead ==
  \A p \in Pulls, c \in Commits : past[p].started[c] <= 1

\* No more results are written to a pull request within an hour than the
\* limit, one that was under way when the hour began, and one per store fault
\* (review.go, allowPost).
PostsBounded ==
  \A p \in Pulls : past[p].written <= MaxPosts + 1 + faults

\* The month ends over the ceiling by no more than the reviews and answers
\* under way when it was reached, one per pull request, one per store fault,
\* and the runs on issues that reached it or came after it, which nobody
\* checks (budget.go, exhausted).
SpendBounded ==
  spent < Budget + (Cardinality(Pulls) + faults + unchecked) * MaxCost

\* Once an "ignore" is stored, no automatic review starts until a review is
\* asked for, the pull request ends or SessionTTL is over, short of a store
\* fault (memory.go, ignored).
SilenceKept ==
  [][\A p \in Pulls : At(p, "announce") /\ jobs'[p].step = "clone"
                      /\ kind(p) = "auto" /\ past[p].wish = "out" => faults > 0]_vars

\* review.go, incremental: "a review of too little is a missed bug".  What an
\* incremental review leaves out was shown to an earlier one.  Refuted: the
\* base is the head that was cloned, which may be newer than the diff.
EveryCommitRead ==
  \A p \in Pulls, c \in Commits :
    jobs[p].scope # {} /\ (\A s \in jobs[p].scope : c < s) => c \in past[p].read
=============================================================================
