# Kibitz in TLA+

Kibitz reviews pull requests on GitHub, GitLab and Azure DevOps with a coding
agent. A webhook becomes an event, the event a message in a queue, and the
message a job that clones the branch, runs the agent and writes comments. Each
of these hand-overs can be lost, repeated, reordered or interrupted, and most
of the code under `internal/` is about what then happens. This directory holds
the specifications of that code, the TLC configurations that check them, and
the proofs.

    tlc -config Guard.cfg MCGuard          # model-check one run
    tlapm GuardProofs.tla                  # check one module's proofs

All paths below are relative to `src/`.

## 1. The system

| Component | State | Operations |
| --- | --- | --- |
| Webhook receiver (`internal/webhook`, platform handlers below it) | none of its own | verify, normalise, filter (policy), publish with retries, answer, react, wake the worker |
| Event policy (`internal/policy`) | allow and deny lists | decide whether an event becomes a job; read a command from a comment |
| Queue (`internal/queue`, Pub/Sub or in memory) | messages, attempts, dead letters | Publish, Receive, ack, nack |
| Worker (`internal/worker/worker.go`) | none | one goroutine per message, a job timeout |
| Guard (`internal/worker/guard.go`) | delivery keys and pull request locks in the store | claim, lock, run, release, remember, give up |
| State store (`internal/store`, Firestore or in memory) | keys with an expiry | MarkProcessed, AcquireLock, Extend, Release, Get, Put, Delete, Incr |
| Review job (`internal/worker/review.go`, `memory.go`, `progress.go`) | job, reviewed, ignore, session and posts keys; the summary comment on the forge | review, answer, ignore, forget, report a failure |
| Budget (`internal/worker/budget.go`) | one spend key per repository and month | check the ceiling, charge a run |
| Implement mode (`internal/worker/implement*.go`, `internal/workspace/write.go`) | branches and pull requests on the forge | gate, write, verify, push, open |
| Sandbox (`internal/sandbox`, `cmd/kibitz-runner`) | objects in a bucket, one execution | stage, run, await the result |
| Workspace (`internal/workspace`) | a clone on disk | prepare, close |
| Review engines (`internal/reviewer`) | a process or a model session | run one request |
| Forge clients (`internal/forge`) | tokens | fetch, diff, compare, comment, review |
| Repository settings, guidelines, references, job context | read per job | |
| Egress proxy (`internal/egress`) | rules, certificates, tunnels | admit or refuse a connection |
| Scaler and Waker (`internal/scale`, `cmd/kibitz-scaler`) | the worker pool's instance count and update time | reconcile once a minute; wake on publish |
| MCP server, HTTP plumbing, run group, configuration, telemetry | | |

Components meet in three places. The **queue** separates the server from the
workers: at least once, in any order, with a limited number of attempts. The
**store** is what workers share: each call is atomic, nothing spans two calls.
The **forge** is what people see and change at any moment. The scaler and the
server also share the **instance count** of the worker pool, which both read
and then write.

What is hard to get right, and to test, in this code:

* a duplicate, a retry or a second worker between any two store calls of one
  job, and answers of the store that are lost though the write took place;
* a worker that dies, or stands still while its lease runs out;
* the order of the things a job writes down (job key, posts count, notice,
  reviewed commit, result) against the point at which it fails;
* people pushing commits between the calls with which a job looks at them;
* a metric that is minutes behind the queue it decides about;
* a publish whose deadline passes while the client goes on sending, an ordering
  key that pauses everybody after one failure, a server stopped in between;
* a proxy session closed while a handler is between taking a connection and
  telling the session of it;
* positions read off diffs that three platforms shape differently, and what
  becomes of a finding that passes five filters and then meets a platform that
  refuses it;
* choices that a deployment, a repository's file and a comment make together.

`PROJECT.json` lists these hazards one by one at the lines where they bite.

What makes each component correct:

| Component | Properties |
| --- | --- |
| Guard | nothing is acknowledged before it was answered, but for a failure nobody could be told of; one job per pull request at a time; locks are freed; messages are settled; failures are reported before the attempts run out |
| Lock and keepalive | two jobs overlap only if a process stood still, and then only for a short time; no late call takes or revives a lock |
| Review job | no commit is skipped; the newest result stays on top; a head is reviewed once; "ignore" is kept; posts and spending are bounded |
| Scaler | work is never left without a worker for long; the worker goes away only after a quiet time, and then does |
| Implement mode, sandbox | no pull request without a passed verification of its change; a retry after any step neither repeats a change nor calls it nothing; nobody's commits are lost |
| Receiver, policy, platform handlers | only what was asked for by somebody who may ask is queued; one key per pull request or issue; what the forge is told is true; every piece of work is queued and announced, or the forge is told to send it again |
| Queue in memory | nobody sleeps while a message waits |
| Egress proxy | only what the rules allow is reached, however often they are asked and with whatever knowledge |
| Review engines | nothing of a run is left when it is over; its result names what was spent |
| Text diffs, forge clients | a computed patch turns the old file into the new one; a file without a patch is marked |
| Findings, triage, posting | findings fit the diff and the limits; no file and no finding disappears unsaid |
| Settings and commands | nobody gets an engine, a model or a conversation that may not be had; refusals are said |

## 2. The modules

| Module | Models | Code |
| --- | --- | --- |
| `AtLeastOnce` | what the guard promises: answers, failures, acknowledgements, dead letters | - |
| `Guard` | `Guard.Handle` call by call, its workers, the queue and the store | `guard.go`, `worker.go`, `queue/pubsub`, `store` |
| `Lease` | one pull request's lock on a clock, with the keepalive | `guard.go` 160-199, `store/memory`, `store/firestore` |
| `ReviewJob` | requests to pull requests, and what the store and the forge remember | `review.go`, `memory.go`, `budget.go`, `progress.go` |
| `Implement` | commands on one issue: agent, sandbox, branch, pull request | `implement.go`, `implement_run.go`, `internal/sandbox`, `cmd/kibitz-runner` |
| `Scaler` | Waker and Scaler over one worker pool | `internal/scale`, `cmd/kibitz-scaler/serve.go` |
| `Receiver` | requests to the server, publishing, its life | `internal/webhook/receiver.go`, `queue/pubsub`, `internal/httpx`, `internal/run` |
| `MemoryQueue` | the in-process queue | `internal/queue/memory` |
| `GitHubHook`, `GitLabHook`, `AzureHook` | Verify and Normalize | `internal/webhook/github`, `gitlab`, `azuredevops` |
| `Policy`, `Wildcard`, `Events` | which events become work, patterns, kinds and keys | `internal/policy`, `internal/event` |
| `Markdown` | what of a comment is code, as the code reads it and as a forge shows it | `internal/policy/markdown.go` |
| `ReviewReport` | one review with its data, from the settings to what is posted | `review.go`, `triage.go`, `internal/forge/*` |
| `ForgeDiff`, `TextDiff` | listings, comparisons and patches of the three platforms | `internal/forge/*`, `internal/textdiff` |
| `Findings` | the documents an agent writes and what is kept of them | `internal/reviewer/output.go`, `diffmap.go` |
| `Only` | the members of a sequence that are in a set, in their order; for `ForgeDiff`, `TextDiff` and `Findings` | - |
| `RepoConfig`, `ReviewRequest` | settings of deployment and repository; what a command chooses | `internal/repoconfig`, `worker/settings.go`, `triage.go` |
| `Engine` | one run of an agent on one of three engines | `internal/reviewer/opencode`, `pi`, `adk` |
| `Egress` | rules, and one session of the proxy with its connections | `internal/egress` |

`MCGuard`, `MCReviewJob`, `MCImplement`, `MCReceiver`, `MCReviewReport` and
`MCEngine` are the instances TLC checks. `GuardProofs`, `LeaseProofs`,
`ReviewProofs`, `ImplementProofs`, `ScalerProofs`, `ReceiverProofs` (about the
hooks, `Policy` and `MemoryQueue` as well), `EngineProofs` (about `Egress` as
well) and `ReportProofs` (about `ForgeDiff`, `TextDiff`, `Findings`,
`RepoConfig` and `ReviewRequest` as well) hold the theorems.

`Receiver` composes the hooks, `Policy` and `MemoryQueue`; `ReviewReport`
composes `ForgeDiff` (over `TextDiff`), `Findings`, `RepoConfig` and
`ReviewRequest`; `Engine` composes itself with `Egress`.

### Guard

A message is waiting, acknowledged or dead; its delivery's record in the store
is absent, a claim or done; a pull request's lock is free, owned by a worker or
orphaned. Workers are the goroutines that run `Worker.process`, and `pc` is the
line of `Guard.Handle` a worker has reached. Every store call is one action,
and each may fail with or without effect (`StoreError` and the alternatives of
its callers), because a Firestore transaction that reports an error may have
been committed. `Deliver` hands over a second copy as well, which at-least-once
delivery permits. `Crash` loses a worker's local state and leaves its claim and
lock. `Stall` lets a lease expire under a running worker, and `LockExpires` and
`ClaimExpires` let abandoned entries run out at any time: time itself is in
`Lease`. A claim never runs out under its maker, because `ClaimTTL` is twice
the job timeout (`cmd/kibitz-worker/main.go`).

A job that failed for good is told to its pull request by `Notify`, and what
comes of that decides nothing: the delivery is remembered as done and the
message acknowledged even if the notice failed (the mishap "notice") or had
nobody to reach. `Unreachable` are the deliveries of which that is true
beforehand, those about issues, and all of them in a deployment that has no
client of the platform. `told` and `untold` keep the two outcomes apart, and
`AtLeastOnce` allows a message to leave in silence only after a failure that
was lost in one of these two ways.

`MaxMishaps` bounds crashes, duplicates, store errors, stalls and failed notices
together. Two of them suffice for every pair: a duplicate with a crash, a lost
answer with a stall, and so on.

### Lease

One lock, its owner and its expiry on a clock. Each acquisition has an id of
its own, as in both stores, so a lease stands for the worker that took it. The
keepalive ticks every TTL/3; `Extend` succeeds if the lease still owns the
lock and otherwise the job's context is cancelled. The clock may not pass a
moment by which something running must act: an extension takes effect within
`Slack` of its tick, and a cancelled job returns within `StopDelay`. A paused
process owes nothing. That is the deployment's part of the bargain, and
`LeaseTiming` says how much of it is needed: TTL/3 + Slack + StopDelay must fit
in the TTL. With the shipped TTL of fifteen minutes that leaves ten for the
other two.

### ReviewJob

Requests stand for webhook deliveries of six kinds: an automatic review,
`review`, `review --full`, a question, `ignore` and the end of the pull
request. `Begin` assumes what `Guard` provides, one job per pull request, and
hands a failed request over again in any order. The job then goes through one
action per call: `Look` fetches the pull request, `Mark` takes the job key,
`Diff` fixes the scope, `Allow` counts the post, `Announce` puts up the
notice, `Clone` fixes the tree, and so on to `Summary` and `Findings`. A commit
is its position on the branch and a set of commits is a diff; what a review was
shown is a set of commits, which is all the properties need of it. `Compare`
may fail at any time, which is how a force push shows. Engines, prompts and the
text of comments are left out: the agent succeeds or fails.

`GiveUp` is a step apart from the failure it reports, because the guard
releases the lock before it calls `NotifyFailure`; other requests run between.

Keys run out: the ignore flag and the reviewed commit after `SessionTTL`, a job
key after `ReviewedTTL` (`IgnoreExpires`, `ReviewedExpires`, `JobKeyExpires`),
at any moment but for a job key whose job is still at work. `past.wish` says
whether the last wish heard, while its flag is kept, was to stay out. `IssueRun`
is a run of `plan` or `implement` on an issue of the repository: it charges the
same spend key and never looks at the ceiling; `unchecked` counts those that end
at the ceiling or over it, and `MaxUnchecked` bounds them.

Three requests are what the orders of two newer requests around a retried one
need; three commits give a base, a gap and a head.

### Implement

Requests are `implement` and `plan` commands on one issue; all of them use one
branch, whose name comes from the issue's number. A job is a worker at a step:
the gate, `Find`, `Clone`, `CheckBranch`, `Agent`, `LookAtChanges`, `Stage`,
`Execute`, `Await`, `Push`, `Open` and `Say` are the calls of
`ReviewJob.implement` and of `Job.Verify` below it. Each run of the agent makes
a change of its own, which stands for the edited directory, the commit and the
name of its verification. The runner is a process besides: it reads what is
staged at its location when it starts and writes its verdict whenever it ends,
after the worker that started it gave up, or crashed, if need be. `Begin`
assumes one job per issue, as `Guard` provides, unless a lease was lost, which
is one of the `Faults`; the others are failed calls to the forge (with or
without effect), the bucket, Cloud Run and the agent, a verification that takes
too long, a store error and a crash. `Meddle` is what people do to the branch.

A tree is whole or not and belongs to a change. What is in it is left out, and
with it that the archive leaves out symbolic links and includes ignored files.

### Scaler

A tick is a minute. The metric keeps the largest backlog of each minute and
shows it `Lag` minutes later. `Observe`, `Compare`, `Settle` and `Apply` are
the calls of `Scaler.Reconcile`, at most one reconciliation at a time (the
mutex in `serve.go`), started once in every minute and taking up to `MaxDelay`
ticks. `WakeLooks` and `WakeSets` are the calls of `Waker.Wake`. Only the
minutes the scaler may look back on are kept and the clock itself is not a
variable, so the state space is finite without a bound on time.

### Receiver

Each slot is one request and its handler. `ServeHTTP` takes a delivery to its
decision in one step, because nothing shared is touched until then: verify with
the platform's credentials, normalise, ask the policy. What follows is one
action per call: `PublishPubSub` or `PublishMemory`, the failure with
`ResumePublish` and `Backoff`, `AnswerAccepted`, `React`, `Wake`, in the order
of `receiver.go`. Pub/Sub's client is, per ordering key, the sequence `outgoing`
of what it has not sent: it sends one key in order (`Sent`), and a failed call
(`NotSent`, with or without effect) pauses the key and fails whatever else it
holds for it.
A deadline (`DeadlineInFlight`, `DeadlineInBackoff`) ends the handler's waiting
and not the sending. `Stop`, `Drain`, `Exit`, `Crash` and `Start` are the run
group, `httpx.Serve` with its shutdown time, the deferred calls of the command
and what the platform does to a process.

A delivery is a record of the fields the handlers look at; a text is a sequence
of lines of words, where backticks, fences and quotes are words of their own,
so the blocks and spans of `markdown.go` are really searched for. Beside these
fields a delivery says what is true of it (whether it is genuine, who wrote it,
what it asks for, what it is about), which only the properties read.
`DescriptionAssumption` ties this description to the fields: only the forge has
the credentials and nobody plays a signed delivery back in time
(`HoldsCredential`), authors and repositories are the ones named, and what a
comment asks for is `AskedOf` its text. TLC evaluates it for every delivery of
the run.

`Markdown` has two readings of a text. `StripCode` is the code's: a fence is its
first three characters, and any line that starts with them closes it. `Speech`
is the reference: a block is closed by a fence of its own mark, at least as
long, alone on its line and in the same quote, or by the end of the quote.
`FencesReadAlike` says of a text that no line is taken for a fence in one
reading and not in the other; what is queued was asked for in every such text,
and the run has texts without it, of which the code queues some that ask for
nothing. Both read spans line by line and know no indented blocks: a forge lets
a span go on over a line's end and takes four spaces for code, which the code
does not look for.

`MemoryQueue` has one action per turn of a receiver's loop. The channel of
length one is a Boolean.

### ReviewReport

One pull request, chosen at the start with its platform, files, settings,
command and the documents its agent may write, goes through one review:
`ReadSettings`, `FetchDiff`, `Incremental`, `Triage`, `RunAgent`, the summary
and the findings, with a mishap at each call. The three platforms differ in
`ForgeDiff`: GitHub and GitLab list patches page by page, and for Azure DevOps
kibitz downloads both sides of every file with several workers that share one
budget (`Filling`, one action per call of a worker) and computes the patch
(`TextDiff`: the forward search of `textdiff.go` with its limits, compaction,
hunks with context and headers). Lines of text are model values; a patch is a
sequence of tagged lines. `Findings` reads the positions off a patch as
`diffmap.go` does, newline at the end included. `ReviewJob` says whether a
review may run at all and composes many; this module says what one contains.
`Rebuild` and `Group` walk over a script in the code; here the steps of a
script are one function of the positions, and the hunks are cut out of it
around the first and the last change of each.

What may come from outside is `IsPull` (`PullsAssumption`). A listing names a
file once; a patch of GitHub or GitLab is a unified diff, whose headers count
the lines below them and start further and further on (`WellFormed`); a
comparison lists at least what was pushed; a comment has whole numbers for its
lines. Nothing is assumed of what the comments say or where, of contents of
files, of failures, or of the patches kibitz computes itself.

### Engine and Egress

A job's `Run` in phases: the directory, the proxy's session, the process
(`Launch`) or the in-process session (`LaunchAdk`), events of the stream
(`StepOpenCode`, `MessagePi`, `EventAdk`), the ways a run breaks off, the
resumption of opencode, the count of tokens, the output file and the deferred
calls. A step of the model costs one token unit, so that an account is a number
of steps. Connections of the session move between these calls: `Accept` to
`HangUp`, with the hijacked connection held by the handler, tracked, dialled
and relayed in separate steps, and `Close` in its three (`Cancel`, `Shut`,
`CutOff`). The rules are those of `rules.go` over labels and segments, asked at
three places with three kinds of knowledge (`Decide`, `DecideConnect`,
`DecideTunnel`). They compare a port as it is spelled, while what is reached is
recorded by the number that is dialled (`Dialled`, `Reach`): `Number` gives the
number of each spelling, and an empty port is the scheme's for a request and
nobody's for a tunnel. `Covers` is what a rule says of a destination, by number.

## 3. The runs

| Run | Shows | Bounds |
| --- | --- | --- |
| `guard` | `TypeOK`, `HoldersOwnTheLock`, `DoneMeansAnswered`, `DeadMeansSilence`, refinement of `AtLeastOnce` (`PromiseKept`) | 2 workers and 2 deliveries of one pull request (both symmetric), 3 attempts, 2 mishaps of any kind |
| `guard_live` | `LockFreed`, `EverySettled` | 3 messages, one of kibitz's own; 2 attempts, 1 mishap |
| `lease` | `OneJobAtATime`, `LostLeaseStops`, `OnlyAcquireTakes` | TTL of a few units, 1 pause |
| `review` | `TypeOK`, `NothingUnread`, `NewestShown`, `OneReviewPerHead`, `SilenceKept` | 1 pull request, 3 requests, 3 commits, 1 fault and with it 2 attempts; job keys, the reviewed key and the ignore flag expire |
| `review_limits` | `PostsBounded`, `SpendBounded` | 2 pull requests (symmetric), 3 requests, 1 turn of the hour, 1 fault, 1 run on an issue over the ceiling |
| `implement` | `TypeOK`, `OnlyVerifiedOffered`, `HonestAnswers`, `PaidOnce`, `WorkKept` | 2 workers (symmetric), 2 requests, 2 agent runs, 2 faults of any kind, people use the branch once, attempts up to 3, 1 comment an hour |
| `scaler` | `TypeOK`, `NobodySleepsIn`, `AwayOnlyAfterQuiet`, `WorkedOff`, `BackToRest` | 3 messages, 2 instances, idle time 2, lag 1, a reconciliation of up to 2 minutes, 1 failed call |
| `server` | `OnlyWhatWasAsked`, `OneKeyPerChange`, `OneFaultOneAttempt`, `AnswersTrue`, `NobodySleepsOnWork`, `AnsweredOrAnnounced` | 2 requests at once, 196 deliveries; 2 attempts to publish; without faults for all of them, with 2 faults of any kind for a few; 2 receivers and 2 deliveries for the queue in memory |
| `report` | `PatchIsTheChange`, `FindingsFit`, `SaidOrShown`, `RequestHonoured` | pairs of files of up to 5 lines over two texts, with and without a last newline; 34 reviews and commands; pages of 2, 3 files, 10 bytes to download, 2 workers (symmetric), 1 mishap |
| `engine` | `NothingOutlivesTheRun`, `ReachedWasAllowed`, `SpendReported` | 5 jobs on three engines, 3 deployments, 7 calls with 4 spellings of ports, 3 requests, 1 connection, 3 steps of the model |

The messages of `guard` include two deliveries for one pull request, so both
kinds of conflict occur: two copies of one delivery, and two deliveries that
want one lock. In `server`, the second slot always has a delivery of its own:
for the same pull request, for an issue with the same number, or for another
platform's. In `engine` one connection is enough, since connections share
nothing but the session's set of ends, from which each removes only its own.

The states of `review` and `review_limits` are compared without the events of
requests that are over (`View`), at which nothing looks any more.

Deadlock is checked in `guard`, `guard_live` and `scaler`. The clock of
`lease`, the requests of the review and implement runs and the slots of
`server` are bounded, and the one review of `report` and the one job of
`engine` end: those runs really stop.

Two runs refute something the repository says; each is a finding.

| Run | Refuted | What happens |
| --- | --- | --- |
| `review_unread` | review.go: "a review of too little is a missed bug" (`EveryCommitRead`) | the base of the next review is the cloned head, which may be newer than the diff that was read |
| `finding_lost` | gitlab/operations.go: "a finding kibitz cannot anchor is still worth saying" (`FindingsSaid`) | GitLab takes one finding and refuses the place of another: the refused one is dropped, since only a review none of whose findings were placed falls back to the summary |

`EveryCommitRead` in its true form is `NothingUnread`, which excepts just the
commits pushed between a diff and its clone; `FindingsSaid` in its true form is
the last conjunct of `SaidOrShown`.

Other properties state what the code does where a text of the repository says
more. In each the exception is named, and TLC finds it violated at once without
it:

| Property | What the text says | What is excepted |
| --- | --- | --- |
| `DoneMeansAnswered`, `PromiseKept` | guard.go:21-23: a job that cannot succeed "says so" | a job that failed and whose notice failed, or had nobody to reach, as on an issue |
| `SilenceKept` | memory.go:144: silent "until someone asks again" | the flag has run out after `SessionTTL`, seven days by default |
| `SpendBounded` | budget.go:25: a budget "caps" a month | the runs of plan and implement, which charge it and never check it |
| `OnlyWhatWasAsked` | markdown.go:8-11: explaining how to ask is not asking | texts in which a block that four backticks open seems to end at a line of three |
| `ReachedWasAllowed` | rules.go:131: "A deny rule always wins" | a deny rule whose port the client wrote in another way: it is matched as text and dialled as a number, and an empty one is the scheme's |

### Where the code and its texts part

Read off the code while it was modelled. The models follow the code; where a
property touches the place, it states what the code does.

* guard.go:21-23 says that one delivery is handled once. The lock is released
  (112) before the delivery is recorded (120), and a duplicate that has read
  the claim takes the free lock. What holds is `DoneMeansAnswered` and
  `PromiseKept`: at least once, and zero times only after a failure.
* review-flow.md:389-391: the notice "reviewing" is left only where giving up
  was never reached. The retry of a failed automatic review finds its own job
  key (review.go:264) and is acknowledged; the notice stays.
  The commit it was about is then reviewed by nobody until it is asked for.
* guard.go:15 and 23: a job that cannot succeed says so. `NotifyFailure`
  returns at once for an issue (review.go:699), and what it returns is only
  logged.
* memory.go:144: "ignore" lasts until someone asks again. It ends by itself
  after `SessionTTL` (152-156), as configuration.md:123 says.
* markdown.go:8-11: what is quoted as code asks for nothing. A fence is
  remembered as its first three characters (43-47), so a longer one is closed by
  a shorter line inside the block (27), and what follows counts as said.
* rules.go:120-122: one destination has one spelling. That is so of hosts and
  not of ports: they are compared as text (94) and dialled as numbers
  (proxy.go:591), and an empty one is kept (proxy.go:692).
* deployment.md:554-556: a worker at work is not taken away. A wake-up that
  finds the worker up leaves no trace (scaler.go:221-223), and the metric does
  not show the message yet.
* rules.go:23-25 documents a rule `*` for every host; ParseRule refuses it (68).
* settings.go:161-165 and docs/review-flow.md:196: ignored files are dropped from the diff itself. The diff since the
  last review (review.go:440-475) is not filtered: the agent is shown ignored
  files, and only its findings about them are dropped.
* diffmap.go:44-75: a patch that ends with a newline has one line more that may
  be commented on than the diff shows (`Shows` allows for it).
* triage.go:70: what a failed triage spent was still spent. When the engine
  returns an error it returns no result, so nothing is charged (also 125).
  Likewise the spending of a run that fails in the end, and of the first
  attempt when the answer is asked for a second time.
* opencode and pi read an output file that an earlier job of the session may
  have left; adk removes it first (adk.go:222-227).
* adk keeps an error for the rest of a run, though its comment speaks of the
  last response, and credits a document to a call that failed
  (adk/events.go:75-84).
* proxy.go:5-7: every connection is logged. A tunnel whose hijack fails is not
  (603-605).
* Children of an agent that exits by itself survive it. `NothingOutlivesTheRun`
  says only that they have no network any more.
* Azure DevOps: a review half of which was posted is posted again by the retry
  of its message.
* The queue in memory puts a failed message behind newer ones of its pull
  request, unlike Pub/Sub's ordering keys.
* That a diff was truncated is not mentioned in the summary, and the prompt
  cuts patches over 32 KiB.
* azuredevops/diff.go:246 checks the budget before it spends it: it is overrun
  by at most one file per worker.
* config.go:316-320: a pattern such as `gemini-*` for models also lets a
  comment ask for `gemini-a/b`, which an engine may not run; nothing checks the
  model of the deployment's own engine (`RefuseModel`).
* budget.go:25: the monthly ceiling is not checked before implement and plan,
  which only charge (implement_run.go:163, implement.go:441).
* config.go:729: the verification may take as long as the whole job.

### Fairness

Three runs state liveness. In `Guard`, a worker goes on with its job (the
job timeout cancels it, and every call has a deadline), the queue goes on
delivering what was not acknowledged and dead-letters what has used up its
attempts, and an abandoned lock expires. Claims need not expire, mishaps need
not happen, and no strong fairness is assumed. In `Scaler`, calls return, jobs
end and the clock goes on; nobody is obliged to publish, and errors are finite
in number, so what is shown is that the system recovers from them. In
`Receiver`, a handler and the client's sender go on, since every call has a
deadline; nothing need arrive, fail, be stopped or be consumed.

## 4. The proofs

For every value of the constants:

| Theorem | Says |
| --- | --- |
| `GuardProofs!TypeCorrect` | type correctness |
| `GuardProofs!LockOwnership`, `OneWorkerPerPull` | a worker between AcquireLock and Release owns the lock unless its lease expired, so two of them never share a pull request otherwise |
| `GuardProofs!DoneIsAnswered` | `DoneMeansAnswered`: a delivery called done was answered, or it had failed and its notice reached nobody |
| `GuardProofs!NothingDropped` | `Spec => Promise!Spec`: the guard implements `AtLeastOnce`, in which only a failure whose notice failed or had nobody to reach leaves the queue in silence |
| `GuardProofs!FailingIsTold` | `DeadMeansSilence`: a message whose worker never died is dead lettered only if it failed fewer times than it takes to give up |
| `LeaseProofs!LeaseTypeCorrect` | type correctness |
| `LeaseProofs!LeasesExclude` | `OneJobAtATime`, for every TTL, slack and stop delay that satisfy `LeaseTiming` |
| `LeaseProofs!LostLeasesStop` | `LostLeaseStops` |
| `LeaseProofs!OnlyAcquireTakesTheorem` | `OnlyAcquireTakes`: a late extension never takes a lock back |
| `ImplementProofs!ImplementTypeCorrect` | type correctness; a request is running exactly while a worker has it |
| `ImplementProofs!OnlyVerified` | `OnlyVerifiedOffered`, for any number of workers, requests, agent runs and faults |
| `ImplementProofs!WorkKeptTheorem` | `WorkKept`: no job takes a commit off the branch |
| `ImplementProofs!PaidOnceTheorem` | `PaidOnce` |
| `ImplementProofs!HonestAnswersTheorem` | `HonestAnswers`, whichever attempt speaks |
| `ReviewProofs!TypeCorrect` | type correctness; a pull request's job is the one of its running request |
| `ReviewProofs!NothingIsLeftUnread` | `NothingUnread`: the base of the next review never passes an unread commit, but for those pushed between diff and clone |
| `ReviewProofs!NewestIsShown` | `NewestShown`, in whatever order requests come and retry |
| `ReviewProofs!OneReviewEach` | `OneReviewPerHead`, as long as the job key is kept |
| `ReviewProofs!PostsStayBounded` | `PostsBounded`, for any limit |
| `ReviewProofs!SilenceIsKept` | `SilenceKept`, as long as the flag is kept |
| `ReviewProofs!SpendStaysBounded` | `SpendBounded`, for any ceiling, price, finite number of pull requests and number of runs on issues |
| `ScalerProofs!TypeCorrect` | type correctness |
| `ScalerProofs!AwayOnlyAfterQuietTheorem` | `AwayOnlyAfterQuiet`, for every policy, lag and delay |
| `ScalerProofs!NobodySleepsInTheorem` | `NobodySleepsIn`: how long a message waits without a worker at most |
| `ReceiverProofs!TypeCorrect` | type correctness: every event that a request carries holds together |
| `ReceiverProofs!OnlyWhatWasAskedTheorem` | `OnlyWhatWasAsked`, for every configuration, every delivery that its description fits and every text whose fences are read alike |
| `ReceiverProofs!OneKeyPerChangeTheorem` | `OneKeyPerChange`, for all names and numbers |
| `ReceiverProofs!AnswersTrueTheorem` | `AnswersTrue`, whatever fails, expires or is stopped |
| `ReceiverProofs!OneFaultOneAttemptTheorem` | `OneFaultOneAttempt`, for any number of requests, keys, attempts and faults |
| `ReceiverProofs!NobodySleepsOnWorkTheorem` | `NobodySleepsOnWork`, for any number of receivers and publishing handlers |
| `EngineProofs!TunnelIsStrictest`, `ConnectIsLaxest` | the three decisions of the rules are ordered: where a tunnel is let through every request would be; where a request would be, the inspected connection is |
| `EngineProofs!ReachedWasAllowedTheorem` | `ReachedWasAllowed`, for any rules, spellings of ports, connections, requests and jobs |
| `EngineProofs!NothingOutlivesTheRunTheorem` | `NothingOutlivesTheRun`, however connections and the end of the run interleave |
| `EngineProofs!SpendReportedTheorem` | `SpendReported`, for any number of steps and resumptions |
| `ReportProofs!PassesRun` | the passes of a review run on an engine that can run their model, or on the deployment's own |
| `ReportProofs!RequestHonouredTheorem` | `RequestHonoured`, for every deployment, repository, command and pull request |
| `ReportProofs!SanitizeFacts` | what `Sanitize` keeps of any answer: the first comment of each key that fits, the most serious up to the cap, and a count of all others |
| `ReportProofs!LinesOfPatch` | the lines that may be commented on are those of the new side that a unified diff shows |
| `ReportProofs!UnifiedFits` | what kibitz computes of any two files is a unified diff |
| `ReportProofs!ReviewFits` | `FindingsFit`, for every pull request, platform, deployment and agent, and any number of workers that fetch files |
| `ReportProofs!ReviewSaysOrShows` | `SaidOrShown`, whatever fails on the way |

They rest on the named assumptions `GuardConstants`, `GuardNames`,
`ReviewConstants`, `LeaseConstants`, `LeaseTiming`, `ImplementConstants`,
`ScalerConstants`, `ReceiverAssumption`, `DescriptionAssumption`,
`QueueAssumption`, `ListingAssumption`, `DiffAssumption` and `PullsAssumption`,
which TLC evaluates in the runs. `DescriptionAssumption` is the strongest of
them. It says what no code can: that who has a credential is the forge, and that
the names in a genuine delivery are those of the people and the repository it is
about. What follows from a check of the credential and from a reading of the
text is not assumed but proved: that verification lets only holders of a
credential through, that a mention and a command which the code finds are the
ones `AskedOf` finds, and that only what was asked for gets past the policy and
through all that may happen on the way to the queue. `RequestHonoured` uses
besides that the deployment passed `RequireCommandEngines`, without which the
worker does not start (`Init`); `FailingIsTold`
that each delivery is published as one message (`OneMessageEach`: failures are
counted per delivery, attempts per message); `SpendStaysBounded` that the pull
requests are finitely many.

*Lock ownership* is inductive by itself given the types, because only the owner
deletes its lock. *DoneMeansAnswered* is not: between the job and the write a
worker has an answer in hand that the store does not show yet. `AnswerInv` adds
what each step after the job knows (at `remember` the delivery was answered or
its failure is lost, at `unlock` a result "ok" means that a run has finished,
at `notify` that one has failed, at `ack` the message was settled in one of
these ways or is one of kibitz's own), and the refinement needs the last of
these too.

*DeadMeansSilence* compares two counts kept in two places, the broker's attempts
and the store's failures. `SilenceInv` relates them: unless a worker is about to
answer a message, its delivery failed at most once for each attempt short of
the last that is past its job (`FailuresCounted`); so that no attempt counts
twice, two copies of one message in flight have different numbers.

The properties of *ReviewJob* are about what steps leave behind for later ones,
so `PullInv` says, step by step, what a running review relies on. Its scope has
no gap below its newest commit that nobody read, and after the clone every
commit up to its tree is in scope, read, or slipped in behind the diff
(`CoverInv`); from the mark to the announcement the key of its head is its own
and no review of that head has started (`OnceInv`); its tree is not older than
any result, as only one job runs and heads only grow (`NewestInv`); its post is
in the hour's count, or a fault or a new hour took it out (`PostsInv`); and an
automatic review past the check of the flag has not been silenced, short of a
fault or a lapsed flag (`SilenceInv`). Each action has a lemma; that other pull
requests do not notice is proved once (`Elsewhere`). For *SpendBounded* every
run past the check and not charged yet holds its price back (`SpendInv`): a run
that passes finds all of them below the ceiling, or a fault pays for it; and a
run on an issue that ends at the ceiling or over it pays by being counted
(`IssueSpends`).

*OneJobAtATime* speaks about jobs, but what keeps them apart is time.
`LeaseInv` relates them: while a job runs undisturbed, its keepalive's next
tick plus the slack, or the moment by which it has stopped, lies before the
expiry of a lock that it owns. A job that does not own the lock must therefore
have slept; since when it woke is bounded as well, that yields both theorems.

*OnlyVerifiedOffered* speaks about the branch, but why it holds lies along the
whole way of a change. `VerifyInv` follows it: an execution was sent to the
place of its own change, what is staged there, if whole, is that change, so is
what the runner unpacked, a verdict "passed" at a place is about its change,
and a worker about to push has such a verdict. The types are needed with it
(`TypeInv`): a change in hand beyond `LookAtChanges` stayed within bounds, and
no two workers have one request.

*WorkKept* needs of the state only that a branch that is not there has no
commits (`BranchHolds`). For *PaidOnce* two workers at the issue know of each
other, and one that is alone finds no change on the branch from its look to the
run of the agent (`AloneInv`). *HonestAnswers* is about what a job will say, so
`HonestInv` ties it down where it is decided: the change in hand is the
request's own, what is about to be reported as opened is on the branch or was
offered, and a job between its look at the branch and its push, or about to
deny, has none of its request's changes there. It rests on
`OnlyVerifiedOffered`, and no other worker can put such a change there, since
changes are pushed by the job of their request.

*AwayOnlyAfterQuiet*: a count of none was decided on when the metric showed
`IdleAfter` empty minutes, and the reading remains in the kept minutes as far
back as the reconciliation is old (`Quiet`). *NobodySleepsIn* counts to the next
reading. A minute in which somebody waited is not an empty one once it shows
(`SleepShows`), so a reconciliation that wants no worker read the metric before
the wait showed (`StaleReading`); it may be late to apply, but holds up only the
next one, which must see the wait (`Due`) and fails only at the cost of an
error. Hence two reconciliations in the bound and not one: with a delay of
three minutes or more TLC reaches a wait that a bound of a single one forbids.

`Receiver` is proved in layers. `TypeInv` is the shape of the state. `StoryInv`
follows each request: it is work, and then its event and answer are those of a
decision to publish, or it is settled by the decision alone; whatever is queued
or in the client's hands is work, under its own key. *OnlyWhatWasAsked* and
*AnswersTrue* follow from it with lemmas about the hooks and the policy
(`NormalizedIsRaw`, `WhatIsPublished`, `WhatIsRefused`). That the code's
reading of a comment is a person's goes line by line (`ReadAlike`): where the
fences are read alike, the code is inside a fence after a line exactly where a
forge is inside a block, by induction over the lines (`Carried`, from the
well-foundedness of `<`), so that both strip the same lines and the rest is one
text (`AskedAsRead`). `VerifiedHolds` is the credential. *OneKeyPerChange* is
that the key, a concatenation, can be taken apart again (`OneKeyEach`): GitHub's
names have a fixed length, only GitHub has issues, and other platforms' keys end
in one segment. *OneFaultOneAttempt* needs an account of who paid for an attempt
(`FaultInv`): a request has used up at most one attempt more than there were
faults, and none more once it has failed or finds its key paused; a request in
flight has its message with the client and its key free, so that the fault
which pauses the key reaches everybody who waits with it.

*NobodySleepsOnWork* is inductive but for the shape of `loops`: who waits found
the list empty, and who takes the signal looks again.

*ReachedWasAllowed*: a tunnel is decided at its CONNECT and dialled later, so
the invariant remembers the decision in between; `TunnelIsStrictest` then gives
every path of a host at once. `DecidedIsCovered` says what a decision by spelling
means by number: a port that is spelled alike is the same number, so what the
allow list lets through it covers; a deny rule that covers what was let through
must have been spelled otherwise.

*NothingOutlivesTheRun*: until the session is closed, every end of a connection
that a handler holds or has joined is in the session's books; afterwards none
of them is open (`Covered`). A handler that comes to tell of an end finds the
session closed and hangs up by itself, which is why the order of the two does
not matter. `RunInv` adds what the phases of the run say of its directory, its
agent and its session.

*SpendReported* follows an account while it is in two places (`Account`): what
runs that broke off spent is a number already, what the present run spent is
still in its events, and together they are the steps that were told of. `Record`
says that a new step has a number of its own, so that it is in no stream yet.

*RequestHonoured* is mostly about choices that are functions of the pull
request; the lemmas `ModelOfCommand`, `EngineOfCommand` and `PassesRun` hold of
these for every value. The invariant adds what a review remembers of them.

The other two invariants of a review are about data: what a walk over a patch,
over the comments or over an edit script returns. The library's induction
theorems take an operator, which the provers cannot instantiate, so
`ReportProofs` argues with least numbers instead: a set of numbers that has
zero, and with each number the next, has all of them, because the numbers it
lacks would have a least one (`Induction`, from the well-foundedness of `<`).
With it, a recursive function has a solution (`Recursion`), and a fold is the
last of a sequence of states, each the step's result on the one before
(`FoldExists`, and for each fold of the model a lemma such as `OnlySteps`,
`SiftSteps` or `PatchSteps`). Every walk is then followed by an invariant of
its states.

*FindingsFit* is put together from three of these. `SanitizeFacts`: after k
comments, what is kept comes from an increasing sequence of positions, those of
the first comment of each key that fits, and the counts account for the rest
(`Sifted`); the sort is a rearrangement, because the number of findings that
come before one is different for each (`SortFacts`). `LinesOfPatch`: after k
raw lines, the line count is where the last header starts plus the lines shown
since, and the lines so far are those of the hunks so far (`HunksRead`); a hunk
that has been read shows as many lines as its header says. `UnifiedFits` gives
Azure's patches, which kibitz computes, the form that `LinesOfPatch` needs. It
holds whatever the search for an edit script returns: the two counters of the
walk in `rebuild` make every part of a script a run whose steps know how many
lines of the new side come before (`RebuildFits`, `RunOf`); hunks have more
than one unchanged step between them, so their headers rise even where a side
is empty (`Between`, `HunksApart`); and a run is written as one header and as
many lines as it counts (`RenderFits`, `BlocksOf`). The invariants carry this
to the point where the findings are placed. `FillInv` says of each of Azure's
workers which file it has, that its objects are those of that file and what it
has read is a content of the listing, and of each file that it has the path of
its change and no patch or a unified one; `FullInv` says that the review's diff
has each path once, with such patches, and no ignored file; `ReportInv` that
the report is what `Sanitize` leaves of one of the agent's documents. That no
layer of the settings lifts the deployment's limit is `SettingsCapped`.

*SaidOrShown*: from the moment there is a diff, a file of it is shown, or set
aside and named, or the review reads only what was pushed and the file was not
or the comparison was cut off (`ShownInv`); that a comparison which was not cut
off has everything that was pushed is `ComparisonHasAll` and, for Azure,
`KeptHasAll`. `PostInv` is about the findings: where no place was refused, the
ones that were placed are the first ones of the report, and no finding is there
twice, so that the number of answers tells which one is next.

Of the invariants only `PatchIsTheChange` is left to TLC. `UnifiedFits` proves
the shape of a patch for every script; that the old file with the patch applied
is the new one, with as few lines as there can be, depends on what Myers' search
and the compaction find, round by round, and on a longest common subsequence.
Left to TLC are besides: that `EveryCommitRead` and `FindingsSaid` fail; and
all liveness, since the prover handles neither fairness nor ENABLED.
No definition uses RECURSIVE.

## 5. Not modelled

The list with reasons is in `PROJECT.json`. In short: the model, forge APIs and
git are outside processes, and a job sees of them an answer or a failure; of the
configuration only what a command may choose is modelled, the rest is read once
and keeps no state; telemetry and wording decide nothing afterwards; the MCP
server searches documents and keeps nothing; a delivery recorded as done is not
forgotten again, as the record is kept for as long as a message is; one
repository and one month stand for the budget. Certificates and TLS of the
proxy, the bytes of signatures, letter case and character encodings are left
out: a signature stands for the key it was made with, a name is a sequence of
labels or segments. Of Markdown, indented code and spans over several lines are
left out. The session key of a conversation and the `help` command change
nothing the properties speak of. The contents of a tree in `Implement` are left
out, and with them the difference between what is verified and what is committed
(symbolic links, files that git ignores).

## 6. What is left

1. Composition of `ReviewReport` with `ReviewJob`: findings over several
   reviews, so that what a failed post loses (review.go:425) can be stated.
2. Files as data in `Implement`: paths that may be written, the archive against
   the commit.
3. Proofs: that the search finds a shortest script, for `PatchIsTheChange`.
