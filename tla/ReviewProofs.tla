---------------------------- MODULE ReviewProofs ----------------------------
(***************************************************************************)
(* Proofs about ReviewJob, for any number of pull requests, requests,      *)
(* commits, attempts and faults.  What a review relies on while it runs is *)
(* said step by step (PullInv): which commits its scope and its tree stand *)
(* for, that its job key is its own, that its tree is not older than a     *)
(* result, that its post was counted, and that nobody asked for silence.   *)
(***************************************************************************)
EXTENDS ReviewJob, FiniteSetTheorems, TLAPS

AfterDiff == {"allow", "announce", "clone", "agent"}
AfterClone == {"agent", "charge", "record", "summary"}
HasHead == {"ignored", "budget", "mark", "diff", "allow", "announce", "clone", "agent",
            "charge", "record", "summary", "findings", "reply"}

\* Whose steps they are.
KindsAt(step) ==
  CASE step = "lift"                                   -> {"review", "full"}
    [] step = "mark"                                   -> {"auto"}
    [] step = "ignore"                                 -> {"ignore"}
    [] step = "forget"                                 -> {"closed"}
    [] step = "reply"                                  -> {"question"}
    [] step \in {"look", "budget", "clone", "agent", "charge"} -> Reviews \cup {"question"}
    [] OTHER                                           -> Reviews

\* A pull request's job is the one of its running request.
JobShape(p) ==
  IF jobs[p].step = "idle" THEN current(p) = 0
  ELSE /\ current(p) \in Requests
       /\ requests[current(p)].state = "running"
       /\ requests[current(p)].event.pull = p
       /\ kind(p) \in KindsAt(jobs[p].step)
       /\ jobs[p].step \in HasHead => jobs[p].head \in Commits

\* Commits that were read, or slipped in behind a diff.
Known(p) == past[p].read \cup past[p].slipped

CoverInv(p) ==
  /\ 1 .. store[p].reviewed \subseteq Known(p)
  /\ jobs[p].step \in AfterDiff /\ kind(p) \in Reviews =>
       \A c \in Commits, s \in jobs[p].scope : c <= s => c \in jobs[p].scope \cup Known(p)
  /\ jobs[p].step = "agent" /\ kind(p) \in Reviews =>
       1 .. jobs[p].tree \subseteq jobs[p].scope \cup Known(p)
  /\ jobs[p].step \in {"charge", "record"} /\ kind(p) \in Reviews =>
       1 .. jobs[p].tree \subseteq Known(p)

OnceInv(p) ==
  /\ \A c \in Commits : past[p].started[c] <= 1 /\ (past[p].started[c] > 0 => c \in store[p].marked)
  /\ jobs[p].step \in {"diff", "allow", "announce"} /\ kind(p) = "auto" =>
       jobs[p].head \in store[p].marked /\ past[p].started[jobs[p].head] = 0

NewestInv(p) ==
  /\ past[p].newest <= forge[p].head
  /\ jobs[p].step \in AfterClone => past[p].newest <= jobs[p].tree /\ jobs[p].tree <= forge[p].head
  /\ forge[p].summary.is = "result" => forge[p].summary.commit = past[p].newest

\* A review between its permission and its result.
Posting(p) ==
  \/ jobs[p].step \in {"announce", "record", "summary"}
  \/ jobs[p].step \in {"clone", "agent", "charge"} /\ kind(p) \in Reviews
Posts(p) == past[p].written + (IF Posting(p) THEN 1 ELSE 0)

PostsInv(p) ==
  Posts(p) <= store[p].posts + 1 + faults /\ Posts(p) <= MaxPosts + 1 + faults

SilenceInv(p) ==
  /\ jobs[p].step = "lift" => past[p].wish # "out"
  /\ past[p].wish = "out" /\ faults = 0 =>
       /\ store[p].ignored
       /\ jobs[p].step # "idle" /\ kind(p) = "auto" => jobs[p].step \in {"look", "ignored"}

PullInv(p) ==
  /\ JobShape(p) /\ CoverInv(p) /\ OnceInv(p) /\ NewestInv(p) /\ PostsInv(p) /\ SilenceInv(p)

Inv ==
  /\ TypeOK
  /\ \A r \in Requests : requests[r].state # "none" => requests[r].event \in Events
  /\ \A p \in Pulls : PullInv(p)

-----------------------------------------------------------------------------
(* The slot of a job.                                                      *)

Wishes == {"none", "out"}
JobRec == [request : 0..MaxRequests, step : Steps, head : 0..MaxHead,
           scope : SUBSET Commits, tree : 0..MaxHead]
StoreRec == [marked : SUBSET Commits, reviewed : 0..MaxHead, ignored : BOOLEAN, posts : Nat]
ForgeRec == [head : Commits, state : {"open", "closed", "merged"}, summary : Summaries]
RequestRec == [state : {"none", "waiting", "running", "failing", "settled", "dead"},
               tries : Nat, event : Events \cup {NoEvent}]

\* The job is over, and its request left behind.
Ended(p) ==
  /\ jobs' = [jobs EXCEPT ![p] = Idle]
  /\ \E s \in {"settled", "waiting", "failing"} :
       requests' = [requests EXCEPT ![current(p)].state = s]

\* The job goes on with the same request.
GoesOn(p) ==
  /\ requests' = requests
  /\ jobs' = [jobs EXCEPT ![p] = jobs'[p]]
  /\ jobs'[p] \in JobRec /\ jobs'[p].request = jobs[p].request /\ jobs'[p].step # "idle"

Slots ==
  /\ requests \in [Requests -> RequestRec]
  /\ jobs \in [Pulls -> JobRec]
  /\ \A r \in Requests : requests[r].state = "running" => jobs[requests[r].event.pull].request = r
  /\ \A r \in Requests : requests[r].state # "none" => requests[r].event \in Events

Values ==
  /\ forge \in [Pulls -> ForgeRec]
  /\ store \in [Pulls -> StoreRec]
  /\ spent \in Nat /\ unchecked \in Nat /\ hours \in Nat /\ faults \in Nat
  /\ past \in [Pulls -> PastType]

LEMMA Parts == Inv <=> Slots /\ Values /\ \A p \in Pulls : PullInv(p)
  BY DEF Inv, TypeOK, Slots, Values, JobRec, StoreRec, ForgeRec, RequestRec

LEMMA PartsNext == Slots' /\ Values' /\ (\A p \in Pulls : PullInv(p)') => Inv'
  BY DEF Inv, TypeOK, Slots, Values, JobRec, StoreRec, ForgeRec, RequestRec

LEMMA Ends ==
  ASSUME NEW p
  PROVE  Settle(p) \/ Fail(p) \/ Over(p, "waiting") => Ended(p)
  BY DEF Settle, Fail, Over, Requeued, Ended

LEMMA IdleIsJob == Idle \in JobRec /\ Idle.step = "idle" /\ Idle.request = 0
  BY ReviewConstants DEF Idle, JobRec, Steps, Commits

\* Two jobs have two requests.
LEMMA OwnRequest ==
  ASSUME Slots, NEW p \in Pulls, NEW q \in Pulls, p # q, JobShape(p), JobShape(q),
         jobs[p].step # "idle", jobs[q].step # "idle"
  PROVE  current(p) # current(q)
  BY DEF Slots, JobShape, current

LEMMA EndedSlots ==
  ASSUME Inv, NEW p \in Pulls, jobs[p].step # "idle", Ended(p)
  PROVE  /\ Slots'
         /\ jobs'[p] = Idle
         /\ \A q \in Pulls \ {p} :
              /\ jobs'[q] = jobs[q] /\ JobShape(q)'
              /\ jobs[q].step # "idle" => kind(q)' = kind(q)
<1>1. PICK s \in {"settled", "waiting", "failing"} : requests' = [requests EXCEPT ![current(p)].state = s]
  BY DEF Ended
<1>2. /\ Slots /\ JobShape(p) /\ current(p) \in Requests
      /\ requests[current(p)].state = "running" /\ requests[current(p)].event.pull = p
  BY Parts DEF PullInv, JobShape
<1>3. /\ jobs' \in [Pulls -> JobRec] /\ jobs'[p] = Idle
      /\ \A q \in Pulls \ {p} : jobs'[q] = jobs[q]
  BY <1>2, IdleIsJob DEF Ended, Slots
<1>4. /\ requests' \in [Requests -> RequestRec]
      /\ \A r \in Requests : requests'[r].event = requests[r].event
      /\ \A r \in Requests \ {current(p)} : requests'[r] = requests[r]
      /\ requests'[current(p)].state = s
  BY <1>1, <1>2 DEF Slots, RequestRec
<1>5. Slots'
  <2>1. ASSUME NEW r \in Requests, requests'[r].state = "running"
        PROVE  jobs'[requests'[r].event.pull].request = r
    <3>1. r # current(p) /\ requests[r].state = "running" /\ requests'[r] = requests[r]
      BY <1>4, <2>1
    <3>2. requests[r].event \in Events /\ jobs[requests[r].event.pull].request = r
      BY <3>1, <1>2 DEF Slots
    <3>3. requests[r].event.pull \in Pulls /\ requests[r].event.pull # p
      BY <3>1, <3>2 DEF Events, current
    <3> QED BY <1>3, <3>1, <3>2, <3>3
  <2>2. ASSUME NEW r \in Requests, requests'[r].state # "none" PROVE requests'[r].event \in Events
    BY <1>2, <1>4, <2>2 DEF Slots
  <2> QED BY <1>3, <1>4, <2>1, <2>2 DEF Slots
<1>6. ASSUME NEW q \in Pulls \ {p}
      PROVE  /\ jobs'[q] = jobs[q] /\ JobShape(q)'
             /\ jobs[q].step # "idle" => kind(q)' = kind(q)
  <2>1. JobShape(q)
    BY Parts DEF PullInv
  <2>2. CASE jobs[q].step = "idle"
    BY <1>3, <2>1, <2>2 DEF JobShape, current
  <2>3. CASE jobs[q].step # "idle"
    <3>1. current(q) # current(p) /\ current(q) \in Requests
      BY <1>2, <2>1, <2>3, OwnRequest DEF JobShape
    <3>2. current(q)' = current(q) /\ requests'[current(q)] = requests[current(q)]
      BY <1>3, <1>4, <3>1 DEF current
    <3> QED BY <1>3, <2>1, <2>3, <3>2 DEF JobShape, kind
  <2> QED BY <1>3, <2>2, <2>3
<1> QED BY <1>3, <1>5, <1>6

LEMMA GoesOnSlots ==
  ASSUME Inv, NEW p \in Pulls, jobs[p].step # "idle", GoesOn(p)
  PROVE  /\ Slots'
         /\ current(p)' = current(p) /\ kind(p)' = kind(p)
         /\ kind(p) \in KindsAt(jobs'[p].step) /\ (jobs'[p].step \in HasHead => jobs'[p].head \in Commits)
            => JobShape(p)'
         /\ \A q \in Pulls \ {p} :
              /\ jobs'[q] = jobs[q] /\ JobShape(q)'
              /\ jobs[q].step # "idle" => kind(q)' = kind(q)
<1>1. Slots /\ JobShape(p) /\ \A q \in Pulls : JobShape(q)
  BY Parts DEF PullInv
<1>2. jobs' \in [Pulls -> JobRec] /\ requests' = requests /\ \A q \in Pulls \ {p} : jobs'[q] = jobs[q]
  BY <1>1 DEF GoesOn, Slots
<1>3. \A q \in Pulls : jobs'[q].request = jobs[q].request
  BY <1>2 DEF GoesOn
<1>4. Slots'
  <2>1. ASSUME NEW r \in Requests, requests[r].state = "running"
        PROVE  jobs'[requests[r].event.pull].request = r
    <3>1. requests[r].event \in Events /\ jobs[requests[r].event.pull].request = r
      BY <1>1, <2>1 DEF Slots
    <3> QED BY <1>3, <3>1 DEF Events
  <2> QED BY <1>1, <1>2, <2>1 DEF Slots
<1>5. \A q \in Pulls : current(q)' = current(q) /\ kind(q)' = kind(q)
  BY <1>2, <1>3 DEF current, kind
<1> QED BY <1>1, <1>2, <1>4, <1>5 DEF JobShape, GoesOn

-----------------------------------------------------------------------------
(* What the steps of a job have in common.                                 *)

\* Only the pull request's own state changes, the month's spend, the faults.
Frame(p) ==
  /\ forge' = [forge EXCEPT ![p] = forge'[p]] /\ forge'[p] \in ForgeRec
  /\ store' = [store EXCEPT ![p] = store'[p]] /\ store'[p] \in StoreRec
  /\ past' = [past EXCEPT ![p] = past'[p]] /\ past'[p] \in PastType
  /\ spent' \in Nat /\ unchecked' \in Nat /\ hours' \in Nat /\ faults' \in Nat /\ faults <= faults'

LEMMA Here ==
  ASSUME Inv, NEW p \in Pulls
  PROVE  /\ forge[p] \in ForgeRec /\ store[p] \in StoreRec /\ past[p] \in PastType
         /\ jobs[p] \in JobRec
         /\ spent \in Nat /\ unchecked \in Nat /\ hours \in Nat /\ faults \in Nat
         /\ JobShape(p) /\ CoverInv(p) /\ OnceInv(p) /\ NewestInv(p) /\ PostsInv(p)
         /\ SilenceInv(p)
  BY Parts DEF Slots, Values, PullInv

LEMMA FrameKeeps ==
  ASSUME Inv, NEW p \in Pulls, Frame(p)
  PROVE  /\ Values'
         /\ \A q \in Pulls \ {p} : forge'[q] = forge[q] /\ store'[q] = store[q] /\ past'[q] = past[q]
<1>1. Values
  BY Parts
<1> QED BY <1>1 DEF Frame, Values

\* A pull request whose job rests, whatever the forge does or else failed.
LEMMA Rests ==
  ASSUME Inv, NEW q \in Pulls, faults' \in Nat, faults <= faults',
         store'[q] = store[q], past'[q] = past[q], jobs'[q] = jobs[q],
         JobShape(q)', jobs[q].step # "idle" => kind(q)' = kind(q), NewestInv(q)'
  PROVE  PullInv(q)'
<1>1. /\ forge[q] \in ForgeRec /\ store[q] \in StoreRec /\ past[q] \in PastType
      /\ faults \in Nat
      /\ CoverInv(q) /\ OnceInv(q) /\ NewestInv(q) /\ PostsInv(q) /\ SilenceInv(q)
  BY Here
<1>2. CoverInv(q)'
  BY <1>1 DEF CoverInv, Known, AfterDiff
<1>3. OnceInv(q)'
  BY <1>1 DEF OnceInv
<1>5. PostsInv(q)'
  <2>1. Posting(q)' <=> Posting(q)
    BY DEF Posting
  <2>2. Posts(q)' = Posts(q) /\ Posts(q) \in Nat
    BY <1>1, <2>1 DEF Posts, PastType
  <2> QED BY <1>1, <2>2, ReviewConstants DEF PostsInv, StoreRec
<1>6. SilenceInv(q)'
  BY <1>1 DEF SilenceInv
<1> QED BY <1>2, <1>3, <1>5, <1>6 DEF PullInv

\* A pull request nobody touched.
LEMMA Elsewhere ==
  ASSUME Inv, NEW q \in Pulls, faults' \in Nat, faults <= faults',
         forge'[q] = forge[q], store'[q] = store[q], past'[q] = past[q], jobs'[q] = jobs[q],
         JobShape(q)', jobs[q].step # "idle" => kind(q)' = kind(q)
  PROVE  PullInv(q)'
<1>1. NewestInv(q)'
  BY Here DEF NewestInv
<1> QED BY <1>1, Rests

\* A job that ends, and what the store is left with.
LEMMA EndKeeps ==
  ASSUME Inv, NEW p \in Pulls, jobs[p].step # "idle", Ended(p), Frame(p),
         store'[p].reviewed \in {0, store[p].reviewed},
         store[p].marked \subseteq store'[p].marked,
         store[p].posts <= store'[p].posts,
         past'[p].read = past[p].read, past'[p].slipped = past[p].slipped,
         past'[p].started = past[p].started, past'[p].written <= Posts(p),
         NewestInv(p)',
         past'[p].wish = "out" /\ faults' = 0 => store'[p].ignored
  PROVE  Inv'
<1>1. /\ Slots' /\ jobs'[p] = Idle
      /\ \A q \in Pulls \ {p} :
              /\ jobs'[q] = jobs[q] /\ JobShape(q)'
              /\ jobs[q].step # "idle" => kind(q)' = kind(q)
  BY EndedSlots
<1>2. /\ Values'
      /\ \A q \in Pulls \ {p} : forge'[q] = forge[q] /\ store'[q] = store[q] /\ past'[q] = past[q]
  BY FrameKeeps
<1>3. ASSUME NEW q \in Pulls \ {p} PROVE PullInv(q)'
  BY <1>1, <1>2, Elsewhere DEF Frame
<1>4. PullInv(p)'
  <2>1. /\ store[p] \in StoreRec /\ store'[p] \in StoreRec /\ past[p] \in PastType
        /\ past'[p] \in PastType /\ faults \in Nat /\ faults' \in Nat /\ faults <= faults'
        /\ CoverInv(p) /\ OnceInv(p) /\ PostsInv(p)
    BY Here DEF Frame
  <2>2. jobs'[p].step = "idle" /\ jobs'[p].request = 0
    BY <1>1, IdleIsJob
  <2>3. JobShape(p)'
    BY <2>2 DEF JobShape, current
  <2>4. CoverInv(p)'
    BY <2>1, <2>2 DEF CoverInv, Known, AfterDiff, StoreRec
  <2>5. OnceInv(p)'
    BY <2>1, <2>2 DEF OnceInv
  <2>6. PostsInv(p)'
    <3>1. Posts(p)' = past'[p].written
      BY <2>1, <2>2 DEF Posts, Posting, PastType
    <3>2. Posts(p) \in Nat
      BY <2>1 DEF Posts, PastType
    <3> QED BY <2>1, <3>1, <3>2, ReviewConstants DEF PostsInv, StoreRec, PastType
  <2>7. SilenceInv(p)'
    BY <2>2 DEF SilenceInv
  <2> QED BY <2>3, <2>4, <2>5, <2>6, <2>7 DEF PullInv
<1> QED BY <1>1, <1>2, <1>3, <1>4, PartsNext

\* A job that goes on keeps what it owes at the step it reached.
LEMMA GoKeeps ==
  ASSUME Inv, NEW p \in Pulls, jobs[p].step # "idle", GoesOn(p), Frame(p),
         kind(p) \in KindsAt(jobs'[p].step),
         jobs'[p].step \in HasHead => jobs'[p].head \in Commits,
         CoverInv(p)', OnceInv(p)', NewestInv(p)', PostsInv(p)', SilenceInv(p)'
  PROVE  Inv'
<1>1. /\ Slots' /\ JobShape(p)'
      /\ \A q \in Pulls \ {p} :
              /\ jobs'[q] = jobs[q] /\ JobShape(q)'
              /\ jobs[q].step # "idle" => kind(q)' = kind(q)
  BY GoesOnSlots
<1>2. /\ Values'
      /\ \A q \in Pulls \ {p} : forge'[q] = forge[q] /\ store'[q] = store[q] /\ past'[q] = past[q]
  BY FrameKeeps
<1>3. ASSUME NEW q \in Pulls \ {p} PROVE PullInv(q)'
  BY <1>1, <1>2, Elsewhere DEF Frame
<1>4. PullInv(p)'
  BY <1>1 DEF PullInv
<1> QED BY <1>1, <1>2, <1>3, <1>4, PartsNext

LEMMA Counting ==
  ASSUME faults \in Nat, NEW f
  PROVE  /\ NoFault => faults' = faults
         /\ Fault(f) => faults' = faults + 1
         /\ NoFault \/ Fault(f) => faults' \in Nat /\ faults <= faults'
  BY DEF NoFault, Fault

LEMMA Going ==
  ASSUME Inv, NEW p \in Pulls, NEW s \in Steps \ {"idle"}, GoTo(p, s)
  PROVE  GoesOn(p) /\ jobs'[p] = [jobs[p] EXCEPT !.step = s]
<1>1. jobs \in [Pulls -> JobRec] /\ jobs[p] \in JobRec
  BY Parts DEF Slots
<1>2. jobs'[p] = [jobs[p] EXCEPT !.step = s] /\ jobs' = [jobs EXCEPT ![p] = jobs'[p]]
  BY <1>1 DEF GoTo
<1>3. jobs'[p] \in JobRec /\ jobs'[p].request = jobs[p].request /\ jobs'[p].step = s
  BY <1>1, <1>2 DEF JobRec
<1> QED BY <1>2, <1>3 DEF GoesOn, GoTo

\* The store of one pull request is written, or not.
LEMMA Writing ==
  ASSUME Inv, NEW p \in Pulls, NEW new \in StoreRec, Write(p, new) \/ MaybeWrite(p, new)
  PROVE  /\ store' = [store EXCEPT ![p] = store'[p]]
         /\ store'[p] \in StoreRec /\ store'[p] \in {store[p], new}
         /\ Write(p, new) => store'[p] = new
<1>1. store \in [Pulls -> StoreRec]
  BY Parts DEF Values
<1> QED BY <1>1 DEF Write, MaybeWrite

\* The job stops where it is and only a mark or a count may be left behind.
LEMMA QuietEnd ==
  ASSUME Inv, NEW p \in Pulls, jobs[p].step # "idle",
         Settle(p) \/ Fail(p) \/ Over(p, "waiting"),
         UNCHANGED <<forge, past, spent, unchecked, hours>>, faults' \in Nat, faults <= faults',
         store' = [store EXCEPT ![p] = store'[p]], store'[p] \in StoreRec,
         store'[p].reviewed = store[p].reviewed, store'[p].ignored = store[p].ignored,
         store[p].marked \subseteq store'[p].marked, store[p].posts <= store'[p].posts
  PROVE  Inv'
<1>1. Ended(p)
  BY Ends
<1>2. /\ Values /\ forge[p] \in ForgeRec /\ past[p] \in PastType /\ faults \in Nat
      /\ NewestInv(p) /\ SilenceInv(p)
  BY Here, Parts
<1>3. Frame(p)
  BY <1>2 DEF Frame, Values
<1>4. past[p].written <= Posts(p)
  BY <1>2 DEF Posts, PastType
<1>5. NewestInv(p)'
  <2>1. jobs' [p] = Idle
    BY <1>1, EndedSlots
  <2> QED BY <1>2, <2>1, IdleIsJob DEF NewestInv, AfterClone
<1>6. past'[p].wish = "out" /\ faults' = 0 => store'[p].ignored
  BY <1>2 DEF SilenceInv
<1> QED BY <1>1, <1>3, <1>4, <1>5, <1>6, EndKeeps

LEMMA StillEnd ==
  ASSUME Inv, NEW p \in Pulls, jobs[p].step # "idle",
         Settle(p) \/ Fail(p) \/ Over(p, "waiting"),
         UNCHANGED <<forge, store, past, spent, unchecked, hours>>, faults' \in Nat, faults <= faults'
  PROVE  Inv'
<1>1. store \in [Pulls -> StoreRec] /\ store[p] \in StoreRec
  BY Parts DEF Values
<1>2. store' = [store EXCEPT ![p] = store'[p]] /\ store[p].posts <= store'[p].posts
  BY <1>1 DEF StoreRec
<1> QED BY <1>1, <1>2, QuietEnd

-----------------------------------------------------------------------------
(* The steps of a job, one by one.                                         *)

LEMMA CrashKeeps ==
  ASSUME Inv, NEW p \in Pulls, Crash(p)
  PROVE  Inv'
<1>1. faults' \in Nat /\ faults <= faults'
  BY Here, Counting DEF Crash
<1> QED BY <1>1, StillEnd DEF Crash, At

LEMMA RepliesKeep ==
  ASSUME Inv, NEW p \in Pulls, Findings(p) \/ Reply(p)
  PROVE  Inv'
<1>1. faults' \in Nat /\ faults <= faults'
  BY Here, Counting DEF Findings, Reply, FailsBy
<1>2. Settle(p) \/ Fail(p)
  BY DEF Findings, Reply, FailsBy
<1> QED BY <1>1, <1>2, StillEnd DEF Findings, Reply, At

LEMMA LiftKeeps ==
  ASSUME Inv, NEW p \in Pulls, Lift(p)
  PROVE  Inv'
<1> DEFINE lifted == [store[p] EXCEPT !.ignored = FALSE]
<1>1. /\ store[p] \in StoreRec /\ forge[p] \in ForgeRec /\ past[p] \in PastType /\ faults \in Nat
      /\ Values /\ jobs[p].step = "lift" /\ lifted \in StoreRec
      /\ JobShape(p) /\ CoverInv(p) /\ OnceInv(p) /\ NewestInv(p) /\ PostsInv(p) /\ SilenceInv(p)
  BY Here, Parts DEF Lift, At, StoreRec
<1>2. GoesOn(p) /\ jobs'[p] = [jobs[p] EXCEPT !.step = "look"] /\ jobs[p] \in JobRec
  BY Here, Going DEF Lift, Steps
<1>3. jobs'[p].step = "look"
  BY <1>2 DEF JobRec
<1>4. faults' \in Nat /\ faults <= faults'
  BY <1>1, Counting DEF Lift
<1>5. /\ store' = [store EXCEPT ![p] = store'[p]]
      /\ store'[p] \in StoreRec /\ store'[p] \in {store[p], lifted}
  BY <1>1, Writing DEF Lift
<1>6. Frame(p) /\ forge' = forge /\ past' = past
  BY <1>1, <1>4, <1>5 DEF Frame, Lift, Values
<1>7. /\ store'[p].marked = store[p].marked /\ store'[p].reviewed = store[p].reviewed
      /\ store'[p].posts = store[p].posts
  BY <1>5, <1>1 DEF StoreRec
<1>8. kind(p) \in KindsAt("look") /\ "look" \notin HasHead
  BY <1>1 DEF JobShape, KindsAt, Reviews, HasHead
<1>9. CoverInv(p)'
  BY <1>1, <1>3, <1>6, <1>7 DEF CoverInv, Known, AfterDiff
<1>10. OnceInv(p)'
  BY <1>1, <1>3, <1>6, <1>7 DEF OnceInv
<1>11. NewestInv(p)'
  BY <1>1, <1>3, <1>6 DEF NewestInv, AfterClone
<1>12. PostsInv(p)'
  <2>1. Posts(p) = past[p].written /\ Posts(p)' = past[p].written
    BY <1>1, <1>3, <1>6 DEF Posts, Posting, PastType
  <2> QED BY <2>1, <1>1, <1>4, <1>7, ReviewConstants DEF PostsInv, StoreRec, PastType
<1>13. SilenceInv(p)'
  BY <1>1, <1>3, <1>6 DEF SilenceInv
<1> QED BY <1>1, <1>2, <1>3, <1>6, <1>8, <1>9, <1>10, <1>11, <1>12, <1>13, GoKeeps

\* A step that only moves on: nothing is written, nothing is owed anew.
LEMMA WalkKeeps ==
  ASSUME Inv, NEW p \in Pulls, jobs[p].step # "idle", GoesOn(p),
         UNCHANGED <<forge, store, past, unchecked, hours>>, spent' \in Nat,
         faults' \in Nat, faults <= faults',
         kind(p) \in KindsAt(jobs'[p].step),
         jobs'[p].step \in HasHead => jobs'[p].head \in Commits,
         CoverInv(p)', OnceInv(p)', NewestInv(p)', SilenceInv(p)',
         Posting(p)' => Posting(p)
  PROVE  Inv'
<1>1. /\ Values /\ store[p] \in StoreRec /\ forge[p] \in ForgeRec /\ past[p] \in PastType
      /\ faults \in Nat /\ hours \in Nat /\ PostsInv(p)
  BY Here, Parts
<1>2. Frame(p)
  BY <1>1 DEF Frame, Values
<1>3. PostsInv(p)'
  <2>1. Posts(p)' <= Posts(p) /\ Posts(p) \in Nat /\ Posts(p)' \in Nat
    BY <1>1 DEF Posts, PastType
  <2> QED BY <2>1, <1>1, ReviewConstants DEF PostsInv, StoreRec
<1> QED BY <1>2, <1>3, GoKeeps

LEMMA LookKeeps ==
  ASSUME Inv, NEW p \in Pulls, Look(p)
  PROVE  Inv'
<1> DEFINE next == IF kind(p) \in Reviews THEN "ignored" ELSE "budget"
<1>1. /\ forge[p] \in ForgeRec /\ jobs[p] \in JobRec /\ faults \in Nat /\ spent \in Nat
      /\ jobs \in [Pulls -> JobRec] /\ jobs[p].step = "look"
      /\ JobShape(p) /\ CoverInv(p) /\ OnceInv(p) /\ NewestInv(p) /\ SilenceInv(p)
  BY Here, Parts DEF Look, At, Slots
<1>2. faults' \in Nat /\ faults <= faults'
  BY <1>1, Counting DEF Look, FailsBy
<1>3. CASE Settle(p) \/ Fail(p)
  BY <1>1, <1>2, <1>3, StillEnd DEF Look
<1>4. CASE /\ jobs' = [jobs EXCEPT ![p].head = forge[p].head,
                                     ![p].step = next]
           /\ UNCHANGED requests
           /\ NoFault
  <2>1. /\ jobs'[p] = [jobs[p] EXCEPT !.head = forge[p].head,
                                     !.step = next]
        /\ jobs' = [jobs EXCEPT ![p] = jobs'[p]]
    BY <1>1, <1>4
  <2>2. /\ jobs'[p] \in JobRec /\ jobs'[p].request = jobs[p].request
        /\ jobs'[p].step = next /\ jobs'[p].head \in Commits
    <3>1. next \in Steps
      BY DEF Steps
    <3>2. forge[p].head \in Commits /\ forge[p].head \in 0..MaxHead
      BY <1>1 DEF ForgeRec, Commits
    <3> QED BY <1>1, <2>1, <3>1, <3>2 DEF JobRec
  <2>3. GoesOn(p)
    BY <1>4, <2>1, <2>2 DEF GoesOn
  <2>4. kind(p)' = kind(p)
    BY <1>1, <2>3, GoesOnSlots
  <2>5. UNCHANGED <<forge, store, past, hours, spent, unchecked>>
    BY DEF Look
  <2>6. kind(p) \in KindsAt(jobs'[p].step)
    BY <1>1, <2>2 DEF JobShape, KindsAt, Reviews
  <2>7. CoverInv(p)' /\ OnceInv(p)' /\ NewestInv(p)'
    BY <1>1, <2>2, <2>4, <2>5 DEF CoverInv, OnceInv, NewestInv, Known, AfterDiff, AfterClone
  <2>8. SilenceInv(p)'
    BY <1>1, <1>2, <1>4, <2>2, <2>4, <2>5 DEF SilenceInv, NoFault, Reviews
  <2>9. ~Posting(p)'
    BY <2>2 DEF Posting
  <2> QED BY <1>1, <1>2, <2>2, <2>3, <2>5, <2>6, <2>7, <2>8, <2>9, WalkKeeps
<1> QED BY <1>3, <1>4 DEF Look, FailsBy

LEMMA CheckIgnoredKeeps ==
  ASSUME Inv, NEW p \in Pulls, CheckIgnored(p)
  PROVE  Inv'
<1>1. /\ jobs[p] \in JobRec /\ faults \in Nat /\ spent \in Nat /\ jobs[p].step = "ignored"
      /\ JobShape(p) /\ CoverInv(p) /\ OnceInv(p) /\ NewestInv(p) /\ SilenceInv(p)
  BY Here DEF CheckIgnored, At
<1>2. faults' \in Nat /\ faults <= faults'
  BY <1>1, Counting DEF CheckIgnored
<1>3. CASE Settle(p)
  BY <1>1, <1>2, <1>3, StillEnd DEF CheckIgnored
<1>4. CASE GoTo(p, "budget") /\ (~store[p].ignored \/ Fault("store"))
  <2>1. GoesOn(p) /\ jobs'[p] = [jobs[p] EXCEPT !.step = "budget"]
    BY <1>4, Going DEF Steps
  <2>2. jobs'[p].step = "budget" /\ jobs'[p].head = jobs[p].head /\ jobs[p].head \in Commits
    BY <1>1, <2>1 DEF JobRec, JobShape, HasHead
  <2>3. kind(p)' = kind(p) /\ UNCHANGED <<forge, store, past, hours, spent, unchecked>>
    BY <1>1, <2>1, GoesOnSlots DEF CheckIgnored
  <2>4. kind(p) \in KindsAt(jobs'[p].step)
    BY <1>1, <2>2 DEF JobShape, KindsAt, Reviews
  <2>5. CoverInv(p)' /\ OnceInv(p)' /\ NewestInv(p)' /\ ~Posting(p)'
    BY <1>1, <2>2, <2>3
       DEF CoverInv, OnceInv, NewestInv, Posting, Known, AfterDiff, AfterClone
  <2>6. ~store[p].ignored \/ faults' # 0
    BY <1>1, <1>4 DEF Fault
  <2>7. SilenceInv(p)'
    BY <1>1, <1>2, <2>2, <2>3, <2>6 DEF SilenceInv
  <2> QED BY <1>1, <1>2, <2>1, <2>2, <2>3, <2>4, <2>5, <2>7, WalkKeeps
<1> QED BY <1>3, <1>4 DEF CheckIgnored

LEMMA CheckBudgetKeeps ==
  ASSUME Inv, NEW p \in Pulls, CheckBudget(p)
  PROVE  Inv'
<1> DEFINE next == CASE kind(p) = "auto"             -> "mark"
                   [] kind(p) \in {"review", "full"} -> "diff"
                   [] kind(p) = "question"         -> "clone"
<1>1. /\ jobs[p] \in JobRec /\ faults \in Nat /\ spent \in Nat /\ jobs[p].step = "budget"
      /\ JobShape(p) /\ CoverInv(p) /\ OnceInv(p) /\ NewestInv(p) /\ SilenceInv(p)
  BY Here DEF CheckBudget, At
<1>2. faults' \in Nat /\ faults <= faults'
  BY <1>1, Counting DEF CheckBudget
<1>3. CASE Settle(p)
  BY <1>1, <1>2, <1>3, StillEnd DEF CheckBudget
<1>4. CASE GoTo(p, next)
  <2>1. kind(p) \in {"auto", "review", "full", "question"}
    BY <1>1 DEF JobShape, KindsAt, Reviews
  <2>2. /\ next \in {"mark", "diff", "clone"} /\ kind(p) \in KindsAt(next)
        /\ next = "clone" <=> kind(p) = "question"
        /\ next = "mark" <=> kind(p) = "auto"
    BY <2>1 DEF KindsAt, Reviews
  <2>3. GoesOn(p) /\ jobs'[p] = [jobs[p] EXCEPT !.step = next]
    BY <1>4, <2>2, Going DEF Steps
  <2>4. jobs'[p].step = next /\ jobs'[p].head = jobs[p].head /\ jobs[p].head \in Commits
    BY <1>1, <2>3 DEF JobRec, JobShape, HasHead
  <2>5. kind(p)' = kind(p) /\ UNCHANGED <<forge, store, past, hours, spent, unchecked>>
    BY <1>1, <2>3, GoesOnSlots DEF CheckBudget
  <2> HIDE DEF next
  <2>6. CoverInv(p)' /\ OnceInv(p)' /\ NewestInv(p)' /\ ~Posting(p)'
    BY <1>1, <2>2, <2>4, <2>5
       DEF CoverInv, OnceInv, NewestInv, Posting, Known, AfterDiff, AfterClone, Reviews
  <2>7. SilenceInv(p)'
    BY <1>1, <1>2, <2>2, <2>4, <2>5 DEF SilenceInv
  <2> QED BY <1>1, <1>2, <2>2, <2>3, <2>4, <2>5, <2>6, <2>7, WalkKeeps
<1> QED BY <1>3, <1>4 DEF CheckBudget

LEMMA MarkKeeps ==
  ASSUME Inv, NEW p \in Pulls, Mark(p)
  PROVE  Inv'
<1> DEFINE c == jobs[p].head
           new == [store[p] EXCEPT !.marked = @ \cup {c}]
<1>1. /\ store[p] \in StoreRec /\ forge[p] \in ForgeRec /\ past[p] \in PastType /\ faults \in Nat
      /\ Values /\ jobs[p] \in JobRec /\ jobs[p].step = "mark"
      /\ JobShape(p) /\ CoverInv(p) /\ OnceInv(p) /\ NewestInv(p) /\ PostsInv(p) /\ SilenceInv(p)
  BY Here, Parts DEF Mark, At
<1>2. c \in Commits /\ kind(p) = "auto"
  BY <1>1 DEF JobShape, KindsAt, HasHead
<1>3. /\ new \in StoreRec /\ new.marked = store[p].marked \cup {c}
      /\ new.reviewed = store[p].reviewed /\ new.ignored = store[p].ignored
      /\ new.posts = store[p].posts
  BY <1>1, <1>2 DEF StoreRec
<1>4. faults' \in Nat /\ faults <= faults'
  BY <1>1, Counting DEF Mark, FailsBy
<1>5. UNCHANGED <<forge, past, spent, unchecked, hours>>
  BY DEF Mark
<1>6. CASE c \in store[p].marked /\ Settle(p) /\ UNCHANGED store
  BY <1>1, <1>4, <1>5, <1>6, StillEnd
<1>7. CASE MaybeWrite(p, new) /\ FailsBy(p, "store")
  <2>1. /\ store' = [store EXCEPT ![p] = store'[p]]
        /\ store'[p] \in StoreRec /\ store'[p] \in {store[p], new}
    BY <1>3, <1>7, Writing
  <2>2. /\ store'[p].reviewed = store[p].reviewed /\ store'[p].ignored = store[p].ignored
        /\ store[p].marked \subseteq store'[p].marked /\ store[p].posts <= store'[p].posts
    BY <1>1, <1>3, <2>1 DEF StoreRec
  <2> QED BY <1>1, <1>4, <1>5, <1>7, <2>1, <2>2, QuietEnd DEF FailsBy
<1>8. CASE c \notin store[p].marked /\ Write(p, new) /\ GoTo(p, "diff") /\ NoFault
  <2>1. GoesOn(p) /\ jobs'[p] = [jobs[p] EXCEPT !.step = "diff"]
    BY <1>8, Going DEF Steps
  <2>2. jobs'[p].step = "diff" /\ jobs'[p].head = c
    BY <1>1, <2>1 DEF JobRec
  <2>3. kind(p)' = kind(p)
    BY <1>1, <2>1, GoesOnSlots
  <2>4. store' = [store EXCEPT ![p] = store'[p]] /\ store'[p] = new
    BY <1>3, <1>8, Writing
  <2>5. Frame(p) /\ forge' = forge /\ past' = past
    BY <1>1, <1>3, <1>4, <1>5, <2>4 DEF Frame, Values
  <2>6. kind(p) \in KindsAt("diff")
    BY <1>2 DEF KindsAt, Reviews
  <2> HIDE DEF new
  <2>7. CoverInv(p)' /\ NewestInv(p)'
    BY <1>1, <1>3, <2>2, <2>4, <2>5 DEF CoverInv, NewestInv, Known, AfterDiff, AfterClone
  <2>8. OnceInv(p)'
    <3>1. past[p].started[c] \in Nat
      BY <1>1, <1>2 DEF PastType
    <3>2. past[p].started[c] = 0
      BY <1>1, <1>2, <1>8, <3>1 DEF OnceInv
    <3> QED BY <1>1, <1>3, <2>2, <2>4, <2>5, <3>2 DEF OnceInv
  <2>9. PostsInv(p)'
    <3>1. Posts(p)' = Posts(p)
      BY <1>1, <2>2, <2>5 DEF Posts, Posting
    <3> QED BY <1>1, <1>3, <1>8, <2>4, <3>1 DEF PostsInv, NoFault
  <2>10. SilenceInv(p)'
    BY <1>1, <1>2, <1>3, <1>8, <2>2, <2>3, <2>4, <2>5 DEF SilenceInv, NoFault
  <2> QED BY <1>1, <1>2, <2>1, <2>2, <2>5, <2>6, <2>7, <2>8, <2>9, <2>10, GoKeeps
<1> QED BY <1>6, <1>7, <1>8 DEF Mark, JobCommit

LEMMA DiffKeeps ==
  ASSUME Inv, NEW p \in Pulls, Diff(p)
  PROVE  Inv'
<1>1. /\ store[p] \in StoreRec /\ forge[p] \in ForgeRec /\ faults \in Nat /\ spent \in Nat
      /\ jobs \in [Pulls -> JobRec] /\ jobs[p] \in JobRec /\ jobs[p].step = "diff"
      /\ JobShape(p) /\ CoverInv(p) /\ OnceInv(p) /\ NewestInv(p) /\ SilenceInv(p)
  BY Here, Parts DEF Diff, At, Slots
<1>2. jobs[p].head \in Commits /\ kind(p) \in Reviews
  BY <1>1 DEF JobShape, KindsAt, HasHead, Reviews
<1>3. faults' \in Nat /\ faults <= faults'
  BY <1>1, Counting DEF Diff, FailsBy
<1>4. UNCHANGED <<forge, store, past, spent, unchecked, hours>>
  BY DEF Diff
<1>5. CASE Settle(p) \/ Fail(p)
  BY <1>1, <1>3, <1>4, <1>5, StillEnd
<1>6. ASSUME NEW s \in Scopes(p), UNCHANGED requests, NoFault,
             jobs' = [jobs EXCEPT ![p].scope = s, ![p].step = "allow"]
      PROVE  Inv'
  <2>1. s \in {1 .. forge[p].head, store[p].reviewed + 1 .. jobs[p].head}
    BY <1>6 DEF Scopes, LastReviewed
  <2>bounds. /\ forge[p].head \in 1 .. MaxHead /\ jobs[p].head \in 1 .. MaxHead
        /\ store[p].reviewed \in Nat /\ MaxHead \in Nat
    BY <1>1, <1>2, ReviewConstants DEF ForgeRec, StoreRec, Commits
  <2>2. s \subseteq Commits
    BY <2>1, <2>bounds DEF Commits
  <2>3. \A c \in Commits, d \in s : c <= d => c \in s \cup (1 .. store[p].reviewed)
    BY <2>1, <2>bounds DEF Commits
  <2>4. /\ jobs'[p] = [jobs[p] EXCEPT !.scope = s, !.step = "allow"]
        /\ jobs' = [jobs EXCEPT ![p] = jobs'[p]]
    BY <1>1, <1>6
  <2>5. /\ jobs'[p] \in JobRec /\ jobs'[p].request = jobs[p].request
        /\ jobs'[p].step = "allow" /\ jobs'[p].head = jobs[p].head /\ jobs'[p].scope = s
    <3>1. "allow" \in Steps
      BY DEF Steps
    <3> QED BY <1>1, <2>2, <2>4, <3>1 DEF JobRec
  <2>6. GoesOn(p)
    BY <1>6, <2>4, <2>5 DEF GoesOn
  <2>7. kind(p)' = kind(p) /\ kind(p) \in KindsAt("allow")
    BY <1>1, <1>2, <2>6, GoesOnSlots DEF KindsAt
  <2>8. CoverInv(p)'
    <3>1. /\ 1 .. store[p].reviewed \subseteq Known(p)
          /\ \A c \in Commits, d \in s : c <= d => c \in s \cup Known(p)
      BY <1>1, <2>3 DEF CoverInv
    <3>2. store'[p].reviewed = store[p].reviewed /\ Known(p)' = Known(p)
      BY <1>4 DEF Known
    <3> QED BY <2>5, <3>1, <3>2 DEF CoverInv
  <2>9. OnceInv(p)' /\ NewestInv(p)' /\ ~Posting(p)'
    BY <1>1, <1>4, <2>5, <2>7 DEF OnceInv, NewestInv, Posting, AfterClone
  <2>10. SilenceInv(p)'
    BY <1>1, <1>4, <1>6, <2>5, <2>7 DEF SilenceInv, NoFault
  <2> QED BY <1>1, <1>2, <1>3, <1>4, <2>5, <2>6, <2>7, <2>8, <2>9, <2>10, WalkKeeps
<1> QED BY <1>5, <1>6 DEF Diff, FailsBy

LEMMA AllowKeeps ==
  ASSUME Inv, NEW p \in Pulls, Allow(p)
  PROVE  Inv'
<1> DEFINE new == [store[p] EXCEPT !.posts = @ + 1]
<1>1. /\ store[p] \in StoreRec /\ forge[p] \in ForgeRec /\ past[p] \in PastType /\ faults \in Nat
      /\ Values /\ jobs[p] \in JobRec /\ jobs[p].step = "allow"
      /\ JobShape(p) /\ CoverInv(p) /\ OnceInv(p) /\ NewestInv(p) /\ PostsInv(p) /\ SilenceInv(p)
  BY Here, Parts DEF Allow, At
<1>2. /\ jobs[p].head \in Commits /\ kind(p) \in Reviews
      /\ kind(p) \in KindsAt("announce")
  BY <1>1 DEF JobShape, KindsAt, HasHead
<1>3. /\ new \in StoreRec /\ new.marked = store[p].marked
      /\ new.reviewed = store[p].reviewed /\ new.ignored = store[p].ignored
      /\ new.posts = store[p].posts + 1 /\ store[p].posts \in Nat
  BY <1>1 DEF StoreRec
<1>4. faults' \in Nat /\ faults <= faults'
  BY <1>1, Counting DEF Allow
<1>5. UNCHANGED <<forge, past, spent, unchecked, hours>> /\ (Write(p, new) \/ MaybeWrite(p, new))
  BY DEF Allow
<1>6. /\ store' = [store EXCEPT ![p] = store'[p]]
      /\ store'[p] \in StoreRec /\ store'[p] \in {store[p], new}
      /\ Write(p, new) => store'[p] = new
  BY <1>3, <1>5, Writing
<1> HIDE DEF new
<1>7. /\ store'[p].marked = store[p].marked /\ store'[p].reviewed = store[p].reviewed
      /\ store'[p].ignored = store[p].ignored
      /\ store'[p].posts \in Nat /\ store[p].posts <= store'[p].posts
  BY <1>3, <1>6
<1>8. CASE Settle(p)
  BY <1>1, <1>4, <1>5, <1>6, <1>7, <1>8, QuietEnd
<1>9. CASE /\ GoTo(p, "announce")
           /\ \/ Write(p, new) /\ Allowed(p) /\ NoFault
              \/ Fault("store")
  <2>1. GoesOn(p) /\ jobs'[p] = [jobs[p] EXCEPT !.step = "announce"]
    BY <1>9, Going DEF Steps
  <2>2. /\ jobs'[p].step = "announce" /\ jobs'[p].head = jobs[p].head
        /\ jobs'[p].scope = jobs[p].scope
    BY <1>1, <2>1 DEF JobRec
  <2>3. kind(p)' = kind(p)
    BY <1>1, <2>1, GoesOnSlots
  <2>4. Frame(p) /\ forge' = forge /\ past' = past
    BY <1>1, <1>4, <1>5, <1>6 DEF Frame, Values
  <2>5. CoverInv(p)'
    BY <1>1, <1>7, <2>2, <2>3, <2>4 DEF CoverInv, Known, AfterDiff
  <2>6. OnceInv(p)' /\ NewestInv(p)'
    BY <1>1, <1>7, <2>2, <2>3, <2>4 DEF OnceInv, NewestInv, AfterClone
  <2>7. PostsInv(p)'
    <3>1. /\ Posts(p) = past[p].written /\ Posts(p)' = past[p].written + 1
          /\ past[p].written \in Nat
      BY <1>1, <2>2, <2>4 DEF Posts, Posting, PastType
    <3>2. \/ store'[p].posts = store[p].posts + 1 /\ store[p].posts + 1 <= MaxPosts /\ faults' = faults
          \/ faults' = faults + 1
      BY <1>1, <1>3, <1>6, <1>9, Counting DEF Allowed
    <3> QED BY <1>1, <1>3, <1>7, <3>1, <3>2, ReviewConstants DEF PostsInv
  <2>8. SilenceInv(p)'
    BY <1>1, <1>4, <1>7, <2>2, <2>3, <2>4 DEF SilenceInv
  <2> QED BY <1>1, <1>2, <2>1, <2>2, <2>4, <2>5, <2>6, <2>7, <2>8, GoKeeps
<1> QED BY <1>8, <1>9 DEF Allow, new

LEMMA AnnounceKeeps ==
  ASSUME Inv, NEW p \in Pulls, Announce(p)
  PROVE  Inv'
<1> DEFINE h == jobs[p].head
           one == IF kind(p) = "auto" THEN 1 ELSE 0
           shown == [is |-> "reviewing", commit |-> h]
<1>1. /\ store[p] \in StoreRec /\ forge[p] \in ForgeRec /\ past[p] \in PastType /\ faults \in Nat
      /\ Values /\ jobs[p] \in JobRec /\ jobs[p].step = "announce"
      /\ JobShape(p) /\ CoverInv(p) /\ OnceInv(p) /\ NewestInv(p) /\ PostsInv(p) /\ SilenceInv(p)
  BY Here, Parts DEF Announce, At
<1>2. h \in Commits /\ kind(p) \in Reviews /\ kind(p) \in KindsAt("clone")
  BY <1>1 DEF JobShape, KindsAt, HasHead
<1>3. faults' \in Nat /\ faults <= faults'
  BY <1>1, Counting DEF Announce
<1>4. /\ past' = [past EXCEPT ![p] = past'[p]]
      /\ past'[p] = [past[p] EXCEPT !.started[h] = @ + one]
  BY <1>1 DEF Announce, Values
<1>5. /\ past'[p] \in PastType
      /\ past'[p].read = past[p].read /\ past'[p].slipped = past[p].slipped
      /\ past'[p].written = past[p].written /\ past'[p].newest = past[p].newest
      /\ past'[p].wish = past[p].wish
      /\ past'[p].started = [past[p].started EXCEPT ![h] = @ + one]
  BY <1>1, <1>2, <1>4 DEF PastType
<1>6. /\ forge' = [forge EXCEPT ![p] = forge'[p]]
      /\ forge'[p] \in ForgeRec /\ forge'[p].head = forge[p].head
      /\ forge'[p].summary \in {forge[p].summary, shown}
  <2>1. forge \in [Pulls -> ForgeRec] /\ shown \in Summaries
    BY <1>1, <1>2 DEF Values, Summaries, Commits
  <2>2. forge' = forge \/ forge' = [forge EXCEPT ![p].summary = shown]
    BY DEF Announce
  <2> QED BY <1>1, <2>1, <2>2 DEF ForgeRec
<1>7. GoesOn(p) /\ jobs'[p] = [jobs[p] EXCEPT !.step = "clone"]
  BY Going DEF Announce, Steps
<1>8. jobs'[p].step = "clone" /\ jobs'[p].head = h /\ jobs'[p].scope = jobs[p].scope
  BY <1>1, <1>7 DEF JobRec
<1>9. kind(p)' = kind(p)
  BY <1>1, <1>7, GoesOnSlots
<1>10. Frame(p) /\ store' = store
  BY <1>1, <1>3, <1>4, <1>5, <1>6 DEF Frame, Values, Announce
<1>11. CoverInv(p)'
  BY <1>1, <1>2, <1>5, <1>8, <1>9, <1>10 DEF CoverInv, Known, AfterDiff
<1>12. OnceInv(p)'
  <2>1. past[p].started \in [Commits -> Nat]
    BY <1>1 DEF PastType
  <2>2. kind(p) = "auto" => h \in store[p].marked /\ past[p].started[h] = 0
    BY <1>1 DEF OnceInv
  <2>3. ASSUME NEW c \in Commits
        PROVE  past'[p].started[c] <= 1 /\ (past'[p].started[c] > 0 => c \in store[p].marked)
    <3>1. past[p].started[c] <= 1 /\ (past[p].started[c] > 0 => c \in store[p].marked)
      BY <1>1 DEF OnceInv
    <3>2. past'[p].started[c] = IF c = h THEN past[p].started[c] + one ELSE past[p].started[c]
      BY <1>5, <2>1
    <3> QED BY <2>1, <2>2, <3>1, <3>2
  <2> QED BY <1>8, <1>10, <2>3 DEF OnceInv
<1>13. NewestInv(p)'
  BY <1>1, <1>5, <1>6, <1>8 DEF NewestInv, AfterClone
<1>14. PostsInv(p)'
  <2>1. Posts(p)' = Posts(p) /\ Posts(p) \in Nat
    BY <1>1, <1>2, <1>5, <1>8, <1>9 DEF Posts, Posting, PastType
  <2> QED BY <1>1, <1>3, <1>10, <2>1, ReviewConstants DEF PostsInv, StoreRec
<1>15. SilenceInv(p)'
  BY <1>1, <1>3, <1>5, <1>8, <1>9, <1>10 DEF SilenceInv
<1> QED BY <1>1, <1>2, <1>7, <1>8, <1>10, <1>11, <1>12, <1>13, <1>14, <1>15, GoKeeps

LEMMA CloneKeeps ==
  ASSUME Inv, NEW p \in Pulls, Clone(p)
  PROVE  Inv'
<1> DEFINE tree == forge[p].head
           behind == {c \in 1..tree : \A d \in jobs[p].scope : c > d}
<1>1. /\ store[p] \in StoreRec /\ forge[p] \in ForgeRec /\ past[p] \in PastType /\ faults \in Nat
      /\ Values /\ jobs \in [Pulls -> JobRec] /\ jobs[p] \in JobRec /\ jobs[p].step = "clone"
      /\ JobShape(p) /\ CoverInv(p) /\ OnceInv(p) /\ NewestInv(p) /\ PostsInv(p) /\ SilenceInv(p)
  BY Here, Parts DEF Clone, At, Slots
<1>2. /\ jobs[p].head \in Commits /\ tree \in Commits /\ tree \in 0..MaxHead
      /\ 1..tree \subseteq Commits /\ kind(p) \in KindsAt("agent")
  BY <1>1, ReviewConstants DEF JobShape, KindsAt, HasHead, ForgeRec, Commits
<1>3. faults' \in Nat /\ faults <= faults'
  BY <1>1, Counting DEF Clone, FailsBy
<1>4. UNCHANGED <<forge, store, spent, unchecked, hours>>
  BY DEF Clone
<1>5. CASE FailsBy(p, "forge") /\ UNCHANGED past
  BY <1>1, <1>3, <1>4, <1>5, StillEnd DEF FailsBy
<1>6. CASE /\ jobs' = [jobs EXCEPT ![p].tree = tree, ![p].step = "agent"]
           /\ past' = [past EXCEPT ![p].slipped = IF kind(p) \in Reviews THEN @ \cup behind ELSE @]
           /\ UNCHANGED requests
           /\ NoFault
  <2>1. /\ jobs'[p] = [jobs[p] EXCEPT !.tree = tree, !.step = "agent"]
        /\ jobs' = [jobs EXCEPT ![p] = jobs'[p]]
    BY <1>1, <1>6
  <2>2. /\ jobs'[p] \in JobRec /\ jobs'[p].request = jobs[p].request
        /\ jobs'[p].step = "agent" /\ jobs'[p].head = jobs[p].head
        /\ jobs'[p].scope = jobs[p].scope /\ jobs'[p].tree = tree
    <3>1. "agent" \in Steps
      BY DEF Steps
    <3> QED BY <1>1, <1>2, <2>1, <3>1 DEF JobRec
  <2>3. GoesOn(p)
    BY <1>6, <2>1, <2>2 DEF GoesOn
  <2>4. kind(p)' = kind(p)
    BY <1>1, <2>3, GoesOnSlots
  <2>5. /\ past' = [past EXCEPT ![p] = past'[p]]
        /\ past'[p] = [past[p] EXCEPT !.slipped = IF kind(p) \in Reviews THEN @ \cup behind ELSE @]
    BY <1>1, <1>6 DEF Values
  <2>6. behind \subseteq Commits
    BY <1>2
  <2>7. /\ past'[p] \in PastType /\ past'[p].read = past[p].read
        /\ past'[p].slipped = (IF kind(p) \in Reviews THEN past[p].slipped \cup behind ELSE past[p].slipped)
        /\ past'[p].started = past[p].started /\ past'[p].written = past[p].written
        /\ past'[p].newest = past[p].newest /\ past'[p].wish = past[p].wish
    BY <1>1, <2>5, <2>6 DEF PastType
  <2>8. Frame(p)
    BY <1>1, <1>3, <1>4, <2>5, <2>7 DEF Frame, Values
  <2>9. CoverInv(p)'
    <3>1. /\ Known(p) \subseteq Known(p)'
          /\ kind(p) \in Reviews => behind \subseteq Known(p)'
      BY <2>7 DEF Known
    <3>2. 1 .. store'[p].reviewed \subseteq Known(p)'
      BY <1>1, <1>4, <3>1 DEF CoverInv
    <3>3. ASSUME kind(p) \in Reviews, NEW c \in Commits, NEW d \in jobs[p].scope, c <= d
          PROVE  c \in jobs[p].scope \cup Known(p)'
      BY <1>1, <3>1, <3>3 DEF CoverInv, AfterDiff
    <3>4. ASSUME kind(p) \in Reviews, NEW c \in 1..tree
          PROVE  c \in jobs[p].scope \cup Known(p)'
      <4>1. CASE c \in behind
        BY <3>1, <3>4, <4>1
      <4>2. CASE \E d \in jobs[p].scope : ~(c > d)
        <5>1. PICK d \in jobs[p].scope : ~(c > d)
          BY <4>2
        <5>2. d \in Commits /\ c \in Commits /\ c <= d
          BY <1>1, <1>2, <5>1 DEF JobRec, Commits
        <5> QED BY <3>3, <3>4, <5>2
      <4> QED BY <4>1, <4>2
    <3> QED BY <2>2, <2>4, <3>2, <3>3, <3>4 DEF CoverInv
  <2>10. OnceInv(p)'
    BY <1>1, <1>4, <2>2, <2>7 DEF OnceInv
  <2>11. NewestInv(p)'
    BY <1>1, <1>4, <2>2, <2>7 DEF NewestInv, AfterClone, ForgeRec, PastType, Commits
  <2>12. PostsInv(p)'
    <3>1. Posts(p)' = Posts(p) /\ Posts(p) \in Nat
      BY <1>1, <2>2, <2>4, <2>7 DEF Posts, Posting, PastType
    <3> QED BY <1>1, <1>3, <1>4, <3>1, ReviewConstants DEF PostsInv, StoreRec
  <2>13. SilenceInv(p)'
    BY <1>1, <1>4, <1>6, <2>2, <2>4, <2>7 DEF SilenceInv, NoFault
  <2> QED BY <1>1, <1>2, <2>2, <2>3, <2>8, <2>9, <2>10, <2>11, <2>12, <2>13, GoKeeps
<1> QED BY <1>5, <1>6 DEF Clone, Tree

LEMMA AgentKeeps ==
  ASSUME Inv, NEW p \in Pulls, Agent(p)
  PROVE  Inv'
<1>1. /\ store[p] \in StoreRec /\ forge[p] \in ForgeRec /\ past[p] \in PastType /\ faults \in Nat
      /\ Values /\ jobs[p] \in JobRec /\ jobs[p].step = "agent"
      /\ JobShape(p) /\ CoverInv(p) /\ OnceInv(p) /\ NewestInv(p) /\ PostsInv(p) /\ SilenceInv(p)
  BY Here, Parts DEF Agent, At
<1>2. jobs[p].head \in Commits /\ kind(p) \in KindsAt("charge")
  BY <1>1 DEF JobShape, KindsAt, HasHead
<1>3. faults' \in Nat /\ faults <= faults'
  BY <1>1, Counting DEF Agent, FailsBy
<1>4. UNCHANGED <<forge, store, spent, unchecked, hours>>
  BY DEF Agent
<1>5. CASE FailsBy(p, "agent") /\ UNCHANGED past
  BY <1>1, <1>3, <1>4, <1>5, StillEnd DEF FailsBy
<1>6. CASE /\ GoTo(p, "charge")
           /\ past' = [past EXCEPT ![p].read = @ \cup jobs[p].scope]
           /\ NoFault
  <2>1. GoesOn(p) /\ jobs'[p] = [jobs[p] EXCEPT !.step = "charge"]
    BY <1>6, Going DEF Steps
  <2>2. /\ jobs'[p].step = "charge" /\ jobs'[p].head = jobs[p].head
        /\ jobs'[p].tree = jobs[p].tree
    BY <1>1, <2>1 DEF JobRec
  <2>3. kind(p)' = kind(p)
    BY <1>1, <2>1, GoesOnSlots
  <2>4. /\ past' = [past EXCEPT ![p] = past'[p]]
        /\ past'[p] = [past[p] EXCEPT !.read = @ \cup jobs[p].scope]
    BY <1>1, <1>6 DEF Values
  <2>5. /\ past'[p] \in PastType /\ past'[p].read = past[p].read \cup jobs[p].scope
        /\ past'[p].slipped = past[p].slipped /\ past'[p].started = past[p].started
        /\ past'[p].written = past[p].written
        /\ past'[p].newest = past[p].newest /\ past'[p].wish = past[p].wish
    BY <1>1, <2>4 DEF PastType, JobRec
  <2>6. Frame(p)
    BY <1>1, <1>3, <1>4, <2>4, <2>5 DEF Frame, Values
  <2>7. CoverInv(p)'
    <3>1. Known(p)' = Known(p) \cup jobs[p].scope
      BY <2>5 DEF Known
    <3> QED BY <1>1, <1>4, <2>2, <2>3, <3>1 DEF CoverInv, AfterDiff
  <2>8. OnceInv(p)' /\ NewestInv(p)'
    BY <1>1, <1>4, <2>2, <2>5 DEF OnceInv, NewestInv, AfterClone
  <2>9. PostsInv(p)'
    <3>1. Posts(p)' = Posts(p) /\ Posts(p) \in Nat
      BY <1>1, <2>2, <2>3, <2>5 DEF Posts, Posting, PastType
    <3> QED BY <1>1, <1>3, <1>4, <3>1, ReviewConstants DEF PostsInv, StoreRec
  <2>10. SilenceInv(p)'
    BY <1>1, <1>4, <1>6, <2>2, <2>3, <2>5 DEF SilenceInv, NoFault
  <2> QED BY <1>1, <1>2, <2>1, <2>2, <2>6, <2>7, <2>8, <2>9, <2>10, GoKeeps
<1> QED BY <1>5, <1>6 DEF Agent

LEMMA ChargeKeeps ==
  ASSUME Inv, NEW p \in Pulls, Charge(p)
  PROVE  Inv'
<1> DEFINE next == IF kind(p) = "question" THEN "reply" ELSE "record"
<1>1. /\ jobs[p] \in JobRec /\ faults \in Nat /\ spent \in Nat /\ jobs[p].step = "charge"
      /\ JobShape(p) /\ CoverInv(p) /\ OnceInv(p) /\ NewestInv(p) /\ SilenceInv(p)
  BY Here DEF Charge, At
<1>2. faults' \in Nat /\ faults <= faults'
  BY <1>1, Counting DEF Charge
<1>3. /\ kind(p) \in KindsAt(next) /\ next \in {"reply", "record"}
      /\ next = "record" => kind(p) \in Reviews
  BY <1>1 DEF JobShape, KindsAt, Reviews
<1>4. spent' \in Nat
  <2>1. \A c \in 0..MaxCost : spent + c \in Nat
    BY <1>1, ReviewConstants
  <2> QED BY <1>1, <2>1 DEF Charge
<1>5. GoesOn(p) /\ jobs'[p] = [jobs[p] EXCEPT !.step = next]
  BY <1>3, Going DEF Charge, Steps
<1> HIDE DEF next
<1>6. /\ jobs'[p].step = next /\ jobs'[p].head = jobs[p].head /\ jobs[p].head \in Commits
      /\ jobs'[p].tree = jobs[p].tree
  BY <1>1, <1>5 DEF JobRec, JobShape, HasHead
<1>7. kind(p)' = kind(p) /\ UNCHANGED <<forge, store, past, unchecked, hours>>
  BY <1>1, <1>5, GoesOnSlots DEF Charge
<1>8. CoverInv(p)' /\ OnceInv(p)' /\ NewestInv(p)' /\ (Posting(p)' => Posting(p))
  BY <1>1, <1>3, <1>6, <1>7
     DEF CoverInv, OnceInv, NewestInv, Posting, Known, AfterDiff, AfterClone
<1>9. SilenceInv(p)'
  BY <1>1, <1>2, <1>3, <1>6, <1>7 DEF SilenceInv
<1> QED BY <1>1, <1>2, <1>3, <1>4, <1>5, <1>6, <1>7, <1>8, <1>9, WalkKeeps

LEMMA RecordKeeps ==
  ASSUME Inv, NEW p \in Pulls, Record(p)
  PROVE  Inv'
<1> DEFINE new == [store[p] EXCEPT !.reviewed = jobs[p].tree]
<1>1. /\ store[p] \in StoreRec /\ forge[p] \in ForgeRec /\ past[p] \in PastType /\ faults \in Nat
      /\ Values /\ jobs[p] \in JobRec /\ jobs[p].step = "record"
      /\ JobShape(p) /\ CoverInv(p) /\ OnceInv(p) /\ NewestInv(p) /\ PostsInv(p) /\ SilenceInv(p)
  BY Here, Parts DEF Record, At
<1>2. /\ jobs[p].head \in Commits /\ kind(p) \in Reviews
      /\ kind(p) \in KindsAt("summary")
  BY <1>1 DEF JobShape, KindsAt, HasHead
<1>3. /\ new \in StoreRec /\ new.marked = store[p].marked
      /\ new.reviewed = jobs[p].tree /\ new.ignored = store[p].ignored
      /\ new.posts = store[p].posts
  BY <1>1 DEF StoreRec, JobRec
<1>4. faults' \in Nat /\ faults <= faults'
  BY <1>1, Counting DEF Record
<1>5. UNCHANGED <<forge, past, spent, unchecked, hours>> /\ (Write(p, new) \/ MaybeWrite(p, new))
  BY DEF Record
<1>6. /\ store' = [store EXCEPT ![p] = store'[p]]
      /\ store'[p] \in StoreRec /\ store'[p] \in {store[p], new}
  BY <1>3, <1>5, Writing
<1> HIDE DEF new
<1>7. /\ store'[p].marked = store[p].marked /\ store'[p].posts = store[p].posts
      /\ store'[p].ignored = store[p].ignored
      /\ store'[p].reviewed \in {store[p].reviewed, jobs[p].tree}
  BY <1>3, <1>6
<1>8. GoesOn(p) /\ jobs'[p] = [jobs[p] EXCEPT !.step = "summary"]
  BY Going DEF Record, Steps
<1>9. /\ jobs'[p].step = "summary" /\ jobs'[p].head = jobs[p].head
      /\ jobs'[p].tree = jobs[p].tree
  BY <1>1, <1>8 DEF JobRec
<1>10. kind(p)' = kind(p)
  BY <1>1, <1>8, GoesOnSlots
<1>11. Frame(p)
  BY <1>1, <1>4, <1>5, <1>6 DEF Frame, Values
<1>12. CoverInv(p)'
  <2>1. 1 .. store'[p].reviewed \subseteq Known(p)
    BY <1>1, <1>2, <1>7 DEF CoverInv
  <2> QED BY <1>5, <1>9, <2>1 DEF CoverInv, Known, AfterDiff
<1>13. OnceInv(p)' /\ NewestInv(p)'
  BY <1>1, <1>5, <1>7, <1>9 DEF OnceInv, NewestInv, AfterClone
<1>14. PostsInv(p)'
  <2>1. Posts(p)' = Posts(p) /\ Posts(p) \in Nat
    BY <1>1, <1>5, <1>9 DEF Posts, Posting, PastType
  <2> QED BY <1>1, <1>4, <1>7, <2>1, ReviewConstants DEF PostsInv, StoreRec
<1>15. SilenceInv(p)'
  BY <1>1, <1>4, <1>5, <1>7, <1>9, <1>10 DEF SilenceInv
<1> QED BY <1>1, <1>2, <1>8, <1>9, <1>11, <1>12, <1>13, <1>14, <1>15, GoKeeps

LEMMA SummaryKeeps ==
  ASSUME Inv, NEW p \in Pulls, Summary(p)
  PROVE  Inv'
<1> DEFINE c == jobs[p].tree
           result == [is |-> "result", commit |-> c]
           newest == IF past[p].newest < c THEN c ELSE past[p].newest
<1>1. /\ store[p] \in StoreRec /\ forge[p] \in ForgeRec /\ past[p] \in PastType /\ faults \in Nat
      /\ Values /\ jobs[p] \in JobRec /\ jobs[p].step = "summary"
      /\ JobShape(p) /\ CoverInv(p) /\ OnceInv(p) /\ NewestInv(p) /\ PostsInv(p) /\ SilenceInv(p)
  BY Here, Parts DEF Summary, At
<1>2. jobs[p].head \in Commits /\ kind(p) \in Reviews /\ kind(p) \in KindsAt("findings")
  BY <1>1 DEF JobShape, KindsAt, HasHead
<1>3. faults' \in Nat /\ faults <= faults'
  BY <1>1, Counting DEF Summary, FailsBy
<1>4. UNCHANGED <<store, spent, unchecked, hours>>
  BY DEF Summary
<1>5. CASE UNCHANGED <<forge, past>> /\ FailsBy(p, "forge")
  BY <1>1, <1>3, <1>4, <1>5, StillEnd DEF FailsBy
<1>6. CASE /\ forge' = [forge EXCEPT ![p].summary = result]
           /\ past' = [past EXCEPT ![p].written = @ + 1, ![p].newest = IF @ < c THEN c ELSE @]
           /\ (NoFault /\ (GoTo(p, "findings") \/ Settle(p))) \/ FailsBy(p, "forge")
  <2>1. /\ forge' = [forge EXCEPT ![p] = forge'[p]]
        /\ forge'[p] \in ForgeRec /\ forge'[p].head = forge[p].head
        /\ forge'[p].summary.is = "result" /\ forge'[p].summary.commit = c
    <3>1. result \in Summaries
      BY <1>1 DEF Summaries, JobRec
    <3>2. forge'[p] = [forge[p] EXCEPT !.summary = result] /\ forge' = [forge EXCEPT ![p] = forge'[p]]
      BY <1>1, <1>6 DEF Values
    <3> QED BY <1>1, <3>1, <3>2 DEF ForgeRec
  <2>2. /\ past' = [past EXCEPT ![p] = past'[p]]
        /\ past'[p] = [past[p] EXCEPT !.written = @ + 1, !.newest = IF @ < c THEN c ELSE @]
    BY <1>1, <1>6 DEF Values
  <2>3. newest = c
    BY <1>1 DEF NewestInv, AfterClone, PastType, JobRec
  <2>4. /\ past'[p] \in PastType /\ past'[p].read = past[p].read
        /\ past'[p].slipped = past[p].slipped /\ past'[p].started = past[p].started
        /\ past'[p].written = past[p].written + 1 /\ past'[p].newest = c
        /\ past'[p].wish = past[p].wish
    <3>1. past'[p] = [past[p] EXCEPT !.written = @ + 1, !.newest = c]
      BY <1>1, <2>2, <2>3
    <3>2. c \in 0..MaxHead
      BY <1>1 DEF JobRec
    <3>3. past[p] \in PastType /\ past[p].written + 1 \in Nat
      BY <1>1 DEF PastType
    <3> HIDE DEF c
    <3> QED BY <3>1, <3>2, <3>3 DEF PastType
  <2>5. Frame(p)
    BY <1>1, <1>3, <1>4, <2>1, <2>2, <2>4 DEF Frame, Values
  <2>6. Posts(p) = past[p].written + 1 /\ past[p].written \in Nat
    BY <1>1 DEF Posts, Posting, PastType
  <2>7. c <= forge[p].head
    BY <1>1 DEF NewestInv, AfterClone
  <2>8. CASE Settle(p) \/ Fail(p)
    <3>1. Ended(p) /\ jobs'[p] = Idle
      BY <1>1, <2>8, Ends, EndedSlots
    <3>2. NewestInv(p)'
      BY <2>1, <2>4, <2>7, <3>1, IdleIsJob DEF NewestInv, AfterClone
    <3>3. past'[p].wish = "out" /\ faults' = 0 => store'[p].ignored
      BY <1>1, <1>3, <1>4, <2>4 DEF SilenceInv
    <3> QED BY <1>1, <1>4, <2>4, <2>5, <2>6, <3>1, <3>2, <3>3, EndKeeps DEF StoreRec
  <2>9. CASE NoFault /\ GoTo(p, "findings")
    <3>1. GoesOn(p) /\ jobs'[p] = [jobs[p] EXCEPT !.step = "findings"]
      BY <2>9, Going DEF Steps
    <3>2. jobs'[p].step = "findings" /\ jobs'[p].head = jobs[p].head
      BY <1>1, <3>1 DEF JobRec
    <3>3. kind(p)' = kind(p)
      BY <1>1, <3>1, GoesOnSlots
    <3>4. CoverInv(p)' /\ OnceInv(p)'
      BY <1>1, <1>4, <2>4, <3>2 DEF CoverInv, OnceInv, Known, AfterDiff
    <3>5. NewestInv(p)'
      BY <2>1, <2>4, <2>7, <3>2 DEF NewestInv, AfterClone
    <3>6. PostsInv(p)'
      <4>1. Posts(p)' = Posts(p)
        BY <2>4, <2>6, <3>2 DEF Posts, Posting
      <4> QED BY <1>1, <1>4, <2>9, <4>1 DEF PostsInv, NoFault
    <3>7. SilenceInv(p)'
      BY <1>1, <1>4, <2>4, <2>9, <3>2, <3>3 DEF SilenceInv, NoFault
    <3> QED BY <1>1, <1>2, <2>5, <3>1, <3>2, <3>4, <3>5, <3>6, <3>7, GoKeeps
  <2> QED BY <1>6, <2>8, <2>9 DEF FailsBy
<1> QED BY <1>5, <1>6 DEF Summary

\* A command whose wish is heard: what was ignored, and what is.
LEMMA WishEnds ==
  ASSUME Inv, NEW p \in Pulls, NEW w \in Wishes, jobs[p].step \in {"ignore", "forget"},
         Settle(p) \/ Fail(p),
         UNCHANGED <<forge, spent, unchecked, hours>>, faults' \in Nat, faults <= faults',
         past' = [past EXCEPT ![p].wish = w],
         store' = [store EXCEPT ![p] = store'[p]], store'[p] \in StoreRec,
         store'[p].reviewed \in {0, store[p].reviewed},
         store'[p].marked = store[p].marked, store'[p].posts = store[p].posts,
         w = "out" /\ faults' = 0 => store'[p].ignored
  PROVE  Inv'
<1>1. /\ Values /\ forge[p] \in ForgeRec /\ past[p] \in PastType /\ faults \in Nat
      /\ store[p] \in StoreRec /\ NewestInv(p)
  BY Here, Parts
<1>2. Ended(p) /\ jobs[p].step # "idle"
  BY Ends
<1>3. jobs'[p] = Idle
  BY <1>2, EndedSlots
<1>4. /\ past' = [past EXCEPT ![p] = past'[p]]
      /\ past'[p] = [past[p] EXCEPT !.wish = w]
  BY <1>1 DEF Values
<1>5. /\ past'[p] \in PastType /\ past'[p].read = past[p].read
      /\ past'[p].slipped = past[p].slipped /\ past'[p].started = past[p].started
      /\ past'[p].written = past[p].written /\ past'[p].newest = past[p].newest
      /\ past'[p].wish = w
  BY <1>1, <1>4 DEF PastType, Wishes
<1>6. Frame(p)
  BY <1>1, <1>4, <1>5 DEF Frame, Values
<1>7. past'[p].written <= Posts(p)
  BY <1>1, <1>5 DEF Posts, PastType
<1>8. NewestInv(p)'
  BY <1>1, <1>3, <1>5, IdleIsJob DEF NewestInv, AfterClone
<1>9. store[p].posts <= store'[p].posts
  BY <1>1 DEF StoreRec
<1> QED BY <1>2, <1>5, <1>6, <1>7, <1>8, <1>9, EndKeeps

LEMMA IgnoreKeeps ==
  ASSUME Inv, NEW p \in Pulls, Ignore(p)
  PROVE  Inv'
<1> DEFINE new == [store[p] EXCEPT !.ignored = TRUE]
<1>1. /\ store[p] \in StoreRec /\ past[p] \in PastType /\ faults \in Nat
      /\ jobs[p].step = "ignore" /\ SilenceInv(p) /\ Values
  BY Here, Parts DEF Ignore, At
<1>2. /\ new \in StoreRec /\ new.marked = store[p].marked
      /\ new.reviewed = store[p].reviewed /\ new.ignored = TRUE
      /\ new.posts = store[p].posts
  BY <1>1 DEF StoreRec
<1>3. faults' \in Nat /\ faults <= faults'
  BY <1>1, Counting DEF Ignore, FailsBy
<1>4. UNCHANGED <<forge, spent, unchecked, hours>> /\ (Settle(p) \/ Fail(p))
  BY DEF Ignore, FailsBy
<1>5. CASE /\ Write(p, new) /\ past' = [past EXCEPT ![p].wish = "out"]
  <2>1. store' = [store EXCEPT ![p] = store'[p]] /\ store'[p] = new
    BY <1>2, <1>5, Writing
  <2>2. "out" \in Wishes
    BY DEF Wishes
  <2> HIDE DEF new
  <2> QED BY <1>1, <1>2, <1>3, <1>4, <1>5, <2>1, <2>2, WishEnds
<1>6. CASE MaybeWrite(p, new) /\ FailsBy(p, "store") /\ UNCHANGED past
  <2>1. /\ store' = [store EXCEPT ![p] = store'[p]]
        /\ store'[p] \in StoreRec /\ store'[p] \in {store[p], new}
    BY <1>2, <1>6, Writing
  <2>2. past' = [past EXCEPT ![p].wish = past[p].wish] /\ past[p].wish \in Wishes
    BY <1>1, <1>6 DEF PastType, Values, Wishes
  <2> HIDE DEF new
  <2>3. /\ store'[p].reviewed = store[p].reviewed /\ store'[p].marked = store[p].marked
        /\ store'[p].posts = store[p].posts
    BY <1>2, <2>1
  <2>4. faults' # 0
    BY <1>1, <1>6, Counting DEF FailsBy
  <2> QED BY <1>1, <1>3, <1>4, <2>1, <2>2, <2>3, <2>4, WishEnds
<1> QED BY <1>5, <1>6 DEF Ignore

LEMMA ForgetKeeps ==
  ASSUME Inv, NEW p \in Pulls, Forget(p)
  PROVE  Inv'
<1> DEFINE lifted == [store[p] EXCEPT !.ignored = FALSE]
           forgotten == [lifted EXCEPT !.reviewed = 0]
<1>1. /\ store[p] \in StoreRec /\ past[p] \in PastType /\ faults \in Nat
      /\ jobs[p].step = "forget"
  BY Here DEF Forget, At
<1>2. faults' \in Nat /\ faults <= faults'
  BY <1>1, Counting DEF Forget, FailsBy
<1>3. PICK s \in {store[p], lifted, forgotten} : Write(p, s)
  BY DEF Forget
<1>4. /\ s \in StoreRec /\ s.marked = store[p].marked /\ s.posts = store[p].posts
      /\ s.reviewed \in {0, store[p].reviewed}
  <2>1. lifted \in StoreRec
    BY <1>1 DEF StoreRec
  <2>2. 0 \in 0..MaxHead
    BY ReviewConstants
  <2>3. /\ lifted.marked = store[p].marked /\ lifted.posts = store[p].posts
        /\ lifted.reviewed = store[p].reviewed
    BY <1>1 DEF StoreRec
  <2> HIDE DEF lifted
  <2>4. /\ forgotten \in StoreRec /\ forgotten.marked = lifted.marked
        /\ forgotten.posts = lifted.posts /\ forgotten.reviewed = 0
    BY <2>1, <2>2 DEF StoreRec
  <2> HIDE DEF forgotten
  <2> QED BY <1>1, <1>3, <2>1, <2>3, <2>4
<1>5. store' = [store EXCEPT ![p] = store'[p]] /\ store'[p] = s
  BY <1>3, <1>4, Writing
<1>6. /\ UNCHANGED <<forge, spent, unchecked, hours>> /\ (Settle(p) \/ Fail(p))
      /\ past' = [past EXCEPT ![p].wish = "none"]
  BY DEF Forget, FailsBy
<1>7. "none" \in Wishes
  BY DEF Wishes
<1> QED BY <1>1, <1>2, <1>4, <1>5, <1>6, <1>7, WishEnds

-----------------------------------------------------------------------------
(* The world around the jobs.                                              *)

\* A request no job is about changes: the jobs do not notice.
LEMMA OtherRequest ==
  ASSUME Inv, NEW r \in Requests, NEW x \in RequestRec,
         requests[r].state # "running", x.state # "running", x.state # "none" => x.event \in Events,
         requests' = [requests EXCEPT ![r] = x], jobs' = jobs
  PROVE  /\ Slots'
         /\ \A q \in Pulls : JobShape(q)' /\ (jobs[q].step # "idle" => kind(q)' = kind(q))
<1>1. Slots /\ \A q \in Pulls : JobShape(q)
  BY Parts DEF PullInv
<1>2. /\ requests' \in [Requests -> RequestRec] /\ requests'[r] = x
      /\ \A o \in Requests \ {r} : requests'[o] = requests[o]
  BY <1>1 DEF Slots
<1>3. Slots'
  <2>1. ASSUME NEW o \in Requests, requests'[o].state = "running"
        PROVE  jobs[requests'[o].event.pull].request = o
    BY <1>1, <1>2, <2>1 DEF Slots
  <2>2. ASSUME NEW o \in Requests, requests'[o].state # "none"
        PROVE  requests'[o].event \in Events
    BY <1>1, <1>2, <2>2 DEF Slots
  <2> QED BY <1>1, <1>2, <2>1, <2>2 DEF Slots
<1>4. ASSUME NEW q \in Pulls
      PROVE  JobShape(q)' /\ (jobs[q].step # "idle" => kind(q)' = kind(q))
  <2>1. JobShape(q)
    BY <1>1
  <2>2. CASE jobs[q].step = "idle"
    BY <2>1, <2>2 DEF JobShape, current
  <2>3. CASE jobs[q].step # "idle"
    <3>1. current(q) \in Requests \ {r} /\ current(q)' = current(q)
      BY <2>1, <2>3 DEF JobShape, current
    <3>2. requests'[current(q)] = requests[current(q)]
      BY <1>2, <3>1
    <3> QED BY <2>1, <2>3, <3>1, <3>2 DEF JobShape, kind
  <2> QED BY <2>2, <2>3
<1> QED BY <1>3, <1>4

\* The forge alone changes, and no summary becomes a result.
LEMMA ForgeKeeps ==
  ASSUME Inv, Slots', forge' \in [Pulls -> ForgeRec],
         UNCHANGED <<store, spent, unchecked, jobs, hours, faults, past>>,
         \A q \in Pulls :
           /\ JobShape(q)' /\ (jobs[q].step # "idle" => kind(q)' = kind(q))
           /\ forge[q].head <= forge'[q].head
           /\ forge'[q].summary = forge[q].summary \/ forge'[q].summary.is # "result"
  PROVE  Inv'
<1>1. Values'
  BY Parts DEF Values
<1>2. ASSUME NEW q \in Pulls PROVE PullInv(q)'
  <2>1. /\ NewestInv(q) /\ forge[q] \in ForgeRec /\ past[q] \in PastType /\ faults \in Nat
        /\ jobs[q] \in JobRec
    BY Here
  <2>2. forge[q].head \in Nat /\ past[q].newest \in Nat /\ jobs[q].tree \in Nat
    BY <2>1 DEF ForgeRec, Commits, PastType, JobRec
  <2>3. forge'[q].head \in Nat
    BY DEF ForgeRec, Commits
  <2>4. forge[q].head <= forge'[q].head
    OBVIOUS
  <2>5. NewestInv(q)'
    BY <2>1, <2>2, <2>3, <2>4 DEF NewestInv
  <2>6. /\ store'[q] = store[q] /\ past'[q] = past[q] /\ jobs'[q] = jobs[q]
        /\ faults' \in Nat /\ faults <= faults'
    BY <2>1
  <2>7. JobShape(q)' /\ (jobs[q].step # "idle" => kind(q)' = kind(q))
    OBVIOUS
  <2> QED BY <2>5, <2>6, <2>7, Rests
<1> QED BY <1>1, <1>2, PartsNext

LEMMA PushKeeps ==
  ASSUME Inv, NEW p \in Pulls, Push(p)
  PROVE  Inv'
<1>1. /\ forge \in [Pulls -> ForgeRec] /\ Slots /\ \A q \in Pulls : JobShape(q)
  BY Parts DEF Values, PullInv
<1>2. Slots' /\ \A q \in Pulls : JobShape(q)' /\ kind(q)' = kind(q)
  BY <1>1 DEF Push, Slots, JobShape, current, kind
<1>3. forge[p].head + 1 \in Commits
  BY <1>1, ReviewConstants DEF Push, ForgeRec, Commits
<1>4. forge' \in [Pulls -> ForgeRec]
  BY <1>1, <1>3 DEF Push, ForgeRec
<1>5. \A q \in Pulls : forge[q].head <= forge'[q].head /\ forge'[q].summary = forge[q].summary
  BY <1>1 DEF Push, ForgeRec, Commits
<1> QED BY <1>2, <1>4, <1>5, ForgeKeeps DEF Push

LEMMA AskKeeps ==
  ASSUME Inv, NEW r \in Requests, NEW p \in Pulls, NEW k \in Kinds, Ask(r, p, k)
  PROVE  Inv'
<1> DEFINE e == [pull |-> p, kind |-> k, head |-> forge[p].head]
           x == [state |-> "waiting", tries |-> 0, event |-> e]
<1>1. forge \in [Pulls -> ForgeRec] /\ Slots
  BY Parts DEF Values
<1>2. e \in Events /\ x \in RequestRec
  BY <1>1, ReviewConstants DEF Events, ForgeRec, RequestRec
<1>3. requests' = [requests EXCEPT ![r] = x] /\ jobs' = jobs
  BY DEF Ask
<1>4. requests[r].state = "none" /\ x.state = "waiting" /\ x.event = e
  BY DEF Ask
<1> HIDE DEF x, e
<1>5. /\ Slots'
      /\ \A q \in Pulls : JobShape(q)' /\ (jobs[q].step # "idle" => kind(q)' = kind(q))
  BY <1>2, <1>3, <1>4, OtherRequest
<1>6. /\ forge' \in [Pulls -> ForgeRec]
      /\ \A q \in Pulls : forge'[q].head = forge[q].head /\ forge'[q].summary = forge[q].summary
  <2>1. \/ forge' = forge
        \/ \E s \in {"closed", "merged"} : forge' = [forge EXCEPT ![p].state = s]
    BY DEF Ask
  <2> QED BY <1>1, <2>1 DEF ForgeRec
<1>7. \A q \in Pulls : forge[q].head <= forge'[q].head
  BY <1>1, <1>6 DEF ForgeRec, Commits
<1> QED BY <1>5, <1>6, <1>7, ForgeKeeps DEF Ask

LEMMA DeadLetterKeeps ==
  ASSUME Inv, NEW r \in Requests, DeadLetter(r)
  PROVE  Inv'
<1> DEFINE x == [requests[r] EXCEPT !.state = "dead"]
<1>1. forge \in [Pulls -> ForgeRec] /\ Slots
  BY Parts DEF Values
<1>2. x \in RequestRec /\ x.state = "dead" /\ x.event \in Events
  BY <1>1 DEF Slots, RequestRec, DeadLetter
<1>3. requests' = [requests EXCEPT ![r] = x] /\ jobs' = jobs /\ requests[r].state # "running"
  BY <1>1 DEF DeadLetter, Slots
<1> HIDE DEF x
<1>4. /\ Slots'
      /\ \A q \in Pulls : JobShape(q)' /\ (jobs[q].step # "idle" => kind(q)' = kind(q))
  BY <1>2, <1>3, OtherRequest
<1>5. \A q \in Pulls : forge[q].head <= forge'[q].head /\ forge'[q] = forge[q]
  BY <1>1 DEF DeadLetter, ForgeRec, Commits
<1> QED BY <1>1, <1>4, <1>5, ForgeKeeps DEF DeadLetter

LEMMA GiveUpKeeps ==
  ASSUME Inv, NEW r \in Requests, GiveUp(r)
  PROVE  Inv'
<1> DEFINE p == requests[r].event.pull
           told == [is |-> "failed", commit |-> 0]
<1>1. forge \in [Pulls -> ForgeRec] /\ Slots
  BY Parts DEF Values
<1>2. PICK s \in {"settled", "waiting"} : requests' = [requests EXCEPT ![r].state = s]
  BY DEF GiveUp
<1> DEFINE x == [requests[r] EXCEPT !.state = s]
<1>3. x \in RequestRec /\ x.state = s /\ x.event \in Events
  BY <1>1 DEF Slots, RequestRec, GiveUp
<1>4. requests' = [requests EXCEPT ![r] = x] /\ jobs' = jobs /\ requests[r].state # "running"
  BY <1>1, <1>2 DEF GiveUp, Slots
<1> HIDE DEF x
<1>5. /\ Slots'
      /\ \A q \in Pulls : JobShape(q)' /\ (jobs[q].step # "idle" => kind(q)' = kind(q))
  BY <1>3, <1>4, OtherRequest
<1>6. told \in Summaries /\ told.is # "result"
  BY ReviewConstants DEF Summaries
<1>7. forge' = forge \/ forge' = [forge EXCEPT ![p].summary = told]
  BY DEF GiveUp
<1> HIDE DEF told
<1>8. /\ forge' \in [Pulls -> ForgeRec]
      /\ \A q \in Pulls :
           /\ forge'[q].head = forge[q].head
           /\ forge'[q].summary = forge[q].summary \/ forge'[q].summary.is # "result"
  BY <1>1, <1>6, <1>7 DEF ForgeRec
<1>9. \A q \in Pulls : forge[q].head <= forge'[q].head
  BY <1>1, <1>8 DEF ForgeRec, Commits
<1> QED BY <1>5, <1>8, <1>9, ForgeKeeps DEF GiveUp

LEMMA BeginKeeps ==
  ASSUME Inv, NEW r \in Requests, Begin(r)
  PROVE  Inv'
<1>1. Slots /\ Values /\ \A q \in Pulls : JobShape(q)
  BY Parts DEF PullInv
<1>event. PICK e \in Events : requests[r].event = e
  BY <1>1 DEF Slots, Begin
<1>pull. PICK p \in Pulls : e.pull = p
  BY DEF Events
<1> DEFINE first == FirstStep(e.kind)
           job == [Idle EXCEPT !.request = r, !.step = first]
           x == [requests[r] EXCEPT !.state = "running", !.tries = @ + 1]
<1>2. /\ e \in Events /\ p \in Pulls /\ e.kind \in AllKinds /\ e.pull = p
      /\ requests[r] \in RequestRec /\ requests[r].state = "waiting" /\ requests[r].event = e
  BY <1>1, <1>event, <1>pull, ReviewConstants DEF Slots, Begin, Events
<1>3. /\ first \in {"lift", "look", "ignore", "forget"} /\ e.kind \in KindsAt(first)
      /\ first = "lift" <=> e.kind \in {"review", "full"}
      /\ e.kind = "auto" => first = "look"
  BY <1>2 DEF FirstStep, KindsAt, Reviews, AllKinds
<1>4. /\ jobs' = [jobs EXCEPT ![p] = job] /\ requests' = [requests EXCEPT ![r] = x]
      /\ jobs[p].step = "idle"
      /\ past' = [past EXCEPT ![p].wish = IF e.kind \in {"review", "full"} THEN "none" ELSE @]
      /\ UNCHANGED <<forge, store, spent, unchecked, hours, faults>>
  <2>1. requests' = [requests EXCEPT ![r].state = "running", ![r].tries = @ + 1]
    BY DEF Begin
  <2>2. requests' = [requests EXCEPT ![r] = x]
    BY <1>1, <2>1 DEF Slots
  <2> QED BY <1>2, <2>2 DEF Begin, At
<1> HIDE DEF first
<1>5. /\ job \in JobRec /\ job.request = r /\ job.step = first
  <2>1. first \in Steps /\ r \in 0..MaxRequests
    BY <1>3, ReviewConstants DEF Steps, Requests
  <2> QED BY <2>1, IdleIsJob DEF JobRec
<1>6. /\ x \in RequestRec /\ x.state = "running" /\ x.event = e
  <2>1. requests[r].tries \in Nat /\ requests[r].tries + 1 \in Nat
    BY <1>2 DEF RequestRec
  <2> QED BY <1>2, <2>1 DEF RequestRec
<1>free. jobs[p].request = 0
  BY <1>1, <1>2, <1>4 DEF JobShape, current
<1> HIDE DEF job, x
<1>7. /\ jobs' \in [Pulls -> JobRec] /\ jobs'[p] = job
      /\ \A q \in Pulls \ {p} : jobs'[q] = jobs[q]
      /\ requests' \in [Requests -> RequestRec] /\ requests'[r] = x
      /\ \A o \in Requests \ {r} : requests'[o] = requests[o]
  BY <1>1, <1>2, <1>4, <1>5, <1>6 DEF Slots
<1>8. Slots'
  <2>1. ASSUME NEW o \in Requests, requests'[o].state = "running"
        PROVE  jobs'[requests'[o].event.pull].request = o
    <3>1. CASE o = r
      BY <1>2, <1>5, <1>6, <1>7, <3>1
    <3>2. CASE o # r
      <4>1. requests[o].event \in Events /\ jobs[requests[o].event.pull].request = o
        BY <1>1, <1>7, <2>1, <3>2 DEF Slots
      <4>2. requests[o].event.pull # p /\ requests[o].event.pull \in Pulls
        BY <1>free, <4>1 DEF Requests, Events
      <4> QED BY <1>7, <3>2, <4>1, <4>2
    <3> QED BY <3>1, <3>2
  <2>2. ASSUME NEW o \in Requests, requests'[o].state # "none"
        PROVE  requests'[o].event \in Events
    BY <1>1, <1>2, <1>6, <1>7, <2>2 DEF Slots
  <2> QED BY <1>7, <2>1, <2>2 DEF Slots
<1>9. /\ past' = [past EXCEPT ![p] = past'[p]]
      /\ past'[p] = [past[p] EXCEPT !.wish = IF e.kind \in {"review", "full"} THEN "none" ELSE @]
      /\ past[p] \in PastType
  BY <1>1, <1>2, <1>4 DEF Values
<1>10. /\ past'[p] \in PastType /\ past'[p].read = past[p].read
       /\ past'[p].slipped = past[p].slipped /\ past'[p].started = past[p].started
       /\ past'[p].written = past[p].written /\ past'[p].newest = past[p].newest
       /\ past'[p].wish = IF e.kind \in {"review", "full"} THEN "none" ELSE past[p].wish
  <2>1. ASSUME NEW w \in Wishes
        PROVE  /\ [past[p] EXCEPT !.wish = w] \in PastType
               /\ [past[p] EXCEPT !.wish = w].wish = w
    BY <1>9 DEF PastType, Wishes
  <2> QED BY <1>9, <2>1 DEF PastType, Wishes
<1>11. Values' /\ \A q \in Pulls \ {p} : past'[q] = past[q]
  BY <1>1, <1>4, <1>9, <1>10 DEF Values
<1>12. ASSUME NEW q \in Pulls \ {p} PROVE PullInv(q)'
  <2>1. JobShape(q)' /\ (jobs[q].step # "idle" => kind(q)' = kind(q))
    <3>1. CASE jobs[q].step = "idle"
      BY <1>1, <1>7, <3>1 DEF JobShape, current
    <3>2. CASE jobs[q].step # "idle"
      <4>1. current(q) \in Requests \ {r} /\ current(q)' = current(q)
        BY <1>1, <1>2, <1>7, <3>2 DEF JobShape, current
      <4> QED BY <1>1, <1>7, <3>2, <4>1 DEF JobShape, kind
    <3> QED BY <3>1, <3>2
  <2>2. faults \in Nat
    BY Here
  <2> QED BY <1>4, <1>7, <1>11, <2>1, <2>2, Elsewhere
<1>13. PullInv(p)'
  <2>1. /\ store[p] \in StoreRec /\ faults \in Nat /\ past[p] \in PastType
        /\ CoverInv(p) /\ OnceInv(p) /\ NewestInv(p) /\ PostsInv(p) /\ SilenceInv(p)
    BY <1>2, Here
  <2>2. jobs'[p].step = first /\ current(p)' = r /\ kind(p)' = e.kind
    BY <1>5, <1>6, <1>7 DEF current, kind
  <2>3. JobShape(p)'
    BY <1>2, <1>3, <1>6, <1>7, <2>2 DEF JobShape, HasHead
  <2>4. CoverInv(p)' /\ OnceInv(p)' /\ NewestInv(p)'
    BY <1>3, <1>4, <1>10, <2>1, <2>2 DEF CoverInv, OnceInv, NewestInv, Known, AfterDiff, AfterClone
  <2>5. PostsInv(p)'
    <3>1. Posts(p)' = Posts(p)
      BY <1>3, <1>4, <1>10, <2>2 DEF Posts, Posting
    <3> QED BY <1>4, <2>1, <3>1 DEF PostsInv
  <2>6. SilenceInv(p)'
    BY <1>3, <1>4, <1>10, <2>1, <2>2 DEF SilenceInv
  <2> QED BY <2>3, <2>4, <2>5, <2>6 DEF PullInv
<1> QED BY <1>8, <1>11, <1>12, <1>13, PartsNext

LEMMA NewHourKeeps ==
  ASSUME Inv, NewHour
  PROVE  Inv'
<1>1. Slots /\ Values /\ \A q \in Pulls : JobShape(q)
  BY Parts DEF PullInv
<1>2. UNCHANGED <<requests, forge, spent, unchecked, jobs, faults>> /\ hours' \in Nat
  BY <1>1 DEF NewHour, Values
<1>3. Slots' /\ \A q \in Pulls : JobShape(q)' /\ kind(q)' = kind(q)
  BY <1>1, <1>2 DEF Slots, JobShape, current, kind
<1>4. ASSUME NEW q \in Pulls
      PROVE  /\ store'[q] \in StoreRec /\ store'[q].marked = store[q].marked
             /\ store'[q].reviewed = store[q].reviewed /\ store'[q].ignored = store[q].ignored
             /\ store'[q].posts = 0
             /\ past'[q] \in PastType /\ past'[q].read = past[q].read
             /\ past'[q].slipped = past[q].slipped /\ past'[q].started = past[q].started
             /\ past'[q].newest = past[q].newest /\ past'[q].wish = past[q].wish
             /\ past'[q].written = 0
  <2>1. store[q] \in StoreRec /\ past[q] \in PastType
    BY Here
  <2>2. store'[q] = [store[q] EXCEPT !.posts = 0] /\ past'[q] = [past[q] EXCEPT !.written = 0]
    BY DEF NewHour
  <2>3. /\ store'[q] \in StoreRec /\ store'[q].marked = store[q].marked
        /\ store'[q].reviewed = store[q].reviewed /\ store'[q].ignored = store[q].ignored
        /\ store'[q].posts = 0
    BY <2>1, <2>2 DEF StoreRec
  <2>4. /\ past'[q] \in PastType /\ past'[q].read = past[q].read
        /\ past'[q].slipped = past[q].slipped /\ past'[q].started = past[q].started
        /\ past'[q].newest = past[q].newest /\ past'[q].wish = past[q].wish
        /\ past'[q].written = 0
    BY <2>1, <2>2 DEF PastType
  <2> QED BY <2>3, <2>4
<1>5. Values'
  <2>1. store' = [q \in Pulls |-> store'[q]] /\ past' = [q \in Pulls |-> past'[q]]
    BY DEF NewHour
  <2> QED BY <1>1, <1>2, <1>4, <2>1 DEF Values
<1>6. ASSUME NEW q \in Pulls PROVE PullInv(q)'
  <2>1. /\ past[q] \in PastType /\ faults \in Nat
        /\ CoverInv(q) /\ OnceInv(q) /\ NewestInv(q) /\ SilenceInv(q)
    BY Here
  <2>2. CoverInv(q)' /\ OnceInv(q)'
    BY <1>2, <1>3, <1>4, <2>1 DEF CoverInv, OnceInv, Known
  <2>3. NewestInv(q)' /\ SilenceInv(q)'
    BY <1>2, <1>3, <1>4, <2>1 DEF NewestInv, SilenceInv
  <2>4. PostsInv(q)'
    <3>1. Posts(q)' <= 1 /\ Posts(q)' \in Nat
      BY <1>4 DEF Posts
    <3> QED BY <1>2, <1>4, <2>1, <3>1, ReviewConstants DEF PostsInv
  <2> QED BY <1>3, <2>2, <2>3, <2>4 DEF PullInv
<1> QED BY <1>3, <1>5, <1>6, PartsNext

\* A key of the store runs out of time: no job notices.
LEMMA LossKeeps ==
  ASSUME Inv, NEW p \in Pulls, UNCHANGED <<requests, forge, spent, unchecked, jobs, hours, faults>>,
         store' = [store EXCEPT ![p] = store'[p]], store'[p] \in StoreRec,
         past' = [past EXCEPT ![p] = past'[p]], past'[p] \in PastType,
         store'[p].reviewed \in {0, store[p].reviewed}, store'[p].posts = store[p].posts,
         past'[p].read = past[p].read, past'[p].slipped = past[p].slipped,
         past'[p].written = past[p].written, past'[p].newest = past[p].newest,
         OnceInv(p)', SilenceInv(p)'
  PROVE  Inv'
<1>1. Slots /\ Values /\ \A q \in Pulls : JobShape(q)
  BY Parts DEF PullInv
<1>2. Slots' /\ \A q \in Pulls : JobShape(q)' /\ kind(q)' = kind(q)
  BY <1>1 DEF Slots, JobShape, current, kind
<1>3. Values' /\ \A q \in Pulls \ {p} : store'[q] = store[q] /\ past'[q] = past[q]
  BY <1>1 DEF Values
<1>4. ASSUME NEW q \in Pulls \ {p} PROVE PullInv(q)'
  <2>1. faults \in Nat /\ faults' = faults
    BY Here
  <2> QED BY <1>2, <1>3, <2>1, Elsewhere
<1>5. PullInv(p)'
  <2>1. /\ store[p] \in StoreRec /\ past[p] \in PastType /\ faults \in Nat
        /\ CoverInv(p) /\ NewestInv(p) /\ PostsInv(p)
    BY Here
  <2>2. CoverInv(p)'
    <3>1. 1 .. store'[p].reviewed \subseteq 1 .. store[p].reviewed /\ Known(p)' = Known(p)
      BY <2>1 DEF Known, StoreRec
    <3> QED BY <1>2, <2>1, <3>1 DEF CoverInv
  <2>3. NewestInv(p)'
    BY <2>1 DEF NewestInv
  <2>4. PostsInv(p)'
    <3>1. Posts(p)' = Posts(p)
      BY <1>2 DEF Posts, Posting
    <3> QED BY <2>1, <3>1 DEF PostsInv
  <2> QED BY <1>2, <2>2, <2>3, <2>4 DEF PullInv
<1> QED BY <1>2, <1>3, <1>4, <1>5, PartsNext

LEMMA IgnoreExpiresKeeps ==
  ASSUME Inv, NEW p \in Pulls, IgnoreExpires(p)
  PROVE  Inv'
<1>1. /\ store[p] \in StoreRec /\ past[p] \in PastType /\ Values
      /\ OnceInv(p) /\ SilenceInv(p)
  BY Here, Parts
<1>2. /\ past'[p] = [past[p] EXCEPT !.wish = "none"] /\ past' = [past EXCEPT ![p] = past'[p]]
      /\ store'[p] = [store[p] EXCEPT !.ignored = FALSE] /\ store' = [store EXCEPT ![p] = store'[p]]
  BY <1>1 DEF IgnoreExpires, Values
<1>3. /\ store'[p] \in StoreRec /\ store'[p].marked = store[p].marked
      /\ store'[p].reviewed = store[p].reviewed /\ store'[p].posts = store[p].posts
  BY <1>1, <1>2 DEF StoreRec
<1>4. /\ past'[p] \in PastType /\ past'[p].wish = "none" /\ past'[p].started = past[p].started
      /\ past'[p].read = past[p].read /\ past'[p].slipped = past[p].slipped
      /\ past'[p].written = past[p].written /\ past'[p].newest = past[p].newest
  BY <1>1, <1>2 DEF PastType
<1>5. UNCHANGED <<requests, forge, spent, unchecked, jobs, hours, faults>>
  BY DEF IgnoreExpires
<1>6. OnceInv(p)'
  BY <1>1, <1>3, <1>4, <1>5 DEF OnceInv, kind, current
<1>7. SilenceInv(p)'
  BY <1>4 DEF SilenceInv
<1> QED BY <1>2, <1>3, <1>4, <1>5, <1>6, <1>7, LossKeeps

LEMMA ReviewedExpiresKeeps ==
  ASSUME Inv, NEW p \in Pulls, ReviewedExpires(p)
  PROVE  Inv'
<1>1. /\ store[p] \in StoreRec /\ past[p] \in PastType /\ Values
      /\ OnceInv(p) /\ SilenceInv(p)
  BY Here, Parts
<1>2. /\ past' = past /\ past' = [past EXCEPT ![p] = past'[p]]
      /\ store'[p] = [store[p] EXCEPT !.reviewed = 0] /\ store' = [store EXCEPT ![p] = store'[p]]
  BY <1>1 DEF ReviewedExpires, Values
<1>3. /\ store'[p] \in StoreRec /\ store'[p].marked = store[p].marked
      /\ store'[p].reviewed = 0 /\ store'[p].posts = store[p].posts
      /\ store'[p].ignored = store[p].ignored
  <2>1. 0 \in 0..MaxHead
    BY ReviewConstants
  <2> QED BY <1>1, <1>2, <2>1 DEF StoreRec
<1>4. UNCHANGED <<requests, forge, spent, unchecked, jobs, hours, faults>>
  BY DEF ReviewedExpires
<1>5. OnceInv(p)' /\ SilenceInv(p)'
  BY <1>1, <1>2, <1>3, <1>4 DEF OnceInv, SilenceInv, kind, current
<1> QED BY <1>1, <1>2, <1>3, <1>4, <1>5, LossKeeps

LEMMA JobKeyExpiresKeeps ==
  ASSUME Inv, NEW p \in Pulls, NEW c \in Commits, JobKeyExpires(p, c)
  PROVE  Inv'
<1> DEFINE begun == [past[p].started EXCEPT ![c] = 0]
<1>1. /\ store[p] \in StoreRec /\ past[p] \in PastType /\ Values
      /\ OnceInv(p) /\ SilenceInv(p)
  BY Here, Parts
<1>2. begun \in [Commits -> Nat]
  BY <1>1 DEF PastType
<1>3. /\ past'[p] = [past[p] EXCEPT !.started = begun] /\ past' = [past EXCEPT ![p] = past'[p]]
      /\ store'[p] = [store[p] EXCEPT !.marked = @ \ {c}] /\ store' = [store EXCEPT ![p] = store'[p]]
  BY <1>1 DEF JobKeyExpires, Values
<1>4. begun[c] = 0 /\ \A d \in Commits \ {c} : begun[d] = past[p].started[d]
  BY <1>1 DEF PastType
<1> HIDE DEF begun
<1>5. /\ store'[p] \in StoreRec /\ store'[p].marked = store[p].marked \ {c}
      /\ store'[p].reviewed = store[p].reviewed /\ store'[p].posts = store[p].posts
      /\ store'[p].ignored = store[p].ignored
  BY <1>1, <1>3 DEF StoreRec
<1>6. /\ past'[p] \in PastType /\ past'[p].wish = past[p].wish /\ past'[p].started = begun
      /\ past'[p].read = past[p].read /\ past'[p].slipped = past[p].slipped
      /\ past'[p].written = past[p].written /\ past'[p].newest = past[p].newest
  BY <1>1, <1>2, <1>3 DEF PastType
<1>7. /\ UNCHANGED <<requests, forge, spent, unchecked, jobs, hours, faults>>
      /\ jobs[p].step = "idle"
  BY DEF JobKeyExpires, At
<1>8. OnceInv(p)'
  BY <1>1, <1>4, <1>5, <1>6, <1>7 DEF OnceInv
<1>9. SilenceInv(p)'
  BY <1>1, <1>5, <1>6, <1>7 DEF SilenceInv
<1> QED BY <1>1, <1>3, <1>5, <1>6, <1>7, <1>8, <1>9, LossKeeps

LEMMA IssueRunKeeps ==
  ASSUME Inv, IssueRun
  PROVE  Inv'
<1>1. Slots /\ Values /\ \A p \in Pulls : JobShape(p)
  BY Parts DEF PullInv
<1>2. UNCHANGED <<requests, forge, store, jobs, hours, faults, past>>
  BY DEF IssueRun
<1>3. spent' \in Nat /\ unchecked' \in Nat
  BY <1>1, ReviewConstants DEF IssueRun, Values
<1>4. Slots' /\ Values' /\ \A p \in Pulls : JobShape(p)' /\ kind(p)' = kind(p)
  BY <1>1, <1>2, <1>3 DEF Slots, Values, JobShape, current, kind
<1>5. ASSUME NEW p \in Pulls PROVE PullInv(p)'
  <2>1. faults \in Nat /\ faults' = faults
    BY <1>2, Here
  <2> QED BY <1>2, <1>4, <2>1, Elsewhere
<1> QED BY <1>4, <1>5, PartsNext

-----------------------------------------------------------------------------
(* The invariant, and what follows from it.                                *)

LEMMA InitInv == Init => Inv
<1> SUFFICES ASSUME Init PROVE Inv
  OBVIOUS
<1> DEFINE new == [is |-> "none", commit |-> 0]
           begun == [c \in Commits |-> 0]
<1>1. /\ MaxHead \in Nat /\ 0 \in 0..MaxHead /\ 1 \in Commits /\ 0 \in 0..MaxRequests
  BY ReviewConstants DEF Commits
<1>2. new \in Summaries /\ new.is = "none" /\ begun \in [Commits -> Nat]
  BY <1>1 DEF Summaries
<1> HIDE DEF new, begun
<1>3. Slots
  <2>1. requests \in [Requests -> RequestRec] /\ \A r \in Requests : requests[r].state = "none"
    BY DEF Init, RequestRec
  <2>2. jobs \in [Pulls -> JobRec]
    BY IdleIsJob DEF Init
  <2> QED BY <2>1, <2>2 DEF Slots
<1>4. ASSUME NEW p \in Pulls
      PROVE  /\ forge[p] \in ForgeRec /\ store[p] \in StoreRec /\ past[p] \in PastType
             /\ forge[p].head = 1 /\ forge[p].summary.is = "none"
             /\ store[p].reviewed = 0 /\ store[p].posts = 0
             /\ past[p].started = begun /\ past[p].written = 0
             /\ past[p].newest = 0 /\ past[p].wish # "out"
  <2>1. forge[p] = [head |-> 1, state |-> "open", summary |-> new]
    BY DEF Init, new
  <2>2. store[p] = [marked |-> {}, reviewed |-> 0, ignored |-> FALSE, posts |-> 0]
    BY DEF Init
  <2>3. past[p] = [read |-> {}, slipped |-> {}, started |-> begun,
                   written |-> 0, newest |-> 0, wish |-> "none"]
    BY DEF Init, begun
  <2>4. forge[p] \in ForgeRec /\ forge[p].head = 1 /\ forge[p].summary.is = "none"
    BY <1>1, <1>2, <2>1 DEF ForgeRec
  <2>5. store[p] \in StoreRec /\ store[p].reviewed = 0 /\ store[p].posts = 0
    BY <1>1, <2>2 DEF StoreRec
  <2>6. /\ past[p] \in PastType /\ past[p].started = begun /\ past[p].written = 0
        /\ past[p].newest = 0 /\ past[p].wish # "out"
    BY <1>1, <1>2, <2>3 DEF PastType
  <2> QED BY <2>4, <2>5, <2>6
<1>5. Values
  <2>1. /\ forge = [p \in Pulls |-> forge[p]] /\ store = [p \in Pulls |-> store[p]]
        /\ past = [p \in Pulls |-> past[p]] /\ spent = 0 /\ hours = 0 /\ faults = 0
        /\ unchecked = 0
    BY DEF Init
  <2> QED BY <1>4, <2>1 DEF Values
<1>6. ASSUME NEW p \in Pulls PROVE PullInv(p)
  <2>1. jobs[p].step = "idle" /\ jobs[p].request = 0 /\ faults = 0
    BY IdleIsJob DEF Init
  <2>2. JobShape(p)
    BY <2>1 DEF JobShape, current
  <2>3. CoverInv(p)
    <3>1. 1 .. store[p].reviewed = {}
      BY <1>4
    <3> QED BY <2>1, <3>1 DEF CoverInv, AfterDiff
  <2>4. OnceInv(p)
    <3>1. \A c \in Commits : past[p].started[c] = 0
      BY <1>4 DEF begun
    <3> QED BY <2>1, <3>1 DEF OnceInv
  <2>5. NewestInv(p)
    BY <1>4, <2>1 DEF NewestInv, AfterClone
  <2>6. SilenceInv(p)
    BY <1>4, <2>1 DEF SilenceInv
  <2>7. PostsInv(p)
    <3>1. Posts(p) = 0
      BY <1>4, <2>1 DEF Posts, Posting
    <3> QED BY <1>4, <2>1, <3>1, ReviewConstants DEF PostsInv
  <2> QED BY <2>2, <2>3, <2>4, <2>5, <2>6, <2>7 DEF PullInv
<1> QED BY <1>3, <1>5, <1>6, Parts

LEMMA StutterInv == Inv /\ UNCHANGED vars => Inv'
<1> SUFFICES ASSUME Inv, UNCHANGED vars PROVE Inv'
  OBVIOUS
<1>1. Slots /\ Values /\ \A p \in Pulls : JobShape(p)
  BY Parts DEF PullInv
<1>2. Slots' /\ Values' /\ \A p \in Pulls : JobShape(p)' /\ kind(p)' = kind(p)
  BY <1>1 DEF vars, Slots, Values, JobShape, current, kind
<1>3. ASSUME NEW p \in Pulls PROVE PullInv(p)'
  <2>1. faults \in Nat /\ faults' = faults
    BY Here DEF vars
  <2> QED BY <1>2, <2>1, Elsewhere DEF vars
<1> QED BY <1>2, <1>3, PartsNext

LEMMA NextInv == Inv /\ [Next]_vars => Inv'
<1> SUFFICES ASSUME Inv, Next PROVE Inv'
  BY StutterInv
<1>1. ASSUME NEW p \in Pulls, Step(p) PROVE Inv'
  BY <1>1, IgnoreKeeps, ForgetKeeps, LiftKeeps, LookKeeps, CheckIgnoredKeeps, CheckBudgetKeeps,
     MarkKeeps, DiffKeeps, AllowKeeps, AnnounceKeeps, CloneKeeps, AgentKeeps, ChargeKeeps,
     RecordKeeps, SummaryKeeps, RepliesKeep DEF Step
<1>2. ASSUME NEW p \in Pulls, Crash(p) \/ Push(p) PROVE Inv'
  BY <1>2, CrashKeeps, PushKeeps
<1>3. ASSUME NEW r \in Requests, Begin(r) \/ DeadLetter(r) \/ GiveUp(r) PROVE Inv'
  BY <1>3, BeginKeeps, DeadLetterKeeps, GiveUpKeeps
<1>4. ASSUME NEW r \in Requests, NEW p \in Pulls, NEW k \in Kinds, Ask(r, p, k) PROVE Inv'
  BY <1>4, AskKeeps
<1>5. CASE NewHour \/ IssueRun
  BY <1>5, NewHourKeeps, IssueRunKeeps
<1>6. ASSUME NEW p \in Pulls, IgnoreExpires(p) \/ ReviewedExpires(p) PROVE Inv'
  BY <1>6, IgnoreExpiresKeeps, ReviewedExpiresKeeps
<1>7. ASSUME NEW p \in Pulls, NEW c \in Commits, JobKeyExpires(p, c) PROVE Inv'
  BY <1>7, JobKeyExpiresKeeps
<1> QED BY <1>1, <1>2, <1>3, <1>4, <1>5, <1>6, <1>7 DEF Next

LEMMA AlwaysInv == Spec => []Inv
  BY InitInv, NextInv, PTL DEF Spec

LEMMA InvMeans ==
  Inv => TypeOK /\ NothingUnread /\ NewestShown /\ OneReviewPerHead /\ PostsBounded
<1> SUFFICES ASSUME Inv PROVE TypeOK /\ NothingUnread /\ NewestShown /\ OneReviewPerHead /\ PostsBounded
  OBVIOUS
<1>1. TypeOK
  BY DEF Inv
<1>2. NothingUnread
  BY Here DEF NothingUnread, CoverInv, Known
<1>3. NewestShown
  BY Here DEF NewestShown, NewestInv
<1>4. OneReviewPerHead
  BY Here DEF OneReviewPerHead, OnceInv
<1>5. ASSUME NEW p \in Pulls PROVE past[p].written <= MaxPosts + 1 + faults
  <2>1. PostsInv(p) /\ past[p].written \in Nat /\ faults \in Nat
    BY Here DEF PastType
  <2> QED BY <2>1, ReviewConstants DEF PostsInv, Posts
<1> QED BY <1>1, <1>2, <1>3, <1>4, <1>5 DEF PostsBounded

\* The job of a pull request always belongs to its running request, and the
\* state has its types.
THEOREM TypeCorrect == Spec => []TypeOK
  BY AlwaysInv, InvMeans, PTL

\* Whatever fails, is redelivered, lost or pushed meanwhile, the base of the
\* next review is never moved past a commit no review was shown, except those
\* pushed between a review's diff and its clone.
THEOREM NothingIsLeftUnread == Spec => []NothingUnread
  BY AlwaysInv, InvMeans, PTL

\* The summary shows the newest commit a result was ever for.
THEOREM NewestIsShown == Spec => []NewestShown
  BY AlwaysInv, InvMeans, PTL

\* No head has two automatic reviews while its job key is kept.
THEOREM OneReviewEach == Spec => []OneReviewPerHead
  BY AlwaysInv, InvMeans, PTL

\* The results of an hour stay within the limit, the review under way when
\* the hour began, and one per fault.
THEOREM PostsStayBounded == Spec => []PostsBounded
  BY AlwaysInv, InvMeans, PTL

\* Unless the store failed, no automatic review starts after "ignore", for as
\* long as the flag is kept and nobody asked again.
THEOREM SilenceIsKept == Spec => SilenceKept
<1>1. ASSUME Inv, NEW p \in Pulls, At(p, "announce"), kind(p) = "auto", past[p].wish = "out"
      PROVE  faults > 0
  <2>1. SilenceInv(p) /\ faults \in Nat
    BY <1>1, Here
  <2> QED BY <1>1, <2>1 DEF SilenceInv, At
<1>2. Inv => \A p \in Pulls : At(p, "announce") /\ jobs'[p].step = "clone"
                      /\ kind(p) = "auto" /\ past[p].wish = "out" => faults > 0
  BY <1>1
<1> QED BY AlwaysInv, <1>2, PTL DEF SilenceKept

-----------------------------------------------------------------------------
(* What a month may cost: each run that passed the ceiling and has not     *)
(* been charged yet holds MaxCost back, or a fault paid for it; a run on   *)
(* an issue that ends over the ceiling pays for itself.                    *)

UnderWay == {"mark", "diff", "allow", "announce", "clone", "agent", "charge"}
Owing == {p \in Pulls : jobs[p].step \in UnderWay}
Runs == Cardinality(Pulls) + faults + unchecked
Held(n) == n * MaxCost

SpendInv ==
  /\ IsFiniteSet(Pulls)
  /\ spent + Held(Cardinality(Owing)) < Budget + Held(Runs)

LEMMA Scale ==
  /\ \A n \in Nat : Held(n) \in Nat /\ Held(n + 1) = Held(n) + MaxCost
  /\ \A m, n \in Nat : m <= n => Held(m) <= Held(n)
<1>1. MaxCost \in Nat
  BY ReviewConstants
<1>2. ASSUME NEW n \in Nat PROVE Held(n) \in Nat /\ Held(n + 1) = Held(n) + MaxCost
  BY <1>1 DEF Held
<1>3. ASSUME NEW m \in Nat, NEW n \in Nat, m <= n PROVE Held(m) <= Held(n)
  <2>1. PICK d \in Nat : n = m + d
    BY <1>3
  <2>2. m * MaxCost + d * MaxCost = n * MaxCost /\ d * MaxCost \in Nat /\ m * MaxCost \in Nat
    BY <1>1, <2>1
  <2> QED BY <2>2 DEF Held
<1> QED BY <1>2, <1>3

LEMMA OwingFinite ==
  ASSUME IsFiniteSet(Pulls)
  PROVE  /\ IsFiniteSet(Owing) /\ Cardinality(Owing) \in Nat /\ Cardinality(Pulls) \in Nat
         /\ Cardinality(Owing) <= Cardinality(Pulls)
<1>1. Owing \in SUBSET Pulls
  BY DEF Owing
<1> QED BY <1>1, FS_Subset, FS_CardinalityType

LEMMA OwingFiniteNext ==
  ASSUME IsFiniteSet(Pulls)
  PROVE  /\ IsFiniteSet(Owing') /\ Cardinality(Owing') \in Nat
         /\ Cardinality(Owing') <= Cardinality(Pulls)
<1>1. Owing' \in SUBSET Pulls
  BY DEF Owing
<1> QED BY <1>1, FS_Subset, FS_CardinalityType

LEMMA SpendTypes ==
  ASSUME Inv, SpendInv
  PROVE  /\ faults \in Nat /\ spent \in Nat /\ unchecked \in Nat
         /\ Budget \in Nat \ {0} /\ MaxCost \in Nat /\ IsFiniteSet(Pulls) /\ IsFiniteSet(Owing)
         /\ Cardinality(Owing) \in Nat /\ Cardinality(Owing') \in Nat
         /\ Cardinality(Owing) <= Cardinality(Pulls) /\ Cardinality(Owing') <= Cardinality(Pulls)
         /\ Cardinality(Pulls) \in Nat /\ Runs \in Nat
         /\ Held(Cardinality(Owing)) \in Nat /\ Held(Cardinality(Owing')) \in Nat
         /\ Held(Runs) \in Nat
<1>1. /\ faults \in Nat /\ spent \in Nat /\ unchecked \in Nat
      /\ Budget \in Nat \ {0} /\ MaxCost \in Nat /\ IsFiniteSet(Pulls) /\ IsFiniteSet(Owing)
      /\ Cardinality(Owing) \in Nat /\ Cardinality(Owing') \in Nat
      /\ Cardinality(Owing) <= Cardinality(Pulls) /\ Cardinality(Owing') <= Cardinality(Pulls)
      /\ Cardinality(Pulls) \in Nat
  BY OwingFinite, OwingFiniteNext, ReviewConstants DEF Inv, TypeOK, SpendInv
<1>2. Runs \in Nat
  BY <1>1 DEF Runs
<1> QED BY <1>1, <1>2, Scale

\* Nobody passes the ceiling and nothing is charged.
LEMMA NobodyPasses ==
  ASSUME Inv, SpendInv, spent' = spent, unchecked' = unchecked,
         faults' \in Nat, faults <= faults', Owing' \subseteq Owing
  PROVE  SpendInv'
<1>1. /\ faults \in Nat /\ spent \in Nat /\ unchecked \in Nat /\ Budget \in Nat
      /\ IsFiniteSet(Pulls) /\ IsFiniteSet(Owing) /\ Cardinality(Pulls) \in Nat /\ Runs \in Nat
      /\ Cardinality(Owing) \in Nat /\ Cardinality(Owing') \in Nat
      /\ Held(Cardinality(Owing)) \in Nat /\ Held(Cardinality(Owing')) \in Nat /\ Held(Runs) \in Nat
  BY SpendTypes
<1>2. Cardinality(Owing') <= Cardinality(Owing)
  <2>1. Owing' \in SUBSET Owing
    OBVIOUS
  <2> QED BY <1>1, <2>1, FS_Subset
<1>3. Runs' \in Nat /\ Runs <= Runs'
  BY <1>1 DEF Runs
<1>4. Held(Cardinality(Owing')) <= Held(Cardinality(Owing))
  BY <1>1, <1>2, Scale
<1>5. Held(Runs) <= Held(Runs') /\ Held(Runs') \in Nat
  BY <1>1, <1>3, Scale
<1> QED BY <1>1, <1>4, <1>5 DEF SpendInv, Held

\* A step of a job that is not the check of the ceiling puts nothing under way.
LEMMA StepOwes ==
  ASSUME Inv, NEW p \in Pulls, Step(p), ~CheckBudget(p)
  PROVE  Owing' \subseteq Owing
<1>1. Slots /\ jobs[p].step # "idle" => JobShape(p)
  BY Parts DEF PullInv
<1>2. jobs \in [Pulls -> JobRec] /\ jobs[p] \in JobRec
  BY Parts DEF Slots
<1>3. \/ Settle(p) \/ Fail(p)
      \/ \E s \in Steps : /\ GoTo(p, s)
                          /\ s \in UnderWay => jobs[p].step \in UnderWay
      \/ jobs' = [jobs EXCEPT ![p].head = forge[p].head,
                              ![p].step = IF kind(p) \in Reviews THEN "ignored" ELSE "budget"]
      \/ \E s \in Scopes(p) : /\ jobs' = [jobs EXCEPT ![p].scope = s, ![p].step = "allow"]
                              /\ jobs[p].step \in UnderWay
      \/ /\ jobs' = [jobs EXCEPT ![p].tree = forge[p].head, ![p].step = "agent"]
         /\ jobs[p].step \in UnderWay
  <2>1. CASE Ignore(p) \/ Forget(p) \/ Findings(p) \/ Reply(p)
    BY <2>1 DEF Ignore, Forget, Findings, Reply, FailsBy
  <2>2. CASE Lift(p)
    BY <2>2 DEF Lift, Steps, UnderWay
  <2>3. CASE Look(p)
    BY <2>3 DEF Look, FailsBy
  <2>4. CASE CheckIgnored(p)
    BY <2>4 DEF CheckIgnored, Steps, UnderWay
  <2>5. CASE Mark(p)
    BY <2>5 DEF Mark, At, FailsBy, Steps, UnderWay
  <2>6. CASE Diff(p)
    BY <2>6 DEF Diff, At, FailsBy, UnderWay
  <2>7. CASE Allow(p)
    BY <2>7 DEF Allow, At, Steps, UnderWay
  <2>8. CASE Announce(p)
    BY <2>8 DEF Announce, At, Steps, UnderWay
  <2>9. CASE Clone(p)
    BY <2>9 DEF Clone, At, FailsBy, Tree, UnderWay
  <2>10. CASE Agent(p)
    BY <2>10 DEF Agent, At, FailsBy, Steps, UnderWay
  <2>11. CASE Charge(p)
    BY <2>11 DEF Charge, Steps, UnderWay
  <2>12. CASE Record(p) \/ Summary(p)
    BY <2>12 DEF Record, Summary, FailsBy, Steps, UnderWay
  <2> QED BY <2>1, <2>2, <2>3, <2>4, <2>5, <2>6, <2>7, <2>8, <2>9, <2>10, <2>11, <2>12 DEF Step
<1>4. \A q \in Pulls \ {p} : jobs'[q] = jobs[q]
  BY <1>2, <1>3 DEF Settle, Fail, Over, GoTo
<1>5. jobs'[p].step \in UnderWay => jobs[p].step \in UnderWay
  <2>1. CASE Settle(p) \/ Fail(p)
    BY <1>2, <2>1, IdleIsJob DEF Settle, Fail, Over, UnderWay
  <2>2. ASSUME NEW s \in Steps, GoTo(p, s), s \in UnderWay => jobs[p].step \in UnderWay
        PROVE  jobs'[p].step \in UnderWay => jobs[p].step \in UnderWay
    BY <1>2, <2>2 DEF GoTo, JobRec
  <2>3. CASE jobs' = [jobs EXCEPT ![p].head = forge[p].head,
                              ![p].step = IF kind(p) \in Reviews THEN "ignored" ELSE "budget"]
    BY <1>2, <2>3 DEF JobRec, UnderWay
  <2> QED BY <1>3, <2>1, <2>2, <2>3
<1> QED BY <1>4, <1>5 DEF Owing

LEMMA StepSpends ==
  ASSUME Inv, SpendInv, NEW p \in Pulls, Step(p), ~CheckBudget(p), ~Charge(p)
  PROVE  SpendInv'
<1>1. Owing' \subseteq Owing
  BY StepOwes
<1>2. spent' = spent /\ unchecked' = unchecked
  BY DEF Step, Ignore, Forget, Lift, Look, CheckIgnored, Mark, Diff, Allow, Announce,
         Clone, Agent, Record, Summary, Findings, Reply
<1>3. faults' \in Nat /\ faults <= faults'
  BY Here, Counting
     DEF Step, Ignore, Forget, Lift, Look, CheckIgnored, Mark, Diff, Allow, Announce,
         Clone, Agent, Record, Summary, Findings, Reply, FailsBy
<1> QED BY <1>1, <1>2, <1>3, NobodyPasses

\* A run passes below the ceiling, when all runs together fit under it, or at
\* the price of a fault.
LEMMA CheckSpends ==
  ASSUME Inv, SpendInv, NEW p \in Pulls, CheckBudget(p)
  PROVE  SpendInv'
<1>1. /\ faults \in Nat /\ spent \in Nat /\ unchecked \in Nat /\ Budget \in Nat
      /\ MaxCost \in Nat /\ IsFiniteSet(Pulls) /\ IsFiniteSet(Owing)
      /\ Cardinality(Owing) \in Nat /\ Cardinality(Owing') \in Nat
      /\ Cardinality(Owing') <= Cardinality(Pulls) /\ Cardinality(Pulls) \in Nat /\ Runs \in Nat
      /\ Held(Cardinality(Owing)) \in Nat /\ Held(Cardinality(Owing')) \in Nat /\ Held(Runs) \in Nat
  BY SpendTypes
<1>2. spent' = spent /\ unchecked' = unchecked /\ faults' \in Nat /\ faults <= faults'
  BY <1>1, Counting DEF CheckBudget
<1>3. CASE Settle(p)
  <2>1. Owing' \subseteq Owing
    <3>1. jobs \in [Pulls -> JobRec]
      BY Parts DEF Slots
    <3> QED BY <1>3, <3>1, IdleIsJob DEF Settle, Over, Owing, UnderWay
  <2> QED BY <1>2, <2>1, NobodyPasses
<1>4. CASE ~Exhausted /\ NoFault
  <2>1. spent < Budget /\ faults' = faults
    BY <1>1, <1>4 DEF Exhausted, NoFault
  <2>2. Runs' = Runs /\ Cardinality(Owing') <= Runs
    BY <1>1, <1>2, <2>1 DEF Runs
  <2>3. Held(Cardinality(Owing')) <= Held(Runs)
    BY <1>1, <2>2, Scale
  <2>4. spent' + Held(Cardinality(Owing')) < Budget + Held(Runs)
    BY <1>1, <1>2, <2>1, <2>3
  <2> QED BY <1>1, <2>2, <2>4 DEF SpendInv
<1>5. CASE Fault("store") /\ ~Settle(p)
  <2>1. faults' = faults + 1
    BY <1>5 DEF Fault
  <2>2. Cardinality(Owing') <= Cardinality(Owing) + 1
    <3>1. jobs \in [Pulls -> JobRec]
      BY Parts DEF Slots
    <3>go. PICK s : GoTo(p, s)
      BY <1>5 DEF CheckBudget
    <3>others. \A q \in Pulls \ {p} : jobs'[q] = jobs[q]
      BY <3>1, <3>go DEF GoTo
    <3>2. Owing' \subseteq Owing \cup {p}
      BY <3>others DEF Owing
    <3>finite. IsFiniteSet(Owing) /\ Cardinality(Owing) \in Nat
      BY <1>1
    <3>grown. /\ IsFiniteSet(Owing \cup {p})
              /\ Cardinality(Owing \cup {p}) = IF p \in Owing THEN Cardinality(Owing)
                                               ELSE Cardinality(Owing) + 1
      BY <3>finite, FS_AddElement, Zenon
    <3>3. IsFiniteSet(Owing \cup {p}) /\ Cardinality(Owing \cup {p}) <= Cardinality(Owing) + 1
      BY <3>finite, <3>grown
    <3>4. Owing' \in SUBSET (Owing \cup {p})
      BY <3>2
    <3>5. Cardinality(Owing') <= Cardinality(Owing \cup {p}) /\ Cardinality(Owing \cup {p}) \in Nat
      BY <3>3, <3>4, FS_Subset, FS_CardinalityType
    <3> QED BY <1>1, <3>3, <3>5
  <2>3. Held(Cardinality(Owing')) <= Held(Cardinality(Owing)) + MaxCost
    <3>1. Cardinality(Owing) + 1 \in Nat
      BY <1>1
    <3>2. Held(Cardinality(Owing')) <= Held(Cardinality(Owing) + 1)
      BY <1>1, <2>2, <3>1, Scale
    <3> QED BY <1>1, <3>2, Scale
  <2>4. Runs' = Runs + 1
    BY <1>1, <1>2, <2>1 DEF Runs
  <2>5. Held(Runs') = Held(Runs) + MaxCost
    BY <1>1, <2>4, Scale
  <2>6. spent + Held(Cardinality(Owing)) < Budget + Held(Runs)
    BY DEF SpendInv
  <2>7. spent' + Held(Cardinality(Owing')) < Budget + Held(Runs')
    BY <1>1, <1>2, <2>3, <2>5, <2>6
  <2> QED BY <1>1, <2>7 DEF SpendInv, Held
<1> QED BY <1>3, <1>4, <1>5 DEF CheckBudget

\* What is charged was held back.
LEMMA ChargeSpends ==
  ASSUME Inv, SpendInv, NEW p \in Pulls, Charge(p)
  PROVE  SpendInv'
<1>1. /\ faults \in Nat /\ spent \in Nat /\ unchecked \in Nat /\ Budget \in Nat
      /\ MaxCost \in Nat /\ IsFiniteSet(Pulls) /\ IsFiniteSet(Owing)
      /\ Cardinality(Owing) \in Nat /\ Cardinality(Owing') \in Nat
      /\ Cardinality(Pulls) \in Nat /\ Runs \in Nat
      /\ Held(Cardinality(Owing)) \in Nat /\ Held(Cardinality(Owing')) \in Nat /\ Held(Runs) \in Nat
  BY SpendTypes
<1>2. faults' \in Nat /\ faults <= faults' /\ unchecked' = unchecked
  BY <1>1, Counting DEF Charge
<1>3. spent' \in Nat /\ spent' <= spent + MaxCost
  BY <1>1 DEF Charge
<1>4. p \in Owing /\ Owing' = Owing \ {p}
  <2>1. jobs \in [Pulls -> JobRec] /\ jobs[p].step = "charge"
    BY Parts DEF Slots, Charge, At
  <2> QED BY <2>1 DEF Charge, GoTo, Owing, UnderWay, JobRec
<1>5. Cardinality(Owing) = Cardinality(Owing') + 1
  <2>1. Cardinality(Owing') = Cardinality(Owing) - 1
    BY <1>1, <1>4, FS_RemoveElement
  <2> QED BY <1>1, <2>1
<1>6. Held(Cardinality(Owing)) = Held(Cardinality(Owing')) + MaxCost
  BY <1>1, <1>5, Scale
<1>7. Runs' \in Nat /\ Runs <= Runs'
  BY <1>1, <1>2 DEF Runs
<1>8. Held(Runs) <= Held(Runs') /\ Held(Runs') \in Nat
  BY <1>1, <1>7, Scale
<1>9. spent + Held(Cardinality(Owing)) < Budget + Held(Runs)
  BY DEF SpendInv
<1>10. spent' + Held(Cardinality(Owing')) < Budget + Held(Runs')
  BY <1>1, <1>3, <1>6, <1>8, <1>9
<1> QED BY <1>1, <1>10 DEF SpendInv, Held

\* A run on an issue stays below the ceiling, where whatever is under way fits
\* as well, or it is counted.
LEMMA IssueSpends ==
  ASSUME Inv, SpendInv, IssueRun
  PROVE  SpendInv'
<1>1. /\ faults \in Nat /\ spent \in Nat /\ unchecked \in Nat /\ Budget \in Nat
      /\ MaxCost \in Nat /\ IsFiniteSet(Pulls)
      /\ Cardinality(Owing) \in Nat /\ Cardinality(Owing) <= Cardinality(Pulls)
      /\ Cardinality(Pulls) \in Nat /\ Runs \in Nat
      /\ Held(Cardinality(Owing)) \in Nat /\ Held(Runs) \in Nat
  BY SpendTypes
<1>2. PICK c \in 1..MaxCost :
        /\ spent' = spent + c
        /\ unchecked' = unchecked + (IF spent + c >= Budget THEN 1 ELSE 0)
  BY DEF IssueRun
<1>3. faults' = faults /\ Owing' = Owing
  BY DEF IssueRun, Owing
<1>4. CASE spent + c < Budget
  <2>1. Runs' = Runs /\ Cardinality(Owing) <= Runs
    BY <1>1, <1>2, <1>3, <1>4 DEF Runs
  <2>2. Held(Cardinality(Owing)) <= Held(Runs)
    BY <1>1, <2>1, Scale
  <2>3. spent' + Held(Cardinality(Owing')) < Budget + Held(Runs')
    <3>1. spent' + Held(Cardinality(Owing)) < Budget + Held(Runs)
      BY <1>1, <1>2, <1>4, <2>2
    <3> QED BY <3>1, <1>3, <2>1
  <2> QED BY <1>1, <2>3 DEF SpendInv, Held
<1>5. CASE spent + c >= Budget
  <2>1. Runs' = Runs + 1
    BY <1>1, <1>2, <1>3, <1>5 DEF Runs
  <2>2. Held(Runs') = Held(Runs) + MaxCost
    BY <1>1, <2>1, Scale
  <2>3. spent + Held(Cardinality(Owing)) < Budget + Held(Runs)
    BY DEF SpendInv
  <2>4. spent' + Held(Cardinality(Owing)) < Budget + Held(Runs')
    BY <1>1, <1>2, <2>2, <2>3
  <2>5. spent' + Held(Cardinality(Owing')) < Budget + Held(Runs')
    BY <1>3, <2>4
  <2> QED BY <1>1, <2>5 DEF SpendInv, Held
<1> QED BY <1>1, <1>2, <1>4, <1>5

LEMMA WorldSpends ==
  ASSUME Inv, SpendInv,
         \/ UNCHANGED vars \/ NewHour
         \/ \E p \in Pulls : Crash(p) \/ Push(p) \/ IgnoreExpires(p) \/ ReviewedExpires(p)
         \/ \E p \in Pulls, c \in Commits : JobKeyExpires(p, c)
         \/ \E r \in Requests : Begin(r) \/ DeadLetter(r) \/ GiveUp(r)
         \/ \E r \in Requests, p \in Pulls, k \in Kinds : Ask(r, p, k)
  PROVE  SpendInv'
<1>1. Slots /\ Values
  BY Parts
<1>2. spent' = spent /\ unchecked' = unchecked
  BY DEF vars, NewHour, Crash, Push, IgnoreExpires, ReviewedExpires, JobKeyExpires,
         Begin, DeadLetter, GiveUp, Ask
<1>3. faults' \in Nat /\ faults <= faults'
  <2>1. faults \in Nat
    BY <1>1 DEF Values
  <2>2. faults' = faults \/ Fault("crash")
    BY DEF vars, NewHour, Crash, Push, IgnoreExpires, ReviewedExpires, JobKeyExpires,
           Begin, DeadLetter, GiveUp, Ask
  <2> QED BY <2>1, <2>2 DEF Fault
<1>4. CASE jobs' = jobs
  BY <1>2, <1>3, <1>4, NobodyPasses DEF Owing
<1>5. ASSUME NEW p \in Pulls, Crash(p)
      PROVE  SpendInv'
  <2>1. Owing' \subseteq Owing
    BY <1>1, <1>5, IdleIsJob DEF Crash, Over, Owing, UnderWay, Slots
  <2> QED BY <1>2, <1>3, <2>1, NobodyPasses
<1>6. ASSUME NEW r \in Requests, Begin(r)
      PROVE  SpendInv'
  <2>1. PICK e \in Events : requests[r].event = e
    BY <1>1, <1>6 DEF Slots, Begin
  <2>2. FirstStep(e.kind) \notin UnderWay
    BY <2>1, ReviewConstants DEF FirstStep, UnderWay, Events, AllKinds
  <2>3. /\ jobs' = [jobs EXCEPT ![e.pull] = [Idle EXCEPT !.request = r, !.step = FirstStep(e.kind)]]
        /\ jobs \in [Pulls -> JobRec]
    BY <1>1, <1>6, <2>1 DEF Begin, Slots
  <2>4. [Idle EXCEPT !.request = r, !.step = FirstStep(e.kind)].step = FirstStep(e.kind)
    BY IdleIsJob DEF JobRec
  <2>5. Owing' \subseteq Owing
    BY <2>2, <2>3, <2>4 DEF Owing
  <2> QED BY <1>2, <1>3, <2>5, NobodyPasses
<1> QED BY <1>4, <1>5, <1>6
        DEF vars, NewHour, Push, IgnoreExpires, ReviewedExpires, JobKeyExpires, DeadLetter, GiveUp, Ask

\* The month ends over the ceiling by no more than one run per pull request,
\* one per fault, and the runs on issues that nobody checks, when there are
\* finitely many pull requests.
THEOREM SpendStaysBounded == IsFiniteSet(Pulls) /\ Spec => []SpendBounded
<1>1. Init /\ IsFiniteSet(Pulls) => SpendInv
  <2> SUFFICES ASSUME Init, IsFiniteSet(Pulls) PROVE SpendInv
    OBVIOUS
  <2>1. Owing = {} /\ spent = 0 /\ faults = 0 /\ unchecked = 0
    BY IdleIsJob DEF Init, Owing, UnderWay
  <2>2. Cardinality(Owing) = 0 /\ Runs \in Nat /\ Budget \in Nat \ {0} /\ MaxCost \in Nat
    BY <2>1, FS_EmptySet, FS_CardinalityType, ReviewConstants DEF Runs
  <2>3. Held(0) = 0 /\ Held(Runs) \in Nat
    BY <2>2, Scale DEF Held
  <2>4. spent + Held(Cardinality(Owing)) < Budget + Held(Runs)
    BY <2>1, <2>2, <2>3
  <2> QED BY <2>4 DEF SpendInv
<1>2. Inv /\ SpendInv /\ [Next]_vars => SpendInv'
  <2> SUFFICES ASSUME Inv, SpendInv, [Next]_vars PROVE SpendInv'
    OBVIOUS
  <2>1. ASSUME NEW p \in Pulls, Step(p) PROVE SpendInv'
    BY <2>1, StepSpends, CheckSpends, ChargeSpends
  <2> QED BY <2>1, WorldSpends, IssueSpends DEF Next
<1>3. Inv /\ SpendInv => SpendBounded
  <2> SUFFICES ASSUME Inv, SpendInv PROVE SpendBounded
    OBVIOUS
  <2>1. /\ spent \in Nat /\ Budget \in Nat
        /\ Held(Cardinality(Owing)) \in Nat /\ Held(Runs) \in Nat
    BY SpendTypes
  <2>2. spent + Held(Cardinality(Owing)) < Budget + Held(Runs)
    BY DEF SpendInv
  <2>3. spent < Budget + Held(Runs)
    BY <2>1, <2>2
  <2> QED BY <2>3 DEF SpendBounded, Held, Runs
<1> QED BY <1>1, <1>2, <1>3, AlwaysInv, PTL DEF Spec

=============================================================================
