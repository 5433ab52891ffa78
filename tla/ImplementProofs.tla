-------------------------- MODULE ImplementProofs --------------------------
(***************************************************************************)
(* Proofs about Implement, for any number of workers, requests, agent runs *)
(* and faults.                                                             *)
(***************************************************************************)
EXTENDS Implement, TLAPS

-----------------------------------------------------------------------------
(* Types.                                                                  *)

\* A worker that is not idle has a request, and no other worker has it.
OneSlotEach ==
  /\ \A w \in Workers : At(w, "idle") <=> jobs[w].request = 0
  /\ \A v, w \in Workers : jobs[v].request = jobs[w].request /\ jobs[w].request # 0 => v = w

\* A job that is past the agent's run has a change, one that verifies or
\* publishes has a change that stayed within bounds, and one that is about to
\* reply knows what to say.
HandOK(j) ==
  /\ j.step \in {"changes", "stage", "execute", "await", "push", "open"} =>
       j.change \in Changes /\ changes[j.change].is # "unborn"
  /\ j.step \in {"stage", "execute", "await", "push", "open"} => changes[j.change].is = "edits"
  /\ j.step = "say" => j.say # "none"

ChangeInHand == \A w \in Workers : HandOK(jobs[w])

TypeInv == TypeOK /\ OneSlotEach /\ ChangeInHand

\* The initial state is well typed.
LEMMA InitTypeInv == Init => TypeInv
  BY ImplementConstants DEF Init, TypeInv, TypeOK, OneSlotEach, ChangeInHand, HandOK, At, Idle, NoTree,
     Requests, Changes, Locations, RequestRecord, JobRecord, ChangeRecord, PlaceRecord,
     ExecutionRecord, Steps, Replies, Refusals, Denials

\* A busy worker has a request, which is running.
LEMMA BusyHasRequest ==
  ASSUME TypeInv, NEW w \in Workers, ~At(w, "idle")
  PROVE  current(w) \in Requests /\ requests[current(w)].state = "running"
  BY ImplementConstants DEF TypeInv, TypeOK, OneSlotEach, JobRecord, current, At, Requests

\* The parts of the invariant that speak of workers and requests, which is all
\* that most steps disturb.
JobsOK ==
  /\ requests \in [Requests -> RequestRecord]
  /\ jobs \in [Workers -> JobRecord]
  /\ \A r \in Requests : (requests[r].state = "running") <=> \E w \in Workers : jobs[w].request = r
  /\ OneSlotEach

\* A job that goes on, whatever it takes along, keeps its request.
LEMMA GoesOn ==
  ASSUME TypeInv, NEW w \in Workers, ~At(w, "idle"),
         NEW j \in JobRecord, j.request = current(w), j.step # "idle",
         jobs' = [jobs EXCEPT ![w] = j], UNCHANGED requests
  PROVE  JobsOK'
<1>1. jobs' \in [Workers -> JobRecord]
  BY DEF TypeInv, TypeOK
<1>2. \A v \in Workers : jobs'[v].request = jobs[v].request
  BY DEF TypeInv, TypeOK, current
<1>3. \A v \in Workers : (jobs'[v].step = "idle") <=> (jobs[v].step = "idle")
  BY DEF TypeInv, TypeOK, At
<1>4. OneSlotEach'
  BY <1>2, <1>3 DEF TypeInv, OneSlotEach, At
<1> QED
  BY <1>1, <1>2, <1>4 DEF JobsOK, TypeInv, TypeOK

\* What holds of every worker's hand still does when one worker's changes.
LEMMA HandKept ==
  ASSUME TypeInv, NEW w \in Workers, NEW j \in JobRecord, HandOK(j),
         jobs' = [jobs EXCEPT ![w] = j], UNCHANGED changes
  PROVE  ChangeInHand'
  BY DEF TypeInv, TypeOK, ChangeInHand, HandOK

\* GoTo keeps what a job has, if that is enough for the next step.
LEMMA GoToJobs ==
  ASSUME TypeInv, NEW w \in Workers, ~At(w, "idle"), NEW s \in Steps \ {"idle", "say"},
         GoTo(w, s), UNCHANGED changes,
         s \in {"changes", "stage", "execute", "await", "push", "open"} =>
           change(w) \in Changes /\ changes[change(w)].is # "unborn",
         s \in {"stage", "execute", "await", "push", "open"} => changes[change(w)].is = "edits"
  PROVE  JobsOK' /\ ChangeInHand'
<1> DEFINE j == [jobs[w] EXCEPT !.step = s]
<1>1. jobs[w] \in JobRecord
  BY DEF TypeInv, TypeOK
<1>2. j \in JobRecord /\ j.request = current(w) /\ j.step = s /\ j.change = change(w)
  BY <1>1 DEF JobRecord, current, change
<1>3. jobs' = [jobs EXCEPT ![w] = j] /\ UNCHANGED requests
  BY DEF GoTo
<1> HIDE DEF j
<1>4. JobsOK'
  BY <1>2, <1>3, GoesOn
<1>5. HandOK(j)
  BY <1>2 DEF HandOK
<1> QED
  BY <1>2, <1>3, <1>4, <1>5, HandKept

\* Reply needs nothing but something to say.
LEMMA ReplyJobs ==
  ASSUME TypeInv, NEW w \in Workers, ~At(w, "idle"), NEW what \in Replies, Reply(w, what),
         UNCHANGED changes
  PROVE  JobsOK' /\ ChangeInHand'
<1> DEFINE j == [jobs[w] EXCEPT !.step = "say", !.say = what]
<1>1. jobs[w] \in JobRecord
  BY DEF TypeInv, TypeOK
<1>2. j \in JobRecord /\ j.request = current(w) /\ j.step = "say" /\ j.say = what
  BY <1>1 DEF JobRecord, current, Steps
<1>3. jobs' = [jobs EXCEPT ![w] = j] /\ UNCHANGED requests
  BY DEF Reply
<1> HIDE DEF j
<1>4. JobsOK'
  BY <1>2, <1>3, GoesOn
<1>5. HandOK(j)
  BY <1>2 DEF HandOK, Replies, Refusals, Denials
<1> QED
  BY <1>2, <1>3, <1>4, <1>5, HandKept

\* A job that is over leaves its request to nobody.
LEMMA OverJobs ==
  ASSUME TypeInv, NEW w \in Workers, ~At(w, "idle"),
         NEW q \in RequestRecord, q.state # "running", UNCHANGED changes,
         jobs' = [jobs EXCEPT ![w] = Idle],
         requests' = [requests EXCEPT ![current(w)] = q]
  PROVE  JobsOK' /\ ChangeInHand'
<1>1. current(w) \in Requests
  BY BusyHasRequest
<1>2. requests' \in [Requests -> RequestRecord]
  BY <1>1 DEF TypeInv, TypeOK
<1>3. Idle \in JobRecord /\ Idle.request = 0 /\ Idle.step = "idle"
  BY ImplementConstants DEF Idle, JobRecord, Steps
<1>4. jobs' \in [Workers -> JobRecord]
  BY <1>3 DEF TypeInv, TypeOK
<1>5. jobs'[w] = Idle /\ \A v \in Workers \ {w} : jobs'[v] = jobs[v]
  BY DEF TypeInv, TypeOK
<1>6. OneSlotEach'
  BY <1>3, <1>5 DEF TypeInv, OneSlotEach, At
<1>7. ASSUME NEW r \in Requests
      PROVE  (requests'[r].state = "running") <=> \E v \in Workers : jobs'[v].request = r
  <2>1. r \in Nat /\ r # 0
    BY ImplementConstants DEF Requests
  <2>2. CASE r = current(w)
    <3>1. requests'[r] = q
      BY <1>1, <2>2 DEF TypeInv, TypeOK
    <3>2. \A v \in Workers : jobs'[v].request # r
      BY <1>3, <1>5, <2>1, <2>2 DEF TypeInv, OneSlotEach, current
    <3> QED
      BY <3>1, <3>2
  <2>3. CASE r # current(w)
    <3>1. requests'[r] = requests[r]
      BY <2>3 DEF TypeInv, TypeOK
    <3>2. \A v \in Workers : jobs'[v].request = r <=> jobs[v].request = r
      BY <1>3, <1>5, <2>1, <2>3 DEF current
    <3> QED
      BY <3>1, <3>2 DEF TypeInv, TypeOK
  <2> QED
    BY <2>2, <2>3
<1>8. HandOK(Idle)
  BY DEF HandOK, Idle
<1>9. ChangeInHand'
  BY <1>3, <1>8, HandKept
<1> QED
  BY <1>2, <1>4, <1>6, <1>7, <1>9 DEF JobsOK

LEMMA OverByState ==
  ASSUME TypeInv, NEW w \in Workers, ~At(w, "idle"), NEW s \in {"settled", "waiting"},
         Over(w, s), UNCHANGED changes
  PROVE  JobsOK' /\ ChangeInHand'
<1> DEFINE q == [requests[current(w)] EXCEPT !.state = s]
<1>1. requests[current(w)] \in RequestRecord
  BY BusyHasRequest DEF TypeInv, TypeOK
<1>2. q \in RequestRecord /\ q.state # "running"
  BY <1>1 DEF RequestRecord
<1>3. jobs' = [jobs EXCEPT ![w] = Idle] /\ requests' = [requests EXCEPT ![current(w)] = q]
  BY DEF Over
<1> HIDE DEF q
<1> QED
  BY <1>2, <1>3, OverJobs

LEMMA FailJobs ==
  ASSUME TypeInv, NEW w \in Workers, ~At(w, "idle"), Fail(w), UNCHANGED changes
  PROVE  JobsOK' /\ ChangeInHand'
<1> DEFINE s == AfterFailure(w)
<1>1. s \in {"settled", "waiting"}
  BY DEF AfterFailure
<1>2. Over(w, s)
  BY DEF Fail
<1> HIDE DEF s
<1> QED
  BY <1>1, <1>2, OverByState

\* The rest of the types, which is all that the world disturbs.
WorldOK ==
  /\ changes \in [Changes -> ChangeRecord]
  /\ forge \in [exists : BOOLEAN, commits : SUBSET (Changes \cup {Theirs}), open : BOOLEAN]
  /\ bucket \in [Locations -> PlaceRecord]
  /\ executions \in [Changes -> ExecutionRecord]
  /\ \A c \in Changes : executions[c].step # "none" => executions[c].at \in Locations
  /\ posts \in Nat /\ faults \in Nat /\ meddling \in Nat
  /\ past \in [passed : SUBSET (0..MaxChanges), offered : SUBSET Changes]
  /\ forge.open => forge.exists

LEMMA TypeParts ==
  ASSUME JobsOK', WorldOK', ChangeInHand'
  PROVE  TypeInv'
  BY DEF TypeInv, TypeOK, JobsOK, WorldOK

\* A fault, or none, leaves the number of faults a number.
LEMMA FaultTypes ==
  ASSUME TypeInv, NEW f, Fault(f) \/ NoFault
  PROVE  faults' \in Nat
  BY DEF Fault, NoFault, TypeInv, TypeOK

\* What the hand of a job that has a change holds.
LEMMA HandHolds ==
  ASSUME TypeInv, NEW w \in Workers,
         jobs[w].step \in {"changes", "stage", "execute", "await", "push", "open"}
  PROVE  /\ change(w) \in Changes
         /\ changes[change(w)].is \in {"nothing", "outside", "edits"}
         /\ jobs[w].step # "changes" => changes[change(w)].is = "edits"
  BY DEF TypeInv, TypeOK, ChangeInHand, HandOK, ChangeRecord, change

\* The ways a step leaves the job, where the change in hand is not new.
Asking == {"find", "clone", "branch", "agent"}
Editing == {"stage", "execute", "await", "push", "open"}

Leaves(w) ==
  \/ Fail(w)
  \/ \E s \in {"settled", "waiting"} : Over(w, s)
  \/ \E what \in Replies : Reply(w, what)
  \/ \E s \in Asking : GoTo(w, s)
  \/ /\ \E s \in Editing : GoTo(w, s)
     /\ change(w) \in Changes
     /\ changes[change(w)].is = "edits"

LEMMA LeavesJobs ==
  ASSUME TypeInv, NEW w \in Workers, ~At(w, "idle"), UNCHANGED changes, Leaves(w)
  PROVE  JobsOK' /\ ChangeInHand'
<1>1. ASSUME NEW s \in Asking, GoTo(w, s) PROVE JobsOK' /\ ChangeInHand'
  <2>1. s \in Steps \ {"idle", "say"} /\ s \notin Editing \cup {"changes"}
    BY DEF Asking, Editing, Steps
  <2> QED
    BY <1>1, <2>1, GoToJobs DEF Editing
<1>2. ASSUME NEW s \in Editing, GoTo(w, s), change(w) \in Changes,
             changes[change(w)].is = "edits"
      PROVE  JobsOK' /\ ChangeInHand'
  <2>1. s \in Steps \ {"idle", "say"}
    BY DEF Editing, Steps
  <2> QED
    BY <1>2, <2>1, GoToJobs
<1> QED
  BY <1>1, <1>2, FailJobs, OverByState, ReplyJobs DEF Leaves

\* The steps of a job before anything is staged.
LEMMA AskingTypes ==
  ASSUME TypeInv, NEW w \in Workers,
         Gate(w) \/ Find(w) \/ Clone(w) \/ CheckBranch(w) \/ LookAtChanges(w)
  PROVE  TypeInv'
<1> USE DEF Replies, Refusals, Denials, Asking, Editing
<1>1. WorldOK'
  BY FaultTypes DEF Gate, Find, Clone, CheckBranch, LookAtChanges, FailsBy, Fault, NoFault,
     TypeInv, TypeOK, WorldOK, world
<1>2. UNCHANGED changes /\ ~At(w, "idle")
  BY DEF Gate, Find, Clone, CheckBranch, LookAtChanges, At
<1>3. Leaves(w)
  <2>1. CASE Gate(w)
    BY <2>1 DEF Gate, Leaves
  <2>2. CASE Find(w) \/ CheckBranch(w)
    BY <2>2 DEF Find, CheckBranch, FailsBy, Leaves
  <2>3. CASE Clone(w)
    BY <2>3 DEF Clone, FailsBy, Leaves
  <2>4. CASE LookAtChanges(w)
    <3>1. /\ change(w) \in Changes
          /\ changes[change(w)].is \in {"nothing", "outside", "edits"}
      BY <2>4, HandHolds DEF LookAtChanges, At
    <3> QED
      BY <2>4, <3>1 DEF LookAtChanges, NotEditable, Leaves
  <2> QED
    BY <2>1, <2>2, <2>3, <2>4
<1> QED
  BY <1>1, <1>2, <1>3, LeavesJobs, TypeParts

\* The steps that verify and publish.
LEMMA VerifyingTypes ==
  ASSUME TypeInv, NEW w \in Workers, Stage(w) \/ Execute(w) \/ Await(w) \/ Push(w) \/ Open(w)
  PROVE  TypeInv'
<1> USE DEF Replies, Refusals, Denials, Asking, Editing
<1>1. UNCHANGED changes /\ ~At(w, "idle")
  BY DEF Stage, Execute, Await, Push, Open, At
<1>2. change(w) \in Changes /\ changes[change(w)].is = "edits"
  BY HandHolds DEF Stage, Execute, Await, Push, Open, At
<1>3. change(w) \in Nat /\ change(w) # 0 /\ change(w) \in 0..MaxChanges
  BY <1>2, ImplementConstants DEF Changes
<1>4. Leaves(w)
  BY <1>2 DEF Stage, Execute, Await, Push, Open, NotOpened, FailsBy, Leaves
<1>5. faults' \in Nat
  BY FaultTypes DEF Stage, Execute, Await, Push, Open, FailsBy
<1>6. WorldOK'
  <2>1. CASE Stage(w)
    <3>1. ASSUME NEW whole \in BOOLEAN, Staged(change(w), change(w), whole)
          PROVE  bucket' \in [Locations -> PlaceRecord]
      <4> DEFINE b == [bucket[change(w)] EXCEPT !.change = change(w), !.whole = whole]
      <4>0. bucket[change(w)] \in PlaceRecord
        BY <1>2 DEF TypeInv, TypeOK, Locations, Changes
      <4>1. b \in PlaceRecord
        BY <1>3, <4>0 DEF PlaceRecord
      <4>2. bucket' = [bucket EXCEPT ![change(w)] = b]
        BY <3>1 DEF Staged
      <4> HIDE DEF b
      <4> QED
        BY <4>1, <4>2 DEF TypeInv, TypeOK
    <3>2. bucket' \in [Locations -> PlaceRecord]
      <4>1. \/ UNCHANGED bucket
            \/ \E whole \in BOOLEAN : Staged(change(w), change(w), whole)
        BY <2>1 DEF Stage, Location
      <4> QED
        BY <4>1, <3>1 DEF TypeInv, TypeOK
    <3>3. UNCHANGED <<forge, executions, past, posts, meddling>>
      BY <2>1 DEF Stage
    <3> QED
      BY <1>1, <1>5, <3>2, <3>3 DEF TypeInv, TypeOK, WorldOK
  <2>2. CASE Execute(w)
    <3> DEFINE e == [at |-> Location(change(w)), step |-> "started", tree |-> NoTree]
               started == [executions EXCEPT ![change(w)] = e]
    <3>1. /\ started \in [Changes -> ExecutionRecord]
          /\ \A c \in Changes : started[c].step # "none" => started[c].at \in Locations
      <4>1. e \in ExecutionRecord /\ e.at \in Locations
        BY <1>2, <1>3, ImplementConstants DEF ExecutionRecord, NoTree, Location, Locations, Changes
      <4> HIDE DEF e
      <4> QED
        BY <4>1 DEF TypeInv, TypeOK
    <3>2. executions' \in {executions, started}
      BY <2>2 DEF Execute
    <3>3. UNCHANGED <<forge, bucket, past, posts, meddling>>
      BY <2>2 DEF Execute
    <3> HIDE DEF e, started
    <3> QED
      BY <1>1, <1>5, <3>1, <3>2, <3>3 DEF TypeInv, TypeOK, WorldOK
  <2>3. CASE Await(w)
    BY <1>5, <2>3 DEF Await, TypeInv, TypeOK, WorldOK, world
  <2>4. CASE Push(w)
    <3> DEFINE pushed == [forge EXCEPT !.exists = TRUE, !.commits = {change(w)}]
    <3>1. forge' \in {forge, pushed}
      BY <2>4 DEF Push
    <3>2. /\ pushed \in [exists : BOOLEAN, commits : SUBSET (Changes \cup {Theirs}), open : BOOLEAN]
          /\ pushed.exists
      BY <1>2 DEF TypeInv, TypeOK
    <3> HIDE DEF pushed
    <3> QED
      BY <1>5, <2>4, <3>1, <3>2 DEF Push, TypeInv, TypeOK, WorldOK
  <2>5. CASE Open(w)
    <3> DEFINE opened == [forge EXCEPT !.open = TRUE]
               offered == [past EXCEPT !.offered = @ \cup (forge.commits \cap Changes)]
    <3>1. /\ forge' = forge \/ (forge' = opened /\ forge.exists)
          /\ past' \in {past, offered}
      BY <2>5 DEF Open
    <3>2. /\ opened \in [exists : BOOLEAN, commits : SUBSET (Changes \cup {Theirs}), open : BOOLEAN]
          /\ opened.exists = forge.exists
          /\ offered \in [passed : SUBSET (0..MaxChanges), offered : SUBSET Changes]
      BY DEF TypeInv, TypeOK
    <3> HIDE DEF opened, offered
    <3> QED
      BY <1>5, <2>5, <3>1, <3>2 DEF Open, TypeInv, TypeOK, WorldOK
  <2> QED
    BY <2>1, <2>2, <2>3, <2>4, <2>5
<1> QED
  BY <1>1, <1>4, <1>6, LeavesJobs, TypeParts

\* The last step of a job: the reply.
LEMMA SayTypes ==
  ASSUME TypeInv, NEW w \in Workers, Say(w)
  PROVE  TypeInv'
<1>1. ~At(w, "idle") /\ UNCHANGED changes /\ jobs[w].step = "say"
  BY DEF Say, At
<1>2. jobs[w].say \in Replies
  BY <1>1 DEF TypeInv, TypeOK, ChangeInHand, HandOK, JobRecord
<1>3. requests[current(w)] \in RequestRecord
  BY <1>1, BusyHasRequest DEF TypeInv, TypeOK
<1>4. PICK what \in Replies \cup {"none", "limited"}, state \in {"settled", "waiting"} :
        /\ requests' = [requests EXCEPT ![current(w)].told = what, ![current(w)].state = state]
        /\ jobs' = [jobs EXCEPT ![w] = Idle]
  <2>1. AfterFailure(w) \in {"settled", "waiting"}
    BY DEF AfterFailure
  <2>2. requests[current(w)].told \in Replies \cup {"none", "limited"}
    BY <1>3 DEF RequestRecord
  <2> QED
    BY <1>2, <2>1, <2>2 DEF Say
<1> DEFINE q == [requests[current(w)] EXCEPT !.told = what, !.state = state]
<1>5. q \in RequestRecord /\ q.state # "running"
  BY <1>3 DEF RequestRecord
<1>6. requests' = [requests EXCEPT ![current(w)] = q]
  BY <1>4
<1> HIDE DEF q
<1>7. JobsOK' /\ ChangeInHand'
  BY <1>1, <1>4, <1>5, <1>6, OverJobs
<1>8. WorldOK'
  BY FaultTypes DEF Say, TypeInv, TypeOK, WorldOK, world
<1> QED
  BY <1>7, <1>8, TypeParts

\* The agent's run gives a new change to whoever ran it, and to nobody else.
LEMMA AgentTypes ==
  ASSUME TypeInv, NEW w \in Workers, Agent(w)
  PROVE  TypeInv'
<1>1. CASE UNCHANGED changes
  <2>1. Leaves(w)
    <3>1. \A c \in Changes, is \in {"nothing", "outside", "edits"} :
            changes[c].is = "unborn" => changes # [changes EXCEPT ![c] = [for |-> current(w), is |-> is]]
      BY DEF TypeInv, TypeOK
    <3> QED
      BY <1>1, <3>1 DEF Agent, FailsBy, Leaves, Replies, Refusals, Denials
  <2>2. ~At(w, "idle")
    BY DEF Agent, At
  <2>3. WorldOK'
    BY <1>1, FaultTypes DEF Agent, FailsBy, TypeInv, TypeOK, WorldOK, world
  <2> QED
    BY <1>1, <2>1, <2>2, <2>3, LeavesJobs, TypeParts
<1>2. CASE ~UNCHANGED changes
  <2>1. PICK c \in Changes, is \in {"nothing", "outside", "edits"} :
          /\ changes[c].is = "unborn"
          /\ changes' = [changes EXCEPT ![c] = [for |-> current(w), is |-> is]]
          /\ jobs' = [jobs EXCEPT ![w].step = "changes", ![w].change = c]
          /\ UNCHANGED requests
    BY <1>2 DEF Agent
  <2>2. ~At(w, "idle") /\ UNCHANGED <<world, posts, meddling>> /\ faults' \in Nat
    BY FaultTypes DEF Agent, At, FailsBy
  <2> DEFINE j == [jobs[w] EXCEPT !.step = "changes", !.change = c]
             n == [for |-> current(w), is |-> is]
  <2>3. jobs[w] \in JobRecord /\ c \in 0..MaxChanges /\ current(w) \in 0..MaxRequests
    BY ImplementConstants DEF TypeInv, TypeOK, Changes, JobRecord, current
  <2>4. j \in JobRecord /\ j.request = current(w) /\ j.step = "changes" /\ j.change = c
    BY <2>3 DEF JobRecord, current, Steps
  <2>5. jobs' = [jobs EXCEPT ![w] = j]
    BY <2>1
  <2>6. n \in ChangeRecord /\ n.is # "unborn"
    BY <2>3 DEF ChangeRecord
  <2>7. changes' = [changes EXCEPT ![c] = n]
    BY <2>1
  <2> HIDE DEF j, n
  <2>8. JobsOK'
    BY <2>1, <2>2, <2>4, <2>5, GoesOn
  <2>9. changes' \in [Changes -> ChangeRecord] /\ changes'[c] = n
        /\ \A b \in Changes \ {c} : changes'[b] = changes[b]
    BY <2>6, <2>7 DEF TypeInv, TypeOK
  <2>10. WorldOK'
    BY <2>2, <2>9 DEF TypeInv, TypeOK, WorldOK, world
  <2>11. ASSUME NEW v \in Workers PROVE HandOK(jobs[v])'
    <3>1. CASE v = w
      <4>1. jobs'[v] = j
        BY <2>5, <3>1 DEF TypeInv, TypeOK
      <4> QED
        BY <2>4, <2>6, <2>9, <4>1 DEF HandOK
    <3>2. CASE v # w
      <4>1. jobs'[v] = jobs[v]
        BY <2>5, <3>2 DEF TypeInv, TypeOK
      <4>2. HandOK(jobs[v])
        BY DEF TypeInv, ChangeInHand
      <4>3. jobs[v].change \in Changes /\ changes[jobs[v].change].is # "unborn" =>
              changes'[jobs[v].change] = changes[jobs[v].change]
        BY <2>1, <2>9
      <4> QED
        BY <4>1, <4>2, <4>3 DEF HandOK
    <3> QED
      BY <3>1, <3>2
  <2> QED
    BY <2>8, <2>10, <2>11, TypeParts DEF ChangeInHand
<1> QED
  BY <1>1, <1>2

\* Steps that change requests and jobs only: what the guard does.
LEMMA GuardTypes ==
  ASSUME TypeInv, NEW r \in Requests
  PROVE  /\ \A w \in Workers : Begin(w, r) => TypeInv'
         /\ \A k \in {"implement", "plan"} : Ask(r, k) => TypeInv'
         /\ DeadLetter(r) => TypeInv'
         /\ \A w \in Workers : Crash(w) => TypeInv'
<1>0. /\ requests \in [Requests -> RequestRecord] /\ requests[r] \in RequestRecord
      /\ jobs \in [Workers -> JobRecord]
      /\ \A p \in Requests : requests[p].state = "running" <=> \E w \in Workers : jobs[w].request = p
      /\ OneSlotEach /\ ChangeInHand
  BY DEF TypeInv, TypeOK
<1>1. ASSUME NEW w \in Workers, Begin(w, r) PROVE TypeInv'
  <2> DEFINE q == [state |-> "running", tries |-> requests[r].tries + 1,
                   kind |-> requests[r].kind, told |-> "none"]
             j == [request |-> r, step |-> "gate", change |-> 0, say |-> "none",
                   shared |-> Busy # {}]
  <2>1. q \in RequestRecord /\ q.state = "running"
    <3>1. requests[r] \in RequestRecord
      BY <1>0
    <3>2. requests[r].tries + 1 \in Nat /\ requests[r].kind \in {"implement", "plan"}
      BY <3>1 DEF RequestRecord
    <3> QED
      BY <3>2 DEF RequestRecord
  <2>2. requests' = [requests EXCEPT ![r] = q]
    BY <1>0, <1>1 DEF Begin
  <2>3. r \in 0..MaxRequests /\ r # 0
    BY ImplementConstants DEF Requests
  <2>4. j \in JobRecord /\ j.request = r /\ j.step = "gate"
    <3>1. 0 \in 0..MaxChanges
      BY ImplementConstants
    <3>2. (Busy # {}) \in BOOLEAN
      OBVIOUS
    <3> QED
      BY <2>3, <3>1, <3>2 DEF JobRecord, Steps
  <2>5. /\ jobs' = [v \in Workers |-> IF v = w THEN j
                                      ELSE [jobs[v] EXCEPT !.shared = @ \/ v \in Busy]]
        /\ At(w, "idle") /\ requests[r].state = "waiting" /\ UNCHANGED changes
    BY <1>1 DEF Begin
  <2> HIDE DEF q, j
  <2>6. jobs'[w] = j
    BY <2>5
  <2>7. ASSUME NEW v \in Workers, v # w
        PROVE  /\ jobs'[v] \in JobRecord /\ jobs'[v].request = jobs[v].request
               /\ jobs'[v].step = jobs[v].step /\ jobs'[v].change = jobs[v].change
               /\ jobs'[v].say = jobs[v].say
    <3>1. jobs'[v] = [jobs[v] EXCEPT !.shared = jobs[v].shared \/ v \in Busy]
      BY <2>5, <2>7
    <3>2. jobs[v] \in JobRecord
      BY <1>0
    <3>3. (jobs[v].shared \/ v \in Busy) \in BOOLEAN
      OBVIOUS
    <3> QED
      BY <3>1, <3>2, <3>3 DEF JobRecord
  <2>8. requests' \in [Requests -> RequestRecord] /\ requests'[r].state = "running"
        /\ \A p \in Requests \ {r} : requests'[p] = requests[p]
    BY <1>0, <2>1, <2>2
  <2>9. \A v \in Workers : jobs[v].request # r
    BY <1>0, <2>5
  <2>10. OneSlotEach'
    BY <1>0, <2>3, <2>4, <2>6, <2>7, <2>9 DEF OneSlotEach, At
  <2>11. jobs[w].request = 0
    BY <1>0, <2>5 DEF OneSlotEach
  <2>12. ASSUME NEW p \in Requests
         PROVE  requests'[p].state = "running" <=> \E v \in Workers : jobs'[v].request = p
    <3>1. CASE p = r
      BY <2>4, <2>6, <2>8, <3>1
    <3>2. CASE p # r
      <4>1. p # 0
        BY ImplementConstants DEF Requests
      <4>2. \A v \in Workers : jobs'[v].request = p <=> jobs[v].request = p
        BY <2>4, <2>6, <2>7, <2>11, <3>2, <4>1
      <4> QED
        BY <1>0, <2>8, <3>2, <4>2
    <3> QED
      BY <3>1, <3>2
  <2>13. jobs' \in [Workers -> JobRecord]
    BY <2>4, <2>5, <2>6, <2>7
  <2>14. JobsOK'
    BY <2>8, <2>10, <2>12, <2>13 DEF JobsOK
  <2>15. WorldOK'
    BY <1>1, FaultTypes DEF Begin, WorldOK, world, TypeInv, TypeOK
  <2>16. ChangeInHand'
    BY <1>0, <2>4, <2>5, <2>6, <2>7 DEF ChangeInHand, HandOK
  <2> QED
    BY <2>14, <2>15, <2>16, TypeParts
<1>2. ASSUME NEW q \in RequestRecord, q.state # "running", requests[r].state # "running",
             requests' = [requests EXCEPT ![r] = q],
             UNCHANGED <<jobs, changes, world, posts, faults, meddling>>
      PROVE  TypeInv'
  <2>1. requests' \in [Requests -> RequestRecord]
    BY <1>0, <1>2
  <2>2. \A p \in Requests : requests'[p].state = "running" <=> requests[p].state = "running"
    BY <1>0, <1>2
  <2>3. JobsOK'
    BY <1>0, <1>2, <2>1, <2>2 DEF JobsOK, OneSlotEach, At
  <2>4. WorldOK'
    BY <1>2 DEF WorldOK, world, TypeInv, TypeOK
  <2>5. ChangeInHand'
    BY <1>0, <1>2 DEF ChangeInHand, HandOK
  <2> QED
    BY <2>3, <2>4, <2>5, TypeParts
<1>3. ASSUME NEW k \in {"implement", "plan"}, Ask(r, k) PROVE TypeInv'
  <2> DEFINE q == [requests[r] EXCEPT !.state = "waiting", !.kind = k]
  <2>1. q \in RequestRecord /\ q.state # "running"
    BY <1>0 DEF RequestRecord
  <2>2. requests' = [requests EXCEPT ![r] = q] /\ requests[r].state # "running"
    BY <1>0, <1>3 DEF Ask
  <2> HIDE DEF q
  <2> QED
    BY <1>2, <1>3, <2>1, <2>2 DEF Ask
<1>4. ASSUME DeadLetter(r) PROVE TypeInv'
  <2> DEFINE q == [requests[r] EXCEPT !.state = "dead"]
  <2>1. q \in RequestRecord /\ q.state # "running"
    BY <1>0 DEF RequestRecord
  <2>2. requests' = [requests EXCEPT ![r] = q] /\ requests[r].state # "running"
    BY <1>0, <1>4 DEF DeadLetter
  <2> HIDE DEF q
  <2> QED
    BY <1>2, <1>4, <2>1, <2>2 DEF DeadLetter
<1>5. ASSUME NEW w \in Workers, Crash(w) PROVE TypeInv'
  <2>1. ~At(w, "idle") /\ Over(w, "waiting") /\ UNCHANGED changes
    BY <1>5 DEF Crash, Busy
  <2>2. JobsOK' /\ ChangeInHand'
    BY <2>1, OverByState
  <2>3. WorldOK'
    BY <1>5, FaultTypes DEF Crash, WorldOK, world, TypeInv, TypeOK
  <2> QED
    BY <2>2, <2>3, TypeParts
<1> QED
  BY <1>1, <1>3, <1>4, <1>5

\* People and the clock touch neither requests nor jobs.
LEMMA OutsideTypes ==
  ASSUME TypeInv, Meddle \/ NewHour
  PROVE  TypeInv'
<1>1. UNCHANGED <<requests, jobs, changes, bucket, executions, past, faults>>
  BY DEF Meddle, NewHour, world
<1>2. JobsOK' /\ ChangeInHand'
  BY <1>1 DEF TypeInv, TypeOK, JobsOK, OneSlotEach, At, ChangeInHand, HandOK
<1>3. CASE Meddle
  <2>1. meddling' \in Nat /\ UNCHANGED posts
    BY <1>3 DEF Meddle, TypeInv, TypeOK
  <2> DEFINE made == [forge EXCEPT !.exists = TRUE]
             committed == [forge EXCEPT !.exists = TRUE, !.commits = forge.commits \cup {Theirs}]
             gone == [exists |-> FALSE, commits |-> {}, open |-> FALSE]
             closed == [forge EXCEPT !.open = FALSE]
             Type == [exists : BOOLEAN, commits : SUBSET (Changes \cup {Theirs}), open : BOOLEAN]
  <2>2. forge' \in {made, committed, gone, closed}
    BY <1>3 DEF Meddle
  <2>3. forge \in Type /\ (forge.open => forge.exists)
    BY DEF TypeInv, TypeOK
  <2>4. made \in Type /\ made.exists
    BY <2>3
  <2>5. committed \in Type /\ committed.exists
    BY <2>3 DEF Theirs
  <2>6. gone \in Type /\ ~gone.open
    OBVIOUS
  <2>7. closed \in Type /\ ~closed.open
    BY <2>3
  <2> HIDE DEF made, committed, gone, closed
  <2>8. forge' \in Type /\ (forge'.open => forge'.exists)
    BY <2>2, <2>4, <2>5, <2>6, <2>7
  <2> QED
    BY <1>1, <1>2, <2>1, <2>8, TypeParts DEF TypeInv, TypeOK, WorldOK
<1>4. CASE NewHour
  BY <1>1, <1>2, <1>4, TypeParts DEF NewHour, world, TypeInv, TypeOK, WorldOK
<1> QED
  BY <1>3, <1>4

\* Neither do the runners.
LEMMA RunnerTypes ==
  ASSUME TypeInv, NEW c \in Changes, RunnerReads(c) \/ RunnerEnds(c)
  PROVE  TypeInv'
<1>1. UNCHANGED <<requests, jobs, changes, forge, posts, meddling>>
  BY DEF RunnerReads, RunnerEnds
<1>2. JobsOK' /\ ChangeInHand'
  BY <1>1 DEF TypeInv, TypeOK, JobsOK, OneSlotEach, At, ChangeInHand, HandOK
<1>3. faults' \in Nat
  BY FaultTypes DEF RunnerReads, RunnerEnds, TypeInv, TypeOK
<1>4. executions[c] \in ExecutionRecord /\ executions[c].step # "none"
      /\ executions[c].at \in Locations
  BY DEF RunnerReads, RunnerEnds, TypeInv, TypeOK
<1>5. CASE RunnerReads(c)
  <2> DEFINE b == bucket[executions[c].at]
             t == [change |-> b.change, whole |-> b.whole]
             e == [executions[c] EXCEPT !.step = "running", !.tree = t]
  <2>1. b \in PlaceRecord
    BY <1>4 DEF TypeInv, TypeOK
  <2>2. t \in [change : 0..MaxChanges, whole : BOOLEAN]
    BY <2>1 DEF PlaceRecord
  <2>3. executions' = [executions EXCEPT ![c] = e]
    BY <1>5 DEF RunnerReads
  <2> HIDE DEF t
  <2>4. e \in ExecutionRecord /\ e.at \in Locations
    BY <1>4, <2>2 DEF ExecutionRecord
  <2> HIDE DEF e
  <2>5. UNCHANGED <<bucket, past>>
    BY <1>5 DEF RunnerReads
  <2> QED
    BY <1>1, <1>2, <1>3, <2>3, <2>4, <2>5, TypeParts DEF TypeInv, TypeOK, WorldOK
<1>6. CASE RunnerEnds(c)
  <2> DEFINE e == [executions[c] EXCEPT !.step = "over"]
             b(result) == [bucket[executions[c].at] EXCEPT !.result = result]
             p == [past EXCEPT !.passed = past.passed \cup {executions[c].tree.change}]
  <2>1. e \in ExecutionRecord /\ e.at \in Locations
    BY <1>4 DEF ExecutionRecord
  <2>2. executions' = [executions EXCEPT ![c] = e]
    BY <1>6 DEF RunnerEnds
  <2>3. bucket' \in [Locations -> PlaceRecord]
    <3>1. bucket[executions[c].at] \in PlaceRecord
      BY <1>4 DEF TypeInv, TypeOK
    <3>2. b("passed") \in PlaceRecord /\ b("failed") \in PlaceRecord
      BY <3>1 DEF PlaceRecord
    <3>3. \/ UNCHANGED bucket
          \/ bucket' = [bucket EXCEPT ![executions[c].at] = b("passed")]
          \/ bucket' = [bucket EXCEPT ![executions[c].at] = b("failed")]
      BY <1>6 DEF RunnerEnds
    <3> HIDE DEF b
    <3> QED
      BY <3>2, <3>3 DEF TypeInv, TypeOK
  <2>4. past' \in [passed : SUBSET (0..MaxChanges), offered : SUBSET Changes]
    <3>1. executions[c].tree.change \in 0..MaxChanges
      BY <1>4 DEF ExecutionRecord
    <3>2. p \in [passed : SUBSET (0..MaxChanges), offered : SUBSET Changes]
      BY <3>1 DEF TypeInv, TypeOK
    <3>3. past' \in {past, p}
      BY <1>6 DEF RunnerEnds
    <3> HIDE DEF p
    <3> QED
      BY <3>2, <3>3 DEF TypeInv, TypeOK
  <2> HIDE DEF e
  <2> QED
    BY <1>1, <1>2, <1>3, <2>1, <2>2, <2>3, <2>4, TypeParts DEF TypeInv, TypeOK, WorldOK
<1> QED
  BY <1>5, <1>6

LEMMA NextTypeInv == TypeInv /\ [Next]_vars => TypeInv'
<1> SUFFICES ASSUME TypeInv, [Next]_vars PROVE TypeInv'
  OBVIOUS
<1>1. ASSUME NEW w \in Workers, Step(w) PROVE TypeInv'
  BY <1>1, AskingTypes, VerifyingTypes, AgentTypes, SayTypes DEF Step
<1>2. ASSUME NEW w \in Workers, Crash(w) PROVE TypeInv'
  <2>1. current(w) \in Requests
    BY <1>2, BusyHasRequest DEF Crash, Busy
  <2> QED
    BY <1>2, <2>1, GuardTypes
<1>3. CASE UNCHANGED vars
  BY <1>3 DEF vars, world, TypeInv, TypeOK, OneSlotEach, ChangeInHand, HandOK, At
<1> QED
  BY <1>1, <1>2, <1>3, GuardTypes, RunnerTypes, OutsideTypes DEF Next

\* Every variable keeps its type; a request is being handled exactly as long as
\* a worker has it, and a pull request is open only on a branch there is.
THEOREM ImplementTypeCorrect == Spec => []TypeOK
<1>1. Init => TypeInv
  BY InitTypeInv
<1>2. TypeInv /\ [Next]_vars => TypeInv'
  BY NextTypeInv
<1>3. TypeInv => TypeOK
  BY DEF TypeInv
<1> QED
  BY <1>1, <1>2, <1>3, PTL DEF Spec

-----------------------------------------------------------------------------
(* What is offered was verified.                                           *)

\* Everything about the verification of a change stays with that change: the
\* place, the tree staged there, the tree the runner unpacked, the verdict.
VerifyInv ==
  /\ \A c \in Changes : executions[c].step # "none" => executions[c].at = c
  /\ \A l \in Locations : bucket[l].whole => bucket[l].change = l
  /\ \A c \in Changes : executions[c].tree.whole => executions[c].tree.change = c
  /\ \A l \in Locations : bucket[l].result = "passed" => l \in past.passed
  /\ \A w \in Workers : At(w, "push") => change(w) \in past.passed
  /\ OnlyVerifiedOffered

LEMMA InitVerifyInv == Init => VerifyInv
  BY DEF Init, VerifyInv, OnlyVerifiedOffered, NoTree, Idle, At, Changes, Locations

\* Nobody comes to push a change.
NobodyToPush ==
  \A v \in Workers : jobs'[v].step = "push" =>
    jobs[v].step = "push" /\ jobs'[v].change = jobs[v].change

\* Nothing is added to the branch, nor a change that is there made another.
NothingPushed ==
  \A c \in Changes :
    /\ c \in forge'.commits => c \in forge.commits
    /\ c \in forge.commits => changes'[c].is = changes[c].is

\* What most steps do not disturb.
LEMMA VerifyKept ==
  ASSUME VerifyInv, UNCHANGED <<executions, bucket>>, past.passed \subseteq past'.passed,
         NobodyToPush, NothingPushed
  PROVE  VerifyInv'
<1>1. (\A w \in Workers : At(w, "push") => change(w) \in past.passed)'
  BY DEF VerifyInv, NobodyToPush, At, change
<1>2. OnlyVerifiedOffered'
  BY DEF VerifyInv, OnlyVerifiedOffered, NothingPushed
<1> QED
  BY <1>1, <1>2 DEF VerifyInv

LEMMA LeavesNobodyToPush ==
  ASSUME TypeInv, NEW w \in Workers
  PROVE  /\ \A s \in Steps \ {"push"} : GoTo(w, s) => NobodyToPush
         /\ \A what \in Replies : Reply(w, what) => NobodyToPush
         /\ \A state \in {"settled", "waiting"} : Over(w, state) => NobodyToPush
         /\ Fail(w) => NobodyToPush
<1>1. ASSUME NEW s \in Steps \ {"push"}, GoTo(w, s) PROVE NobodyToPush
  BY <1>1 DEF GoTo, NobodyToPush, TypeInv, TypeOK
<1>2. ASSUME NEW what \in Replies, Reply(w, what) PROVE NobodyToPush
  BY <1>2 DEF Reply, NobodyToPush, TypeInv, TypeOK
<1>3. ASSUME NEW state, Over(w, state) PROVE NobodyToPush
  BY <1>3 DEF Over, Idle, NobodyToPush, TypeInv, TypeOK
<1> QED
  BY <1>1, <1>2, <1>3 DEF Fail

\* The steps of a job that neither verify nor publish.
LEMMA OtherStepsVerify ==
  ASSUME TypeInv, VerifyInv, NEW w \in Workers,
         \/ Gate(w) \/ Find(w) \/ Clone(w) \/ CheckBranch(w) \/ LookAtChanges(w)
         \/ Agent(w) \/ Say(w) \/ Crash(w)
  PROVE  VerifyInv'
<1> USE DEF Replies, Refusals, Denials
<1>1. UNCHANGED world
  BY DEF Gate, Find, Clone, CheckBranch, LookAtChanges, Agent, Say, Crash
<1>2. NobodyToPush
  <2> USE LeavesNobodyToPush
  <2>1. CASE Gate(w) \/ Find(w) \/ Clone(w) \/ CheckBranch(w) \/ LookAtChanges(w) \/ Crash(w)
    BY <2>1 DEF Gate, Find, Clone, CheckBranch, LookAtChanges, Crash, FailsBy, Steps
  <2>2. CASE Agent(w)
    <3>1. \/ Fail(w) \/ Reply(w, "planned")
          \/ \E c \in Changes : jobs' = [jobs EXCEPT ![w].step = "changes", ![w].change = c]
      BY <2>2 DEF Agent, FailsBy
    <3>2. ASSUME NEW c \in Changes, jobs' = [jobs EXCEPT ![w].step = "changes", ![w].change = c]
          PROVE  NobodyToPush
      BY <3>2 DEF NobodyToPush, TypeInv, TypeOK
    <3> QED
      BY <3>1, <3>2
  <2>3. CASE Say(w)
    <3>1. jobs' = [jobs EXCEPT ![w] = Idle]
      BY <2>3 DEF Say
    <3> QED
      BY <3>1 DEF Idle, NobodyToPush, TypeInv, TypeOK
  <2> QED
    BY <2>1, <2>2, <2>3
<1>3. NothingPushed
  <2>1. CASE Agent(w)
    <3>1. \/ UNCHANGED changes
          \/ \E b \in Changes : \E n : changes[b].is = "unborn" /\ changes' = [changes EXCEPT ![b] = n]
      BY <2>1 DEF Agent
    <3>2. \A c \in Changes : c \in forge.commits => changes[c].is = "edits"
      BY DEF VerifyInv, OnlyVerifiedOffered
    <3> QED
      BY <1>1, <3>1, <3>2 DEF NothingPushed, world, TypeInv, TypeOK
  <2>2. CASE ~Agent(w)
    BY <1>1, <2>2 DEF NothingPushed, world, Gate, Find, Clone, CheckBranch, LookAtChanges, Say, Crash
  <2> QED
    BY <2>1, <2>2
<1> QED
  BY <1>1, <1>2, <1>3, VerifyKept DEF world

\* What happens outside the workers, the runners apart.
LEMMA WorldVerify ==
  ASSUME TypeInv, VerifyInv,
         \/ Meddle \/ NewHour
         \/ \E r \in Requests :
              \/ DeadLetter(r)
              \/ \E k \in {"implement", "plan"} : Ask(r, k)
              \/ \E w \in Workers : Begin(w, r)
  PROVE  VerifyInv'
<1>1. UNCHANGED <<executions, bucket, past, changes>>
  BY DEF Meddle, NewHour, DeadLetter, Ask, Begin, world
<1>2. NobodyToPush
  <2>1. ASSUME NEW w \in Workers, NEW r \in Requests, Begin(w, r) PROVE NobodyToPush
    <3>1. ASSUME NEW v \in Workers, v # w
          PROVE  jobs'[v] = [jobs[v] EXCEPT !.shared = jobs[v].shared \/ v \in Busy]
      BY <2>1, <3>1 DEF Begin
    <3>2. jobs'[w].step = "gate"
      BY <2>1 DEF Begin
    <3>3. \A v \in Workers : jobs[v] \in JobRecord
      BY DEF TypeInv, TypeOK
    <3>4. ASSUME NEW v \in Workers, v # w
          PROVE  jobs'[v].step = jobs[v].step /\ jobs'[v].change = jobs[v].change
      BY <3>1, <3>3, <3>4 DEF JobRecord
    <3> QED
      BY <3>2, <3>4 DEF NobodyToPush
  <2> QED
    BY <2>1 DEF Meddle, NewHour, DeadLetter, Ask, NobodyToPush
<1>3. NothingPushed
  <2>1. \A c \in Changes : c \in forge'.commits => c \in forge.commits
    <3>1. CASE Meddle
      <4>1. \A c \in Changes : c # Theirs
        BY ImplementConstants DEF Changes, Theirs
      <4>2. \/ forge' = [forge EXCEPT !.exists = TRUE]
            \/ forge' = [forge EXCEPT !.exists = TRUE, !.commits = forge.commits \cup {Theirs}]
            \/ forge' = [exists |-> FALSE, commits |-> {}, open |-> FALSE]
            \/ forge' = [forge EXCEPT !.open = FALSE]
        BY <3>1 DEF Meddle
      <4>3. \/ forge'.commits = forge.commits
            \/ forge'.commits = forge.commits \cup {Theirs}
            \/ forge'.commits = {}
        <5>1. forge \in [exists : BOOLEAN, commits : SUBSET (Changes \cup {Theirs}), open : BOOLEAN]
          BY DEF TypeInv, TypeOK
        <5>2. ASSUME forge' = [forge EXCEPT !.exists = TRUE, !.commits = forge.commits \cup {Theirs}]
              PROVE  forge'.commits = forge.commits \cup {Theirs}
          BY <5>1, <5>2
        <5>3. ASSUME \/ forge' = [forge EXCEPT !.exists = TRUE]
                     \/ forge' = [forge EXCEPT !.open = FALSE]
              PROVE  forge'.commits = forge.commits
          BY <5>1, <5>3
        <5>4. ASSUME forge' = [exists |-> FALSE, commits |-> {}, open |-> FALSE]
              PROVE  forge'.commits = {}
          BY <5>4
        <5> QED
          BY <4>2, <5>2, <5>3, <5>4
      <4> QED
        BY <4>1, <4>3
    <3>2. CASE ~Meddle
      BY <3>2 DEF NewHour, DeadLetter, Ask, Begin, world
    <3> QED
      BY <3>1, <3>2
  <2> QED
    BY <1>1, <2>1 DEF NothingPushed
<1> QED
  BY <1>1, <1>2, <1>3, VerifyKept

\* The tree of a change is staged at its own place, and its runner is sent there.
LEMMA StageExecuteVerify ==
  ASSUME TypeInv, VerifyInv, NEW w \in Workers, Stage(w) \/ Execute(w)
  PROVE  VerifyInv'
<1>1. NobodyToPush
  BY LeavesNobodyToPush DEF Stage, Execute, FailsBy, Steps
<1>2. NothingPushed
  BY DEF Stage, Execute, NothingPushed
<1>3. change(w) \in Changes
  BY HandHolds DEF Stage, Execute, At
<1>4. UNCHANGED past
  BY DEF Stage, Execute
<1>5. (\A v \in Workers : At(v, "push") => change(v) \in past.passed)' /\ OnlyVerifiedOffered'
  BY <1>1, <1>2, <1>4 DEF VerifyInv, NobodyToPush, NothingPushed, OnlyVerifiedOffered, At, change
<1>6. CASE Stage(w)
  <2>1. \A l \in Locations :
          /\ bucket'[l].result = bucket[l].result
          /\ bucket'[l].whole => bucket[l].whole \/ bucket'[l].change = l
          /\ bucket'[l].change = bucket[l].change \/ bucket'[l].change = l
    <3>1. \/ UNCHANGED bucket
          \/ \E whole \in BOOLEAN : Staged(change(w), change(w), whole)
      BY <1>6 DEF Stage, Location
    <3>2. ASSUME NEW whole \in BOOLEAN, Staged(change(w), change(w), whole), NEW l \in Locations
          PROVE  /\ bucket'[l].result = bucket[l].result
                 /\ bucket'[l].whole => bucket[l].whole \/ bucket'[l].change = l
                 /\ bucket'[l].change = bucket[l].change \/ bucket'[l].change = l
      <4>1. bucket[l] \in PlaceRecord
        BY DEF TypeInv, TypeOK
      <4> QED
        BY <3>2, <4>1 DEF Staged, PlaceRecord, TypeInv, TypeOK
    <3> QED
      BY <3>1, <3>2
  <2>2. UNCHANGED executions
    BY <1>6 DEF Stage
  <2>3. \A l \in Locations : bucket'[l].whole => bucket'[l].change = l
    BY <2>1 DEF VerifyInv
  <2>4. \A l \in Locations : bucket'[l].result = "passed" => l \in past'.passed
    <3>1. \A l \in Locations : bucket'[l].result = bucket[l].result
      BY <2>1
    <3>2. \A l \in Locations : bucket[l].result = "passed" => l \in past.passed
      BY DEF VerifyInv
    <3> QED
      BY <1>4, <3>1, <3>2
  <2> QED
    BY <1>5, <2>2, <2>3, <2>4 DEF VerifyInv
<1>7. CASE Execute(w)
  <2>1. UNCHANGED bucket
    BY <1>7 DEF Execute
  <2>2. \A c \in Changes :
          \/ executions'[c] = executions[c]
          \/ executions'[c].at = c /\ ~executions'[c].tree.whole
    BY <1>7 DEF Execute, Location, NoTree, TypeInv, TypeOK
  <2> QED
    BY <1>4, <1>5, <2>1, <2>2 DEF VerifyInv
<1> QED
  BY <1>6, <1>7

\* A verdict read at the place of a change is about that change.
LEMMA AwaitVerify ==
  ASSUME TypeInv, VerifyInv, NEW w \in Workers, Await(w)
  PROVE  VerifyInv'
<1>1. UNCHANGED world /\ UNCHANGED changes /\ change(w) \in Changes
  BY HandHolds DEF Await, At
<1>2. CASE GoTo(w, "push") /\ bucket[Location(change(w))].result = "passed"
  <2>1. change(w) \in past.passed
    BY <1>1, <1>2 DEF VerifyInv, Location, Locations, Changes
  <2>2. (\A v \in Workers : At(v, "push") => change(v) \in past.passed)'
    <3>1. ASSUME NEW v \in Workers, jobs'[v].step = "push"
          PROVE  jobs'[v].change \in past.passed
      <4>1. jobs'[v].change = jobs[v].change
        BY <1>2 DEF GoTo, TypeInv, TypeOK
      <4>2. v = w \/ jobs[v].step = "push"
        BY <1>2, <3>1 DEF GoTo, TypeInv, TypeOK
      <4> QED
        BY <2>1, <4>1, <4>2 DEF VerifyInv, At, change
    <3> QED
      BY <1>1, <3>1 DEF At, change, world
  <2> QED
    BY <1>1, <2>2 DEF VerifyInv, OnlyVerifiedOffered, world
<1>3. CASE Reply(w, "unverified") \/ Fail(w)
  <2>1. NobodyToPush
    BY <1>3, LeavesNobodyToPush DEF Replies, Denials
  <2>2. NothingPushed
    BY <1>1 DEF NothingPushed, world
  <2> QED
    BY <1>1, <2>1, <2>2, VerifyKept DEF world
<1> QED
  BY <1>2, <1>3 DEF Await, FailsBy

\* What is pushed, and so what is offered, is the change in hand.
LEMMA PublishVerify ==
  ASSUME TypeInv, VerifyInv, NEW w \in Workers, Push(w) \/ Open(w)
  PROVE  VerifyInv'
<1>1. UNCHANGED <<changes, bucket, executions>> /\ UNCHANGED past.passed
  BY DEF Push, Open, TypeInv, TypeOK
<1>2. NobodyToPush
  BY LeavesNobodyToPush DEF Push, Open, NotOpened, FailsBy, Steps, Replies
<1>3. change(w) \in Changes /\ changes[change(w)].is = "edits"
  BY HandHolds DEF Push, Open, At
<1>4. (\A v \in Workers : At(v, "push") => change(v) \in past.passed)'
  BY <1>1, <1>2 DEF VerifyInv, NobodyToPush, At, change
<1>5. OnlyVerifiedOffered'
  <2>1. CASE Push(w)
    <3>1. change(w) \in past.passed
      BY <2>1 DEF VerifyInv, Push
    <3>2. forge'.commits = forge.commits \/ forge'.commits = {change(w)}
      BY <2>1 DEF Push, TypeInv, TypeOK
    <3> QED
      BY <1>1, <1>3, <3>1, <3>2 DEF VerifyInv, OnlyVerifiedOffered
  <2>2. CASE Open(w)
    <3>1. forge'.commits = forge.commits
      BY <2>2 DEF Open, TypeInv, TypeOK
    <3> QED
      BY <1>1, <3>1 DEF VerifyInv, OnlyVerifiedOffered
  <2> QED
    BY <2>1, <2>2
<1> QED
  BY <1>1, <1>4, <1>5 DEF VerifyInv

\* A runner unpacks what is at its place and judges what it unpacked.
LEMMA RunnerVerify ==
  ASSUME TypeInv, VerifyInv, NEW c \in Changes, RunnerReads(c) \/ RunnerEnds(c)
  PROVE  VerifyInv'
<1>1. UNCHANGED <<jobs, forge, changes>>
  BY DEF RunnerReads, RunnerEnds
<1>2. executions[c].at = c /\ c \in Locations /\ executions[c] \in ExecutionRecord
  BY DEF RunnerReads, RunnerEnds, VerifyInv, Locations, Changes, TypeInv, TypeOK
<1>3. past.passed \subseteq past'.passed
  BY DEF RunnerReads, RunnerEnds, TypeInv, TypeOK
<1>4. (\A v \in Workers : At(v, "push") => change(v) \in past.passed)' /\ OnlyVerifiedOffered'
  BY <1>1, <1>3 DEF VerifyInv, OnlyVerifiedOffered, At, change
<1>5. CASE RunnerReads(c)
  <2> DEFINE t == [change |-> bucket[c].change, whole |-> bucket[c].whole]
             e == [executions[c] EXCEPT !.step = "running", !.tree = t]
  <2>1. executions' = [executions EXCEPT ![c] = e] /\ UNCHANGED <<bucket, past>>
    BY <1>2, <1>5 DEF RunnerReads
  <2>2. e.at = c /\ e.tree = t
    BY <1>2 DEF ExecutionRecord
  <2>3. t.whole => t.change = c
    BY <1>2 DEF VerifyInv
  <2> HIDE DEF e, t
  <2> QED
    BY <1>4, <2>1, <2>2, <2>3 DEF VerifyInv, TypeInv, TypeOK
<1>6. CASE RunnerEnds(c)
  <2>1. executions' = [executions EXCEPT ![c].step = "over"]
    BY <1>6 DEF RunnerEnds
  <2>2. \A b \in Changes :
          /\ executions'[b].at = executions[b].at
          /\ executions'[b].tree = executions[b].tree
          /\ executions'[b].step # "none" => executions[b].step # "none"
    BY <1>6, <2>1 DEF RunnerEnds, TypeInv, TypeOK, ExecutionRecord
  <2>3. \A l \in Locations :
          /\ bucket'[l].whole = bucket[l].whole
          /\ bucket'[l].change = bucket[l].change
    BY <1>6 DEF RunnerEnds, TypeInv, TypeOK, PlaceRecord
  <2>4. \A l \in Locations : bucket'[l].result = "passed" => l \in past'.passed
    <3>1. CASE executions[c].tree.whole /\ past'.passed = past.passed \cup {executions[c].tree.change}
               /\ bucket' = [bucket EXCEPT ![c].result = "passed"]
      BY <1>2, <3>1 DEF VerifyInv, TypeInv, TypeOK
    <3>2. CASE UNCHANGED past /\ (UNCHANGED bucket \/ bucket' = [bucket EXCEPT ![c].result = "failed"])
      <4>1. \A l \in Locations : bucket'[l].result = "passed" => bucket[l].result = "passed"
        BY <3>2 DEF TypeInv, TypeOK, PlaceRecord
      <4> QED
        BY <3>2, <4>1 DEF VerifyInv
    <3>3. \/ /\ executions[c].tree.whole
             /\ past' = [past EXCEPT !.passed = past.passed \cup {executions[c].tree.change}]
             /\ bucket' = [bucket EXCEPT ![c].result = "passed"]
          \/ /\ UNCHANGED past
             /\ UNCHANGED bucket \/ bucket' = [bucket EXCEPT ![c].result = "failed"]
      BY <1>2, <1>6 DEF RunnerEnds
    <3>4. past' = [past EXCEPT !.passed = past.passed \cup {executions[c].tree.change}] =>
            past'.passed = past.passed \cup {executions[c].tree.change}
      BY DEF TypeInv, TypeOK
    <3> QED
      BY <3>1, <3>2, <3>3, <3>4
  <2> QED
    BY <1>4, <2>2, <2>3, <2>4 DEF VerifyInv
<1> QED
  BY <1>5, <1>6

LEMMA NextVerifyInv == TypeInv /\ VerifyInv /\ [Next]_vars => VerifyInv'
<1> SUFFICES ASSUME TypeInv, VerifyInv, [Next]_vars PROVE VerifyInv'
  OBVIOUS
<1>1. ASSUME NEW w \in Workers, Step(w) \/ Crash(w) PROVE VerifyInv'
  BY <1>1, OtherStepsVerify, StageExecuteVerify, AwaitVerify, PublishVerify DEF Step
<1>2. CASE UNCHANGED vars
  BY <1>2 DEF vars, world, VerifyInv, OnlyVerifiedOffered, At, change
<1> QED
  BY <1>1, <1>2, WorldVerify, RunnerVerify DEF Next

\* OnlyVerifiedOffered holds however many workers, attempts, runners and faults
\* there are, and whatever people do to the branch.
THEOREM OnlyVerified == Spec => []OnlyVerifiedOffered
<1>1. Init => TypeInv /\ VerifyInv
  BY InitTypeInv, InitVerifyInv
<1>2. TypeInv /\ VerifyInv /\ [Next]_vars => (TypeInv /\ VerifyInv)'
  BY NextTypeInv, NextVerifyInv
<1>3. VerifyInv => OnlyVerifiedOffered
  BY DEF VerifyInv
<1> QED
  BY <1>1, <1>2, <1>3, PTL DEF Spec

-----------------------------------------------------------------------------
(* What a job's step leaves alone.                                         *)

\* A branch that is not there has no commits.
BranchHolds == ~forge.exists => forge.commits = {}

\* A step is about one job and its request.
LEMMA StepFrame ==
  ASSUME TypeInv, NEW w \in Workers, Step(w) \/ Crash(w)
  PROVE  /\ ~At(w, "idle") /\ current(w) \in Requests
         /\ \A v \in Workers \ {w} : jobs'[v] = jobs[v]
         /\ \A r \in Requests \ {current(w)} : requests'[r] = requests[r]
         /\ requests'[current(w)].kind = requests[current(w)].kind
         /\ UNCHANGED meddling
<1>1. ~At(w, "idle") /\ UNCHANGED meddling
  BY DEF Step, Gate, Find, Clone, CheckBranch, Agent, LookAtChanges, Stage, Execute, Await, Push, Open,
     Say, Crash, Busy, At
<1>2. current(w) \in Requests
  BY <1>1, BusyHasRequest
<1>3. \/ UNCHANGED requests
      \/ \E s : Over(w, s)
      \/ Say(w)
  BY DEF Step, Gate, Find, Clone, CheckBranch, Agent, LookAtChanges, Stage, Execute, Await, Push, Open,
     Crash, FailsBy, Fail, NotOpened, GoTo, Reply
<1>4. \/ UNCHANGED requests
      \/ \E s : requests' = [requests EXCEPT ![current(w)].state = s]
      \/ \E t, s : requests' = [requests EXCEPT ![current(w)].told = t, ![current(w)].state = s]
  BY <1>3 DEF Over, Say
<1>5. requests[current(w)] \in RequestRecord
  BY <1>2 DEF TypeInv, TypeOK
<1>6. /\ \A r \in Requests \ {current(w)} : requests'[r] = requests[r]
      /\ requests'[current(w)].kind = requests[current(w)].kind
  <2>1. PICK q : requests' = requests \/ requests' = [requests EXCEPT ![current(w)] = q]
    BY <1>4
  <2>2. \A r \in Requests \ {current(w)} : requests'[r] = requests[r]
    BY <2>1 DEF TypeInv, TypeOK
  <2>3. ASSUME NEW s, requests' = [requests EXCEPT ![current(w)].state = s]
        PROVE  requests'[current(w)].kind = requests[current(w)].kind
    BY <1>2, <1>5, <2>3 DEF RequestRecord, TypeInv, TypeOK
  <2>4. ASSUME NEW t, NEW s,
               requests' = [requests EXCEPT ![current(w)].told = t, ![current(w)].state = s]
        PROVE  requests'[current(w)].kind = requests[current(w)].kind
    <3>1. requests'[current(w)] = [requests[current(w)] EXCEPT !.told = t, !.state = s]
      BY <1>2, <2>4 DEF TypeInv, TypeOK
    <3> QED
      BY <1>5, <3>1 DEF RequestRecord
  <2> QED
    BY <1>4, <2>2, <2>3, <2>4
<1>7. \/ \E s : GoTo(w, s)
      \/ \E what : Reply(w, what)
      \/ \E s : Over(w, s)
      \/ \E c : jobs' = [jobs EXCEPT ![w].step = "changes", ![w].change = c]
      \/ jobs' = [jobs EXCEPT ![w] = Idle]
  BY DEF Step, Gate, Find, Clone, CheckBranch, Agent, LookAtChanges, Stage, Execute, Await, Push, Open,
     Say, Crash, FailsBy, Fail, NotOpened
<1>8. \A v \in Workers \ {w} : jobs'[v] = jobs[v]
  BY <1>7 DEF GoTo, Reply, Over, TypeInv, TypeOK
<1> QED
  BY <1>1, <1>2, <1>6, <1>8

\* What a step does to the branch: nothing, or it puts the change in hand there,
\* where at most that change was.
LEMMA StepForge ==
  ASSUME TypeInv, BranchHolds, NEW w \in Workers, Step(w) \/ Crash(w)
  PROVE  /\ forge.commits \subseteq forge'.commits
         /\ forge'.commits # forge.commits => At(w, "push") /\ forge'.commits = {change(w)}
         /\ BranchHolds'
         /\ past.offered \subseteq past'.offered
<1>1. CASE Push(w)
  <2> DEFINE pushed == [forge EXCEPT !.exists = TRUE, !.commits = {change(w)}]
  <2>1. pushed.exists /\ pushed.commits = {change(w)}
    BY DEF TypeInv, TypeOK
  <2>2. \/ UNCHANGED forge
        \/ Accepted(change(w)) /\ forge' = pushed
    BY <1>1 DEF Push
  <2> HIDE DEF pushed
  <2>3. Accepted(change(w)) => forge.commits \subseteq {change(w)}
    BY DEF Accepted, BranchHolds
  <2>4. UNCHANGED past /\ At(w, "push")
    BY <1>1 DEF Push
  <2> QED
    BY <2>1, <2>2, <2>3, <2>4 DEF BranchHolds
<1>2. CASE Open(w)
  <2>1. forge' = forge \/ forge' = [forge EXCEPT !.open = TRUE]
    BY <1>2 DEF Open
  <2>2. forge'.commits = forge.commits /\ forge'.exists = forge.exists
    BY <2>1 DEF TypeInv, TypeOK
  <2>3. past.offered \subseteq past'.offered
    BY <1>2 DEF Open, TypeInv, TypeOK
  <2> QED
    BY <2>2, <2>3 DEF BranchHolds
<1>3. CASE ~Push(w) /\ ~Open(w)
  <2>1. UNCHANGED <<forge, past>>
    BY <1>3 DEF Step, Gate, Find, Clone, CheckBranch, Agent, LookAtChanges, Stage, Execute, Await, Say, Crash,
       world
  <2> QED
    BY <2>1 DEF BranchHolds
<1> QED
  BY <1>1, <1>2, <1>3

\* Whatever else happens gives the branch no change of kibitz's.
LEMMA WorldForge ==
  ASSUME TypeInv, BranchHolds,
         \/ Meddle \/ NewHour
         \/ \E c \in Changes : RunnerReads(c) \/ RunnerEnds(c)
         \/ \E r \in Requests :
              \/ DeadLetter(r)
              \/ \E k \in {"implement", "plan"} : Ask(r, k)
              \/ \E w \in Workers : Begin(w, r)
         \/ UNCHANGED vars
  PROVE  /\ forge'.commits \cap Changes \subseteq forge.commits
         /\ BranchHolds'
         /\ UNCHANGED changes /\ UNCHANGED past.offered
         /\ meddling' \in Nat
         /\ meddling' = 0 => meddling = 0 /\ UNCHANGED forge
<1>1. meddling \in Nat
  BY DEF TypeInv, TypeOK
<1>2. CASE Meddle
  <2>1. UNCHANGED <<changes, past>> /\ meddling' = meddling + 1
    BY <1>2 DEF Meddle
  <2>2. \/ forge' = [forge EXCEPT !.exists = TRUE]
        \/ forge' = [forge EXCEPT !.exists = TRUE, !.commits = forge.commits \cup {Theirs}]
        \/ forge' = [exists |-> FALSE, commits |-> {}, open |-> FALSE]
        \/ forge' = [forge EXCEPT !.open = FALSE]
    BY <1>2 DEF Meddle
  <2>3. forge \in [exists : BOOLEAN, commits : SUBSET (Changes \cup {Theirs}), open : BOOLEAN]
    BY DEF TypeInv, TypeOK
  <2>4. Theirs \notin Changes
    BY ImplementConstants DEF Changes, Theirs
  <2>5. CASE forge' = [forge EXCEPT !.exists = TRUE]
    BY <1>1, <2>1, <2>3, <2>5 DEF BranchHolds
  <2>6. CASE forge' = [forge EXCEPT !.exists = TRUE, !.commits = forge.commits \cup {Theirs}]
    BY <1>1, <2>1, <2>3, <2>4, <2>6 DEF BranchHolds
  <2>7. CASE forge' = [exists |-> FALSE, commits |-> {}, open |-> FALSE]
    BY <1>1, <2>1, <2>7 DEF BranchHolds
  <2>8. CASE forge' = [forge EXCEPT !.open = FALSE]
    BY <1>1, <2>1, <2>3, <2>8 DEF BranchHolds
  <2> QED
    BY <2>2, <2>5, <2>6, <2>7, <2>8
<1>3. CASE ~Meddle
  <2>1. UNCHANGED <<forge, changes, meddling>>
    BY <1>3 DEF NewHour, RunnerReads, RunnerEnds, DeadLetter, Ask, Begin, vars, world
  <2>2. UNCHANGED past.offered
    BY <1>3 DEF NewHour, RunnerReads, RunnerEnds, DeadLetter, Ask, Begin, vars, world, TypeInv, TypeOK
  <2> QED
    BY <1>1, <2>1, <2>2 DEF BranchHolds
<1> QED
  BY <1>2, <1>3

LEMMA NextBranchHolds == TypeInv /\ BranchHolds /\ [Next]_vars => BranchHolds'
  BY StepForge, WorldForge DEF Next

(* Nothing kibitz does takes a commit off the branch, whoever commits to it   *)
(* between the look at the branch and the push (write.go, Push).              *)
THEOREM WorkKeptTheorem == Spec => WorkKept
<1>1. Init => BranchHolds
  BY DEF Init, BranchHolds
<1>2. TypeInv /\ BranchHolds /\ [Next]_vars =>
        [(\E w \in Workers : Step(w)) => forge.commits \subseteq forge'.commits]_vars
  BY StepForge
<1> QED
  BY <1>1, <1>2, InitTypeInv, NextTypeInv, NextBranchHolds, PTL DEF Spec, WorkKept

-----------------------------------------------------------------------------
(* The agent is paid for once.                                             *)

\* Two workers at the issue know of each other, and one that is alone finds no
\* change on the branch from its look at the branch to the agent's run.
AloneInv ==
  /\ \A v, w \in Workers : v # w /\ ~At(v, "idle") /\ ~At(w, "idle") => jobs[v].shared
  /\ \A w \in Workers :
       At(w, "agent") /\ requests[current(w)].kind = "implement" /\ ~jobs[w].shared =>
         forge.commits \cap Changes = {}

\* A job goes on with the same request, as shared as before, or is over; it
\* comes to the agent's run from its look at the branch, or with a plan.
LEMMA StepJob ==
  ASSUME TypeInv, NEW w \in Workers, Step(w) \/ Crash(w)
  PROVE  /\ \/ jobs'[w] = Idle
            \/ /\ jobs'[w].request = current(w) /\ jobs'[w].step # "idle"
               /\ jobs'[w].shared <=> jobs[w].shared
         /\ jobs'[w].step = "agent" =>
              \/ CheckBranch(w) /\ ~forge.exists
              \/ requests[current(w)].kind = "plan"
<1>1. jobs[w] \in JobRecord
  BY DEF TypeInv, TypeOK
<1>2. ASSUME NEW s, GoTo(w, s)
      PROVE  /\ jobs'[w].request = current(w) /\ jobs'[w].step = s
             /\ jobs'[w].shared <=> jobs[w].shared
  BY <1>1, <1>2 DEF GoTo, current, JobRecord, TypeInv, TypeOK
<1>3. ASSUME NEW what, Reply(w, what)
      PROVE  /\ jobs'[w].request = current(w) /\ jobs'[w].step = "say"
             /\ jobs'[w].shared <=> jobs[w].shared
  <2>1. jobs'[w] = [jobs[w] EXCEPT !.step = "say", !.say = what]
    BY <1>3 DEF Reply, TypeInv, TypeOK
  <2> QED
    BY <1>1, <2>1 DEF current, JobRecord
<1>4. ASSUME NEW s, Over(w, s) PROVE jobs'[w] = Idle
  BY <1>4 DEF Over, TypeInv, TypeOK
<1>5. ASSUME NEW c, jobs' = [jobs EXCEPT ![w].step = "changes", ![w].change = c]
      PROVE  /\ jobs'[w].request = current(w) /\ jobs'[w].step = "changes"
             /\ jobs'[w].shared <=> jobs[w].shared
  <2>1. jobs'[w] = [jobs[w] EXCEPT !.step = "changes", !.change = c]
    BY <1>5 DEF TypeInv, TypeOK
  <2> QED
    BY <1>1, <2>1 DEF current, JobRecord
<1>6. Idle.step = "idle"
  BY DEF Idle
<1>7. CASE Gate(w) \/ Find(w)
  <2>1. \/ \E s \in {"clone", "find"} : GoTo(w, s)
        \/ \E what : Reply(w, what)
        \/ \E s : Over(w, s)
    BY <1>7 DEF Gate, Find, FailsBy, Fail
  <2> QED
    BY <1>2, <1>3, <1>4, <1>6, <2>1
<1>8. CASE Clone(w)
  <2>1. \/ requests[current(w)].kind = "plan" /\ GoTo(w, "agent")
        \/ GoTo(w, "branch")
        \/ \E s : Over(w, s)
    BY <1>8 DEF Clone, FailsBy, Fail
  <2> QED
    BY <1>2, <1>4, <1>6, <2>1
<1>9. CASE CheckBranch(w)
  <2>1. \/ ~forge.exists /\ GoTo(w, "agent")
        \/ \E what : Reply(w, what)
        \/ \E s : Over(w, s)
    BY <1>9 DEF CheckBranch, Taken, FailsBy, Fail
  <2> QED
    BY <1>2, <1>3, <1>4, <1>6, <1>9, <2>1
<1>10. CASE Agent(w)
  <2>1. \/ \E c : jobs' = [jobs EXCEPT ![w].step = "changes", ![w].change = c]
        \/ \E what : Reply(w, what)
        \/ \E s : Over(w, s)
    BY <1>10 DEF Agent, FailsBy, Fail
  <2> QED
    BY <1>3, <1>4, <1>5, <1>6, <2>1
<1>11. CASE LookAtChanges(w) \/ Stage(w) \/ Execute(w) \/ Await(w) \/ Push(w) \/ Open(w) \/ Crash(w)
  <2>1. \/ \E s \in {"stage", "execute", "await", "push", "open"} : GoTo(w, s)
        \/ \E what : Reply(w, what)
        \/ \E s : Over(w, s)
    BY <1>11 DEF LookAtChanges, Stage, Execute, Await, Push, Open, Crash, NotOpened, FailsBy, Fail
  <2> QED
    BY <1>2, <1>3, <1>4, <1>6, <2>1
<1>12. CASE Say(w)
  <2>1. jobs' = [jobs EXCEPT ![w] = Idle]
    BY <1>12 DEF Say
  <2> QED
    BY <1>6, <2>1 DEF TypeInv, TypeOK
<1> QED
  BY <1>7, <1>8, <1>9, <1>10, <1>11, <1>12 DEF Step

LEMMA StepAlone ==
  ASSUME TypeInv, BranchHolds, AloneInv, NEW w \in Workers, Step(w) \/ Crash(w)
  PROVE  AloneInv'
<1>1. /\ ~At(w, "idle") /\ current(w) \in Requests
      /\ \A v \in Workers \ {w} : jobs'[v] = jobs[v]
      /\ \A r \in Requests \ {current(w)} : requests'[r] = requests[r]
      /\ requests'[current(w)].kind = requests[current(w)].kind
  BY StepFrame
<1>2. /\ \/ jobs'[w] = Idle
         \/ /\ jobs'[w].request = current(w) /\ jobs'[w].step # "idle"
            /\ jobs'[w].shared <=> jobs[w].shared
      /\ jobs'[w].step = "agent" =>
           \/ CheckBranch(w) /\ ~forge.exists
           \/ requests[current(w)].kind = "plan"
  BY StepJob
<1>3. Idle.step = "idle"
  BY DEF Idle
<1>4. ASSUME NEW u \in Workers, NEW v \in Workers, u # v,
             jobs'[u].step # "idle", jobs'[v].step # "idle"
      PROVE  jobs'[u].shared
  <2>1. jobs[u].step # "idle" /\ jobs[v].step # "idle"
    BY <1>1, <1>4 DEF At
  <2>2. jobs[u].shared
    BY <1>4, <2>1 DEF AloneInv, At
  <2>3. jobs'[u].shared <=> jobs[u].shared
    BY <1>1, <1>2, <1>3, <1>4
  <2> QED
    BY <2>2, <2>3
<1>5. ASSUME NEW v \in Workers, jobs'[v].step = "agent", ~jobs'[v].shared,
             requests'[jobs'[v].request].kind = "implement"
      PROVE  forge'.commits \cap Changes = {}
  <2>1. CASE v = w
    <3>1. jobs'[w].request = current(w)
      BY <1>2, <1>3, <1>5, <2>1
    <3>2. CheckBranch(w) /\ ~forge.exists
      BY <1>1, <1>2, <1>5, <2>1, <3>1
    <3>3. UNCHANGED forge
      BY <3>2 DEF CheckBranch, world
    <3> QED
      BY <3>2, <3>3 DEF BranchHolds
  <2>2. CASE v # w
    <3>1. jobs'[v] = jobs[v] /\ jobs[v].step # "idle"
      BY <1>1, <1>5, <2>2
    <3>2. jobs[v].shared
      BY <1>1, <2>2, <3>1 DEF AloneInv, At
    <3> QED
      BY <1>5, <3>1, <3>2
  <2> QED
    BY <2>1, <2>2
<1> QED
  BY <1>4, <1>5 DEF AloneInv, At, current

\* A job that begins makes everybody share the issue.
LEMMA BeginAlone ==
  ASSUME TypeInv, AloneInv, NEW w \in Workers, NEW r \in Requests, Begin(w, r)
  PROVE  AloneInv'
<1>1. jobs[w].step = "idle" /\ jobs'[w].step = "gate"
      /\ (jobs'[w].shared <=> Busy # {})
  BY DEF Begin, At
<1>2. ASSUME NEW v \in Workers, v # w
      PROVE  jobs'[v].step = jobs[v].step /\ (jobs'[v].shared <=> jobs[v].shared \/ v \in Busy)
  <2>1. jobs'[v] = [jobs[v] EXCEPT !.shared = jobs[v].shared \/ v \in Busy]
    BY <1>2 DEF Begin
  <2>2. jobs[v] \in JobRecord
    BY DEF TypeInv, TypeOK
  <2> QED
    BY <2>1, <2>2 DEF JobRecord
<1>3. \A v \in Workers : v \in Busy <=> jobs[v].step # "idle"
  BY DEF Busy, At
<1>4. ASSUME NEW u \in Workers, NEW v \in Workers, u # v,
             jobs'[u].step # "idle", jobs'[v].step # "idle"
      PROVE  jobs'[u].shared
  BY <1>1, <1>2, <1>3, <1>4
<1>5. ASSUME NEW v \in Workers, jobs'[v].step = "agent" PROVE jobs'[v].shared
  BY <1>1, <1>2, <1>3, <1>5
<1> QED
  BY <1>4, <1>5 DEF AloneInv, At

\* Whatever leaves the jobs alone leaves their requests' kinds alone.
LEMMA KindsKept ==
  ASSUME TypeInv,
         \/ Meddle \/ NewHour
         \/ \E c \in Changes : RunnerReads(c) \/ RunnerEnds(c)
         \/ \E r \in Requests :
              \/ DeadLetter(r)
              \/ \E k \in {"implement", "plan"} : Ask(r, k)
         \/ UNCHANGED vars
  PROVE  /\ UNCHANGED jobs
         /\ \A r \in Requests : /\ requests'[r].told = requests[r].told
                                /\ requests'[r].state = "running" => requests[r].state = "running"
                                /\ requests[r].state = "running" => requests'[r] = requests[r]
<1>1. UNCHANGED jobs
  BY DEF Meddle, NewHour, RunnerReads, RunnerEnds, DeadLetter, Ask, vars
<1>2. \/ UNCHANGED requests
      \/ \E r \in Requests : DeadLetter(r)
      \/ \E r \in Requests, k \in {"implement", "plan"} : Ask(r, k)
  BY DEF Meddle, NewHour, RunnerReads, RunnerEnds, vars
<1>3. ASSUME NEW r \in Requests, NEW k \in {"implement", "plan"}, NEW q \in Requests,
             DeadLetter(r) \/ Ask(r, k)
      PROVE  /\ requests'[q].told = requests[q].told
             /\ requests'[q].state = "running" => requests[q].state = "running"
             /\ requests[q].state = "running" => requests'[q] = requests[q]
  <2>1. requests[r] \in RequestRecord /\ requests[r].state # "running"
    BY <1>3 DEF TypeInv, TypeOK, DeadLetter, Ask
  <2>2. CASE q = r
    <3>1. requests'[r] = IF DeadLetter(r) THEN [requests[r] EXCEPT !.state = "dead"]
                         ELSE [requests[r] EXCEPT !.state = "waiting", !.kind = k]
      BY <1>3 DEF DeadLetter, Ask, TypeInv, TypeOK
    <3> QED
      BY <2>1, <2>2, <3>1 DEF RequestRecord
  <2>3. CASE q # r
    BY <1>3, <2>3 DEF DeadLetter, Ask, TypeInv, TypeOK
  <2> QED
    BY <2>2, <2>3
<1> QED
  BY <1>1, <1>2, <1>3

LEMMA NextAlone == TypeInv /\ BranchHolds /\ AloneInv /\ [Next]_vars => AloneInv'
<1> SUFFICES ASSUME TypeInv, BranchHolds, AloneInv, [Next]_vars
             PROVE  AloneInv'
  OBVIOUS
<1> DEFINE Outside ==
      \/ Meddle \/ NewHour
      \/ \E c \in Changes : RunnerReads(c) \/ RunnerEnds(c)
      \/ \E r \in Requests :
           \/ DeadLetter(r)
           \/ \E k \in {"implement", "plan"} : Ask(r, k)
      \/ UNCHANGED vars
<1>1. CASE Outside
  <2>1. /\ UNCHANGED jobs
        /\ \A r \in Requests : requests[r].state = "running" => requests'[r] = requests[r]
    BY <1>1, KindsKept
  <2>2. forge'.commits \cap Changes \subseteq forge.commits
    BY <1>1, WorldForge
  <2>3. \A v \in Workers : jobs[v].step = "agent" =>
          jobs[v].request \in Requests /\ requests[jobs[v].request].state = "running"
    BY BusyHasRequest DEF At, current
  <2> QED
    BY <2>1, <2>2, <2>3 DEF AloneInv, At, current
<1>2. ASSUME NEW w \in Workers, Step(w) \/ Crash(w) PROVE AloneInv'
  BY <1>2, StepAlone
<1>3. ASSUME NEW w \in Workers, NEW r \in Requests, Begin(w, r) PROVE AloneInv'
  BY <1>3, BeginAlone
<1> QED
  BY <1>1, <1>2, <1>3 DEF Next

(* An attempt that has the issue to itself does not pay for the agent while   *)
(* the branch holds an earlier attempt's change, however many attempts and    *)
(* commands there are, and whoever uses the branch (implement_run.go).        *)
THEOREM PaidOnceTheorem == Spec => PaidOnce
<1>1. Init => BranchHolds /\ AloneInv
  BY DEF Init, BranchHolds, AloneInv, At, Idle
<1>2. ASSUME TypeInv, AloneInv, [Next]_vars,
             NEW w \in Workers, At(w, "agent"), jobs'[w].step = "changes", ~jobs[w].shared
      PROVE  forge.commits \cap Changes = {}
  <2>1. Agent(w)
    <3>1. jobs'[w].step # jobs[w].step
      BY <1>2 DEF At
    <3>2. ASSUME NEW v \in Workers, Step(v) \/ Crash(v) PROVE v = w
      BY <1>2, <3>1, <3>2, StepFrame
    <3>3. ASSUME NEW v \in Workers, NEW r \in Requests, Begin(v, r) PROVE FALSE
      <4>1. v # w
        BY <1>2, <3>3 DEF Begin, At
      <4>2. jobs'[w] = [jobs[w] EXCEPT !.shared = jobs[w].shared \/ w \in Busy]
        BY <1>2, <3>3, <4>1 DEF Begin
      <4>3. jobs[w] \in JobRecord
        BY <1>2 DEF TypeInv, TypeOK
      <4> QED
        BY <3>1, <4>2, <4>3 DEF JobRecord
    <3>4. Step(w) \/ Crash(w)
      BY <1>2, <3>1, <3>2, <3>3, KindsKept DEF Next
    <3>5. ~Crash(w)
      BY <1>2 DEF Crash, Over, Idle, TypeInv, TypeOK
    <3> QED
      BY <1>2, <3>4, <3>5 DEF Step, Gate, Find, Clone, CheckBranch, LookAtChanges, Stage, Execute, Await, Push,
         Open, Say, At
  <2>2. requests[current(w)].kind = "implement"
    <3>1. CASE Fail(w)
      BY <1>2, <3>1 DEF Fail, Over, Idle, TypeInv, TypeOK
    <3>2. CASE Reply(w, "planned")
      <4>1. jobs'[w] = [jobs[w] EXCEPT !.step = "say", !.say = "planned"] /\ jobs[w] \in JobRecord
        BY <1>2, <3>2 DEF Reply, TypeInv, TypeOK
      <4> QED
        BY <1>2, <4>1 DEF JobRecord
    <3> QED
      BY <2>1, <3>1, <3>2 DEF Agent, FailsBy
  <2> QED
    BY <1>2, <2>2 DEF AloneInv
<1>3. TypeInv /\ AloneInv /\ [Next]_vars =>
        [\A w \in Workers : At(w, "agent") /\ jobs'[w].step = "changes" /\ ~jobs[w].shared
           => forge.commits \cap Changes = {}]_vars
  BY <1>2
<1> QED
  BY <1>1, <1>3, InitTypeInv, NextTypeInv, NextBranchHolds, NextAlone, PTL DEF Spec, PaidOnce

-----------------------------------------------------------------------------
(* What is said is true.                                                   *)

Mine(r) == {c \in Changes : changes[c].for = r}
Offered(r) == meddling > 0 \/ Mine(r) \cap past.offered # {}
Absent(r) == Mine(r) \cap forge.commits = {}

\* What a job will say is true already, and what it has looked for, a branch
\* without its request's changes, stays so until it pushes one itself.
JobHonest(j) ==
  /\ j.step \in {"changes", "stage", "execute", "await", "push", "open"} =>
       changes[j.change].for = j.request
  /\ j.step = "open" => meddling > 0 \/ j.change \in forge.commits
  /\ j.step = "say" /\ j.say = "opened" => Offered(j.request)
  /\ \/ j.step = "agent" /\ requests[j.request].kind = "implement"
     \/ j.step \in {"changes", "stage", "execute", "await"}
     \/ j.step = "say" /\ j.say \in Denials
     => Absent(j.request)

\* An attempt begins with nothing said; what was said stays true.
RequestHonest(q, r) ==
  /\ q.state = "running" => q.told = "none"
  /\ q.told = "opened" => Offered(r)
  /\ q.told \in Denials => Absent(r)

Unborn == \A c \in Changes : changes[c].is = "unborn" => changes[c].for = 0

HonestInv ==
  /\ Unborn
  /\ \A w \in Workers : JobHonest(jobs[w])
  /\ \A r \in Requests : RequestHonest(requests[r], r)

\* The changes of a request stay its own, and what was offered stays offered.
ChangesKept == \A c \in Changes : changes[c].is # "unborn" => changes'[c] = changes[c]

LEMMA NextChanges ==
  ASSUME TypeInv, Unborn, [Next]_vars
  PROVE  ChangesKept /\ Unborn'
<1>1. CASE UNCHANGED changes
  BY <1>1 DEF ChangesKept, Unborn
<1>2. CASE ~UNCHANGED changes
  <2>1. PICK w \in Workers : Agent(w)
    BY <1>2 DEF Next, Step, Gate, Find, Clone, CheckBranch, LookAtChanges, Stage, Execute, Await, Push, Open,
       Say, Crash, Begin, DeadLetter, Ask, RunnerReads, RunnerEnds, Meddle, NewHour, vars
  <2>2. PICK c \in Changes, n \in [for : 0..MaxRequests, is : {"nothing", "outside", "edits"}] :
          changes[c].is = "unborn" /\ changes' = [changes EXCEPT ![c] = n]
    <3>1. current(w) \in 0..MaxRequests
      BY DEF TypeInv, TypeOK, JobRecord, current
    <3> QED
      BY <1>2, <2>1, <3>1 DEF Agent
  <2>3. \A b \in Changes : IF b = c THEN changes'[b] = n ELSE changes'[b] = changes[b]
    BY <2>2 DEF TypeInv, TypeOK
  <2> QED
    BY <2>2, <2>3 DEF ChangesKept, Unborn
<1> QED
  BY <1>1, <1>2

\* A change that is new is on no branch, and was not offered by name before.
LEMMA MineGrows ==
  ASSUME TypeInv, Unborn, [Next]_vars, NEW r \in Requests
  PROVE  /\ \A c \in Mine(r) : c \in Mine(r)'
         /\ \A c \in Mine(r)' : c \in Mine(r) \/ changes[c].is = "unborn"
<1>1. ChangesKept
  BY NextChanges
<1>2. r # 0
  BY ImplementConstants DEF Requests
<1> QED
  BY <1>1, <1>2 DEF Mine, ChangesKept, Unborn

\* Once it is true that a request's change was offered, it stays true.
LEMMA OfferedKept ==
  ASSUME TypeInv, BranchHolds, Unborn, [Next]_vars
  PROVE  /\ meddling \in Nat /\ meddling' \in Nat
         /\ meddling > 0 => meddling' > 0
         /\ \A r \in Requests : Offered(r) => Offered(r)'
<1>1. past.offered \subseteq past'.offered
  BY StepForge, WorldForge DEF Next
<1>2. meddling \in Nat /\ meddling' \in Nat
  BY NextTypeInv DEF TypeInv, TypeOK
<1>3. meddling > 0 => meddling' > 0
  BY <1>2, StepFrame, WorldForge DEF Next
<1>4. ASSUME NEW r \in Requests, Offered(r) PROVE Offered(r)'
  BY <1>1, <1>3, <1>4, MineGrows DEF Offered
<1> QED
  BY <1>2, <1>3, <1>4

\* A request's changes come to the branch in its own job's push.
LEMMA AbsentKept ==
  ASSUME TypeInv, BranchHolds, OnlyVerifiedOffered, HonestInv, [Next]_vars, NEW r \in Requests,
         \A w \in Workers : (Step(w) \/ Crash(w)) /\ At(w, "push") => current(w) # r,
         Absent(r)
  PROVE  Absent(r)'
<1>1. ASSUME NEW c \in Changes, changes'[c].for = r, c \in forge'.commits PROVE FALSE
  <2>1. ASSUME c \in forge.commits PROVE FALSE
    <3>1. changes[c].is # "unborn"
      BY <2>1 DEF OnlyVerifiedOffered
    <3>2. changes[c].for = r
      BY <1>1, <3>1, NextChanges DEF HonestInv, ChangesKept
    <3> QED
      BY <2>1, <3>2 DEF Absent, Mine
  <2>2. PICK w \in Workers : Step(w) \/ Crash(w)
    BY <1>1, <2>1, WorldForge DEF Next
  <2>3. At(w, "push") /\ c = change(w)
    BY <1>1, <2>1, <2>2, StepForge
  <2>4. changes[c].for = current(w) /\ changes[c].is = "edits"
    BY <2>3 DEF HonestInv, JobHonest, TypeInv, ChangeInHand, HandOK, At, change, current
  <2>5. changes'[c].for = current(w)
    BY <2>4, NextChanges DEF HonestInv, ChangesKept
  <2> QED
    BY <1>1, <2>2, <2>3, <2>5
<1> QED
  BY <1>1 DEF Absent, Mine

\* A pushed change stays on the branch as long as nobody else uses it.
LEMMA PushedKept ==
  ASSUME TypeInv, BranchHolds, [Next]_vars, NEW c, meddling > 0 \/ c \in forge.commits
  PROVE  meddling' > 0 \/ c \in forge'.commits
<1>1. meddling \in Nat /\ meddling' \in Nat
  BY NextTypeInv DEF TypeInv, TypeOK
<1>2. ASSUME NEW w \in Workers, Step(w) \/ Crash(w) PROVE meddling' > 0 \/ c \in forge'.commits
  BY <1>2, StepForge, StepFrame
<1>3. CASE meddling' = 0
  <2>1. CASE \E w \in Workers : Step(w) \/ Crash(w)
    BY <1>2, <2>1
  <2>2. CASE ~\E w \in Workers : Step(w) \/ Crash(w)
    BY <1>3, <2>2, WorldForge DEF Next
  <2> QED
    BY <2>1, <2>2
<1> QED
  BY <1>1, <1>3

\* What holds while the others work.
HonestSoFar == TypeInv /\ BranchHolds /\ OnlyVerifiedOffered /\ HonestInv

LEMMA JobStaysHonest ==
  ASSUME HonestSoFar, [Next]_vars, NEW v \in Workers,
         jobs'[v].step = jobs[v].step, jobs'[v].request = jobs[v].request,
         jobs'[v].change = jobs[v].change, jobs'[v].say = jobs[v].say,
         ~At(v, "idle") => requests'[current(v)].kind = requests[current(v)].kind,
         \A w \in Workers : Step(w) \/ Crash(w) => w # v
  PROVE  JobHonest(jobs[v])'
<1>1. CASE jobs[v].step = "idle"
  BY <1>1 DEF JobHonest
<1>2. CASE jobs[v].step # "idle"
  <2>1. PICK r \in Requests : r = jobs[v].request
    BY <1>2, BusyHasRequest DEF HonestSoFar, At, current
  <2>2. Offered(r) => Offered(r)'
    BY OfferedKept DEF HonestSoFar, HonestInv
  <2>3. \A w \in Workers : Step(w) \/ Crash(w) => current(w) # r
    BY <1>2, <2>1 DEF HonestSoFar, TypeInv, OneSlotEach, At, current
  <2>4. Absent(r) => Absent(r)'
    BY <2>3, AbsentKept DEF HonestSoFar
  <2>5. jobs[v].step \in {"changes", "stage", "execute", "await", "push", "open"} =>
          changes'[jobs[v].change] = changes[jobs[v].change]
    <3>1. ChangesKept
      BY NextChanges DEF HonestSoFar, HonestInv
    <3> QED
      BY <3>1 DEF ChangesKept, HonestSoFar, TypeInv, ChangeInHand, HandOK
  <2>6. meddling > 0 \/ jobs[v].change \in forge.commits =>
          meddling' > 0 \/ jobs[v].change \in forge'.commits
    BY PushedKept DEF HonestSoFar
  <2>7. requests'[r].kind = requests[r].kind
    BY <1>2, <2>1 DEF current, At
  <2>8. /\ jobs[v].step \in {"changes", "stage", "execute", "await", "push", "open"} =>
             changes[jobs[v].change].for = r
        /\ jobs[v].step = "open" => meddling > 0 \/ jobs[v].change \in forge.commits
        /\ jobs[v].step = "say" /\ jobs[v].say = "opened" => Offered(r)
        /\ \/ jobs[v].step = "agent" /\ requests[r].kind = "implement"
           \/ jobs[v].step \in {"changes", "stage", "execute", "await"}
           \/ jobs[v].step = "say" /\ jobs[v].say \in Denials
           => Absent(r)
    BY <2>1 DEF HonestSoFar, HonestInv, JobHonest
  <2>9. /\ Offered(jobs[v].request)' <=> Offered(r)'
        /\ Absent(jobs[v].request)' <=> Absent(r)'
        /\ jobs'[v].request = r
    BY <2>1 DEF Offered, Absent, Mine
  <2> QED
    BY <2>2, <2>4, <2>5, <2>6, <2>7, <2>8, <2>9 DEF JobHonest
<1> QED
  BY <1>1, <1>2

LEMMA RequestStaysHonest ==
  ASSUME HonestSoFar, [Next]_vars, NEW r \in Requests,
         requests'[r].told = requests[r].told,
         requests'[r].state = "running" => requests[r].state = "running"
  PROVE  RequestHonest(requests[r], r)'
<1>1. RequestHonest(requests[r], r)
  BY DEF HonestSoFar, HonestInv
<1>2. CASE requests[r].told = "none"
  BY <1>2 DEF RequestHonest, Denials
<1>3. CASE requests[r].told # "none"
  <2>1. requests[r].state # "running"
    BY <1>1, <1>3 DEF RequestHonest
  <2>2. \A w \in Workers : current(w) # r
    BY <2>1 DEF HonestSoFar, TypeInv, TypeOK, current
  <2>3. Absent(r) => Absent(r)'
    BY <2>2, AbsentKept DEF HonestSoFar
  <2>4. Offered(r) => Offered(r)'
    BY OfferedKept DEF HonestSoFar, HonestInv
  <2> QED
    BY <1>1, <2>1, <2>3, <2>4 DEF RequestHonest
<1> QED
  BY <1>2, <1>3

\* Truth as the acting job carries it on.
LEMMA Carried ==
  ASSUME HonestSoFar, [Next]_vars, NEW w \in Workers, Step(w) \/ Crash(w),
         NEW r \in Requests, r = current(w)
  PROVE  /\ Offered(r) => Offered(r)'
         /\ ~At(w, "push") /\ Absent(r) => Absent(r)'
         /\ jobs[w].step \in {"changes", "stage", "execute", "await", "push", "open"} =>
              changes[change(w)].for = r /\ changes'[change(w)].for = r
         /\ requests[r].told = "none"
         /\ JobHonest(jobs[w])
<1>1. ~At(w, "idle")
  BY StepFrame DEF HonestSoFar
<1>2. requests[r].told = "none"
  BY <1>1, BusyHasRequest DEF HonestSoFar, HonestInv, RequestHonest
<1>3. JobHonest(jobs[w])
  BY DEF HonestSoFar, HonestInv
<1>4. Offered(r) => Offered(r)'
  BY <1>1, OfferedKept DEF HonestSoFar, HonestInv
<1>5. ASSUME ~At(w, "push"), Absent(r) PROVE Absent(r)'
  <2>1. ASSUME NEW v \in Workers, (Step(v) \/ Crash(v)) /\ At(v, "push") PROVE current(v) # r
    BY <1>1, <1>5, <2>1 DEF HonestSoFar, TypeInv, OneSlotEach, At, current
  <2> QED
    BY <1>1, <1>5, <2>1, AbsentKept DEF HonestSoFar
<1>6. jobs[w].step \in {"changes", "stage", "execute", "await", "push", "open"} =>
        /\ changes[change(w)].for = r
        /\ changes'[change(w)] = changes[change(w)]
  <2>1. ChangesKept
    BY NextChanges DEF HonestSoFar, HonestInv
  <2> QED
    BY <1>3, <2>1 DEF ChangesKept, JobHonest, HonestSoFar, TypeInv, ChangeInHand, HandOK, change, current
<1> QED
  BY <1>2, <1>3, <1>4, <1>5, <1>6

\* The ways a job goes on, and what makes each of them honest.
LEMMA GoToHonest ==
  ASSUME HonestSoFar, [Next]_vars, NEW w \in Workers, Step(w), NEW r \in Requests, r = current(w),
         NEW s \in Steps \ {"say"}, GoTo(w, s),
         s \in {"changes", "stage", "execute", "await", "push", "open"} => changes'[change(w)].for = r,
         s = "open" => change(w) \in forge'.commits,
         \/ s = "agent" /\ requests[r].kind = "implement"
         \/ s \in {"changes", "stage", "execute", "await"}
         => Absent(r)'
  PROVE  JobHonest(jobs[w])' /\ RequestHonest(requests[r], r)'
<1>1. jobs'[w].step = s /\ jobs'[w].request = r /\ jobs'[w].change = change(w)
  <2>1. jobs'[w] = [jobs[w] EXCEPT !.step = s] /\ jobs[w] \in JobRecord
    BY DEF GoTo, HonestSoFar, TypeInv, TypeOK
  <2> QED
    BY <2>1 DEF JobRecord, current, change
<1>2. requests' = requests
  BY DEF GoTo
<1>3. Absent(jobs[w].request)' <=> Absent(r)'
  BY <1>1 DEF Absent, Mine
<1>4. RequestHonest(requests[r], r)'
  BY <1>2, RequestStaysHonest
<1>5. JobHonest(jobs[w])'
  BY <1>1, <1>2, <1>3 DEF JobHonest
<1> QED
  BY <1>4, <1>5

LEMMA ReplyHonest ==
  ASSUME HonestSoFar, [Next]_vars, NEW w \in Workers, Step(w), NEW r \in Requests, r = current(w),
         NEW what \in Replies, Reply(w, what),
         what = "opened" => Offered(r)',
         what \in Denials => Absent(r)'
  PROVE  JobHonest(jobs[w])' /\ RequestHonest(requests[r], r)'
<1>1. jobs'[w].step = "say" /\ jobs'[w].request = r /\ jobs'[w].say = what
  <2>1. jobs'[w] = [jobs[w] EXCEPT !.step = "say", !.say = what] /\ jobs[w] \in JobRecord
    BY DEF Reply, HonestSoFar, TypeInv, TypeOK
  <2> QED
    BY <2>1 DEF JobRecord, current
<1>2. requests' = requests
  BY DEF Reply
<1>3. Absent(jobs[w].request)' <=> Absent(r)'
  BY <1>1 DEF Absent, Mine
<1>4. Offered(jobs[w].request)' <=> Offered(r)'
  BY <1>1 DEF Offered, Mine
<1>5. RequestHonest(requests[r], r)'
  BY <1>2, RequestStaysHonest
<1>6. JobHonest(jobs[w])'
  BY <1>1, <1>2, <1>3, <1>4 DEF JobHonest
<1> QED
  BY <1>5, <1>6

\* A job that is over has said nothing new.
LEMMA OverHonest ==
  ASSUME HonestSoFar, [Next]_vars, NEW w \in Workers, Step(w) \/ Crash(w),
         NEW r \in Requests, r = current(w), NEW s, Over(w, s)
  PROVE  JobHonest(jobs[w])' /\ RequestHonest(requests[r], r)'
<1>1. requests[r].told = "none" /\ requests[r] \in RequestRecord
  BY Carried DEF HonestSoFar, TypeInv, TypeOK
<1>2. requests'[r].told = "none"
  BY <1>1 DEF Over, HonestSoFar, TypeInv, TypeOK, RequestRecord
<1>3. jobs'[w].step = "idle"
  BY DEF Over, Idle, HonestSoFar, TypeInv, TypeOK
<1> QED
  BY <1>2, <1>3 DEF RequestHonest, JobHonest, Denials

LEMMA ActorHonest ==
  ASSUME HonestSoFar, [Next]_vars, NEW w \in Workers, Step(w) \/ Crash(w),
         NEW r \in Requests, r = current(w)
  PROVE  JobHonest(jobs[w])' /\ RequestHonest(requests[r], r)'
<1> USE DEF Replies, Refusals, Denials, Steps
<1>0. /\ Offered(r) => Offered(r)'
      /\ ~At(w, "push") /\ Absent(r) => Absent(r)'
      /\ jobs[w].step \in {"changes", "stage", "execute", "await", "push", "open"} =>
           changes[change(w)].for = r /\ changes'[change(w)].for = r
      /\ requests[r].told = "none"
      /\ JobHonest(jobs[w])
  BY Carried
<1>1. CASE Gate(w) \/ Find(w)
  <2>1. \/ \E s \in {"clone", "find"} : GoTo(w, s)
        \/ \E what \in Refusals : Reply(w, what)
        \/ \E s : Over(w, s)
    BY <1>1 DEF Gate, Find, FailsBy, Fail
  <2>2. Step(w)
    BY <1>1 DEF Step
  <2>3. ASSUME NEW what \in Refusals, Reply(w, what)
        PROVE  JobHonest(jobs[w])' /\ RequestHonest(requests[r], r)'
    BY <2>2, <2>3, ReplyHonest
  <2>4. ASSUME NEW s \in {"clone", "find"}, GoTo(w, s)
        PROVE  JobHonest(jobs[w])' /\ RequestHonest(requests[r], r)'
    BY <2>2, <2>4, GoToHonest
  <2> QED
    BY <2>1, <2>3, <2>4, OverHonest
<1>2. CASE Clone(w)
  <2>1. \/ requests[r].kind = "plan" /\ GoTo(w, "agent")
        \/ GoTo(w, "branch")
        \/ \E s : Over(w, s)
    BY <1>2 DEF Clone, FailsBy, Fail
  <2>2. Step(w)
    BY <1>2 DEF Step
  <2>3. CASE requests[r].kind = "plan" /\ GoTo(w, "agent")
    BY <2>2, <2>3, GoToHonest
  <2>4. CASE GoTo(w, "branch")
    BY <2>2, <2>4, GoToHonest
  <2> QED
    BY <2>1, <2>3, <2>4, OverHonest
<1>3. CASE CheckBranch(w)
  <2>1. \/ ~forge.exists /\ GoTo(w, "agent")
        \/ Reply(w, "taken")
        \/ \E s : Over(w, s)
    BY <1>3 DEF CheckBranch, Taken, FailsBy, Fail
  <2>2. Step(w)
    BY <1>3 DEF Step
  <2>3. CASE ~forge.exists /\ GoTo(w, "agent")
    <3>1. Absent(r)'
      BY <1>0, <1>3, <2>3 DEF CheckBranch, Absent, At, HonestSoFar, BranchHolds
    <3> QED
      BY <2>2, <2>3, <3>1, GoToHonest
  <2>4. CASE Reply(w, "taken")
    BY <2>2, <2>4, ReplyHonest
  <2> QED
    BY <2>1, <2>3, <2>4, OverHonest
<1>4. CASE Agent(w)
  <2>1. \/ /\ requests[r].kind = "implement" /\ UNCHANGED requests
           /\ \E c \in Changes, is \in {"nothing", "outside", "edits"} :
                /\ changes' = [changes EXCEPT ![c] = [for |-> current(w), is |-> is]]
                /\ jobs' = [jobs EXCEPT ![w].step = "changes", ![w].change = c]
        \/ Reply(w, "planned")
        \/ \E s : Over(w, s)
    BY <1>4 DEF Agent, FailsBy, Fail
  <2>2. Step(w)
    BY <1>4 DEF Step
  <2>3. CASE /\ requests[r].kind = "implement" /\ UNCHANGED requests
             /\ \E c \in Changes, is \in {"nothing", "outside", "edits"} :
                  /\ changes' = [changes EXCEPT ![c] = [for |-> current(w), is |-> is]]
                  /\ jobs' = [jobs EXCEPT ![w].step = "changes", ![w].change = c]
    <3>1. PICK c \in Changes, is \in {"nothing", "outside", "edits"} :
            /\ changes' = [changes EXCEPT ![c] = [for |-> current(w), is |-> is]]
            /\ jobs' = [jobs EXCEPT ![w].step = "changes", ![w].change = c]
      BY <2>3
    <3>2. jobs'[w].step = "changes" /\ jobs'[w].request = r /\ jobs'[w].change = c
      <4>1. jobs'[w] = [jobs[w] EXCEPT !.step = "changes", !.change = c] /\ jobs[w] \in JobRecord
        BY <3>1 DEF HonestSoFar, TypeInv, TypeOK
      <4> QED
        BY <4>1 DEF JobRecord, current
    <3>3. changes'[c].for = r
      BY <3>1 DEF HonestSoFar, TypeInv, TypeOK
    <3>4. Absent(r)'
      BY <1>0, <1>4, <2>3 DEF Agent, At, JobHonest, current
    <3>5. Absent(jobs[w].request)' <=> Absent(r)'
      BY <3>2 DEF Absent, Mine
    <3>6. RequestHonest(requests[r], r)'
      BY <2>3, RequestStaysHonest
    <3>7. JobHonest(jobs[w])'
      BY <3>2, <3>3, <3>4, <3>5 DEF JobHonest
    <3> QED
      BY <3>6, <3>7
  <2>4. CASE Reply(w, "planned")
    BY <2>2, <2>4, ReplyHonest
  <2> QED
    BY <2>1, <2>3, <2>4, OverHonest
<1>5. CASE LookAtChanges(w) \/ Stage(w) \/ Execute(w) \/ Await(w)
  <2>1. \/ \E s \in {"stage", "execute", "await", "push"} : GoTo(w, s)
        \/ \E what \in Denials : Reply(w, what)
        \/ \E s : Over(w, s)
    BY <1>5 DEF LookAtChanges, Stage, Execute, Await, FailsBy, Fail
  <2>2. Step(w)
    BY <1>5 DEF Step
  <2>3. jobs[w].step \in {"changes", "stage", "execute", "await"} /\ ~At(w, "push")
    BY <1>5 DEF LookAtChanges, Stage, Execute, Await, At
  <2>4. Absent(r)' /\ changes'[change(w)].for = r
    BY <1>0, <2>3 DEF JobHonest, current
  <2>5. ASSUME NEW s \in {"stage", "execute", "await", "push"}, GoTo(w, s)
        PROVE  JobHonest(jobs[w])' /\ RequestHonest(requests[r], r)'
    BY <2>2, <2>4, <2>5, GoToHonest
  <2>6. ASSUME NEW what \in Denials, Reply(w, what)
        PROVE  JobHonest(jobs[w])' /\ RequestHonest(requests[r], r)'
    BY <2>2, <2>4, <2>6, ReplyHonest
  <2> QED
    BY <2>1, <2>5, <2>6, OverHonest
<1>6. CASE Push(w)
  <2>1. \/ forge' = [forge EXCEPT !.exists = TRUE, !.commits = {change(w)}] /\ GoTo(w, "open")
        \/ \E s : Over(w, s)
    BY <1>6 DEF Push, FailsBy, Fail
  <2>2. Step(w)
    BY <1>6 DEF Step
  <2>3. CASE forge' = [forge EXCEPT !.exists = TRUE, !.commits = {change(w)}] /\ GoTo(w, "open")
    <3>1. change(w) \in forge'.commits
      BY <2>3 DEF HonestSoFar, TypeInv, TypeOK
    <3>2. changes'[change(w)].for = r
      BY <1>0, <1>6 DEF Push, At
    <3> QED
      BY <2>2, <2>3, <3>1, <3>2, GoToHonest
  <2> QED
    BY <2>1, <2>3, OverHonest
<1>7. CASE Open(w)
  <2>1. \/ past' = [past EXCEPT !.offered = past.offered \cup (forge.commits \cap Changes)] /\ Reply(w, "opened")
        \/ \E s : Over(w, s)
    BY <1>7 DEF Open, NotOpened, Fail
  <2>2. Step(w)
    BY <1>7 DEF Step
  <2>3. CASE past' = [past EXCEPT !.offered = past.offered \cup (forge.commits \cap Changes)] /\ Reply(w, "opened")
    <3>1. change(w) \in Changes
      BY <1>7, HandHolds DEF Open, At, HonestSoFar
    <3>2. changes'[change(w)].for = r /\ (meddling > 0 \/ change(w) \in forge.commits)
      BY <1>0, <1>7 DEF Open, At, JobHonest, change
    <3>3. past'.offered = past.offered \cup (forge.commits \cap Changes)
      BY <2>3 DEF HonestSoFar, TypeInv, TypeOK
    <3>4. UNCHANGED meddling
      BY <1>7 DEF Open
    <3>5. Offered(r)'
      <4>1. PICK c \in Changes : c = change(w)
        BY <3>1
      <4>2. changes'[c].for = r /\ (meddling' > 0 \/ c \in past'.offered)
        BY <3>2, <3>3, <3>4, <4>1
      <4> QED
        BY <4>2 DEF Offered, Mine
    <3> QED
      BY <2>2, <2>3, <3>5, ReplyHonest
  <2> QED
    BY <2>1, <2>3, OverHonest
<1>8. CASE Say(w)
  <2>1. PICK told \in {jobs[w].say, requests[r].told, "limited"}, state \in {"settled", AfterFailure(w)} :
          /\ requests' = [requests EXCEPT ![r].told = told, ![r].state = state]
          /\ jobs' = [jobs EXCEPT ![w] = Idle]
    BY <1>8 DEF Say
  <2>2. requests[r] \in RequestRecord
    BY DEF HonestSoFar, TypeInv, TypeOK
  <2>3. requests'[r].told = told /\ requests'[r].state = state
    <3>1. requests'[r] = [requests[r] EXCEPT !.told = told, !.state = state]
      BY <2>1 DEF HonestSoFar, TypeInv, TypeOK
    <3> QED
      BY <2>2, <3>1 DEF RequestRecord
  <2>4. state # "running"
    BY DEF AfterFailure
  <2>5. jobs'[w].step = "idle"
    BY <2>1 DEF Idle, HonestSoFar, TypeInv, TypeOK
  <2>6. /\ jobs[w].say = "opened" => Offered(r)'
        /\ jobs[w].say \in Denials => Absent(r)'
    <3>1. jobs[w].step = "say" /\ ~At(w, "push")
      BY <1>8 DEF Say, At
    <3>2. jobs[w].say = "opened" => Offered(r)
      BY <1>0, <3>1 DEF JobHonest, current
    <3>3. jobs[w].say \in Denials => Absent(r)
      BY <1>0, <3>1 DEF JobHonest, current
    <3> QED
      BY <1>0, <3>1, <3>2, <3>3
  <2>7. /\ told = "opened" => Offered(r)'
        /\ told \in Denials => Absent(r)'
    BY <1>0, <2>1, <2>6
  <2> QED
    BY <2>3, <2>4, <2>5, <2>7 DEF RequestHonest, JobHonest
<1>9. CASE Crash(w)
  BY <1>9, OverHonest DEF Crash
<1> QED
  BY <1>1, <1>2, <1>3, <1>4, <1>5, <1>6, <1>7, <1>8, <1>9 DEF Step

\* A job that acts comes to another step.
LEMMA StepMoves ==
  ASSUME TypeInv, NEW w \in Workers, Step(w) \/ Crash(w)
  PROVE  jobs'[w].step # jobs[w].step
<1>1. \A s : GoTo(w, s) => jobs'[w].step = s
  BY DEF GoTo, JobRecord, TypeInv, TypeOK
<1>2. \A what : Reply(w, what) => jobs'[w].step = "say"
  <2>1. ASSUME NEW what, Reply(w, what) PROVE jobs'[w].step = "say"
    <3>1. jobs'[w] = [jobs[w] EXCEPT !.step = "say", !.say = what] /\ jobs[w] \in JobRecord
      BY <2>1 DEF Reply, TypeInv, TypeOK
    <3> QED
      BY <3>1 DEF JobRecord
  <2> QED
    BY <2>1
<1>3. \A s : Over(w, s) => jobs'[w].step = "idle"
  BY DEF Over, Idle, TypeInv, TypeOK
<1>4. \A c : jobs' = [jobs EXCEPT ![w].step = "changes", ![w].change = c] => jobs'[w].step = "changes"
  <2>1. ASSUME NEW c, jobs' = [jobs EXCEPT ![w].step = "changes", ![w].change = c]
        PROVE  jobs'[w].step = "changes"
    <3>1. jobs'[w] = [jobs[w] EXCEPT !.step = "changes", !.change = c] /\ jobs[w] \in JobRecord
      BY <2>1 DEF TypeInv, TypeOK
    <3> QED
      BY <3>1 DEF JobRecord
  <2> QED
    BY <2>1
<1>5. CASE Gate(w) \/ Find(w) \/ Clone(w) \/ CheckBranch(w)
  BY <1>1, <1>2, <1>3, <1>5 DEF Gate, Find, Clone, CheckBranch, FailsBy, Fail, At
<1>6. CASE Agent(w)
  BY <1>2, <1>3, <1>4, <1>6 DEF Agent, FailsBy, Fail, At
<1>7. CASE LookAtChanges(w) \/ Stage(w) \/ Execute(w) \/ Await(w)
  BY <1>1, <1>2, <1>3, <1>7 DEF LookAtChanges, Stage, Execute, Await, FailsBy, Fail, At
<1>8. CASE Push(w) \/ Open(w)
  BY <1>1, <1>2, <1>3, <1>8 DEF Push, Open, NotOpened, FailsBy, Fail, At
<1>9. CASE Say(w) \/ Crash(w)
  BY <1>3, <1>9 DEF Say, Crash, Busy, Idle, At, TypeInv, TypeOK
<1> QED
  BY <1>5, <1>6, <1>7, <1>8, <1>9 DEF Step

LEMMA NextHonest == HonestSoFar /\ [Next]_vars => HonestInv'
<1> SUFFICES ASSUME HonestSoFar, [Next]_vars
             PROVE  HonestInv'
  OBVIOUS
<1>1. Unborn'
  BY NextChanges DEF HonestSoFar, HonestInv
<1>2. ASSUME NEW w \in Workers, Step(w) \/ Crash(w) PROVE HonestInv'
  <2>1. /\ current(w) \in Requests
        /\ \A v \in Workers \ {w} : jobs'[v] = jobs[v]
        /\ \A r \in Requests \ {current(w)} : requests'[r] = requests[r]
        /\ requests'[current(w)].kind = requests[current(w)].kind
    BY <1>2, StepFrame DEF HonestSoFar
  <2>2. PICK r \in Requests : r = current(w)
    BY <2>1
  <2>3. JobHonest(jobs[w])' /\ RequestHonest(requests[r], r)'
    BY <1>2, <2>2, ActorHonest
  <2>4. ASSUME NEW q \in Requests, q # r PROVE RequestHonest(requests[q], q)'
    BY <2>1, <2>2, <2>4, RequestStaysHonest
  <2>5. ASSUME NEW v \in Workers, v # w PROVE JobHonest(jobs[v])'
    <3>1. \A u \in Workers : Step(u) \/ Crash(u) => u # v
      BY <2>1, <2>5, StepMoves DEF HonestSoFar
    <3>2. ~At(v, "idle") => requests'[current(v)].kind = requests[current(v)].kind
      BY <2>1, BusyHasRequest DEF HonestSoFar
    <3>3. jobs'[v] = jobs[v]
      BY <2>1, <2>5
    <3> QED
      BY <3>1, <3>2, <3>3, JobStaysHonest
  <2> QED
    BY <1>1, <2>3, <2>4, <2>5 DEF HonestInv
<1> DEFINE Outside ==
      \/ Meddle \/ NewHour
      \/ \E c \in Changes : RunnerReads(c) \/ RunnerEnds(c)
      \/ \E r \in Requests :
           \/ DeadLetter(r)
           \/ \E k \in {"implement", "plan"} : Ask(r, k)
      \/ UNCHANGED vars
<1>3. CASE Outside
  <2>1. /\ UNCHANGED jobs
        /\ \A r \in Requests : /\ requests'[r].told = requests[r].told
                               /\ requests'[r].state = "running" => requests[r].state = "running"
                               /\ requests[r].state = "running" => requests'[r] = requests[r]
    BY <1>3, KindsKept DEF HonestSoFar
  <2>2. \A w \in Workers : ~(Step(w) \/ Crash(w))
    BY <2>1, StepMoves DEF HonestSoFar
  <2>3. ASSUME NEW v \in Workers PROVE JobHonest(jobs[v])'
    <3>1. ~At(v, "idle") => requests'[current(v)].kind = requests[current(v)].kind
      BY <2>1, BusyHasRequest DEF HonestSoFar
    <3> QED
      BY <2>1, <2>2, <3>1, JobStaysHonest
  <2>4. ASSUME NEW r \in Requests PROVE RequestHonest(requests[r], r)'
    BY <2>1, RequestStaysHonest
  <2> QED
    BY <1>1, <2>3, <2>4 DEF HonestInv
<1>4. ASSUME NEW w \in Workers, NEW r \in Requests, Begin(w, r) PROVE HonestInv'
  <2>1. /\ jobs[w].step = "idle" /\ jobs'[w].step = "gate" /\ requests[r].state = "waiting"
        /\ requests' = [requests EXCEPT ![r] = [state |-> "running", tries |-> requests[r].tries + 1,
                                                kind |-> requests[r].kind, told |-> "none"]]
    BY <1>4 DEF Begin, At, HonestSoFar, TypeInv, TypeOK
  <2>2. ASSUME NEW v \in Workers, v # w
        PROVE  /\ jobs'[v].step = jobs[v].step /\ jobs'[v].request = jobs[v].request
               /\ jobs'[v].change = jobs[v].change /\ jobs'[v].say = jobs[v].say
    <3>1. jobs'[v] = [jobs[v] EXCEPT !.shared = jobs[v].shared \/ v \in Busy]
      BY <1>4, <2>2 DEF Begin
    <3>2. jobs[v] \in JobRecord
      BY DEF HonestSoFar, TypeInv, TypeOK
    <3> QED
      BY <3>1, <3>2 DEF JobRecord
  <2>3. requests'[r].told = "none" /\ \A q \in Requests \ {r} : requests'[q] = requests[q]
    BY <2>1 DEF HonestSoFar, TypeInv, TypeOK
  <2>4. \A u \in Workers : ~(Step(u) \/ Crash(u))
    <3>1. ASSUME NEW u \in Workers, Step(u) \/ Crash(u) PROVE FALSE
      <4>1. jobs'[u].step # jobs[u].step /\ ~At(u, "idle")
        BY <3>1, StepMoves, StepFrame DEF HonestSoFar
      <4> QED
        BY <2>1, <2>2, <4>1 DEF At
    <3> QED
      BY <3>1
  <2>5. ASSUME NEW q \in Requests PROVE RequestHonest(requests[q], q)'
    <3>1. CASE q = r
      BY <2>3, <3>1 DEF RequestHonest, Denials
    <3>2. CASE q # r
      BY <2>3, <3>2, RequestStaysHonest
    <3> QED
      BY <3>1, <3>2
  <2>6. ASSUME NEW v \in Workers PROVE JobHonest(jobs[v])'
    <3>1. CASE v = w
      BY <2>1, <3>1 DEF JobHonest
    <3>2. CASE v # w
      <4>1. ~At(v, "idle") => current(v) \in Requests /\ current(v) # r
        BY <2>1, BusyHasRequest DEF HonestSoFar
      <4>2. ~At(v, "idle") => requests'[current(v)].kind = requests[current(v)].kind
        BY <2>3, <4>1
      <4> QED
        BY <2>2, <2>4, <3>2, <4>2, JobStaysHonest
    <3> QED
      BY <3>1, <3>2
  <2> QED
    BY <1>1, <2>5, <2>6 DEF HonestInv
<1> QED
  BY <1>2, <1>3, <1>4 DEF Next

(* What the last attempt says on the issue is true, however requests are      *)
(* retried, cross, or lose their worker: who reads that a change was offered  *)
(* finds it offered, unless people used the branch, and who reads that        *)
(* nothing came of it finds no change of it there (sayOnIssue).               *)
THEOREM HonestAnswersTheorem == Spec => []HonestAnswers
<1>1. Init => HonestSoFar
  <2>1. Init => BranchHolds /\ HonestInv
    BY DEF Init, BranchHolds, HonestInv, Unborn, JobHonest, RequestHonest, Idle, Denials
  <2>2. VerifyInv => OnlyVerifiedOffered
    BY DEF VerifyInv
  <2> QED
    BY <2>1, <2>2, InitTypeInv, InitVerifyInv DEF HonestSoFar
<1>2. Init => VerifyInv
  BY InitVerifyInv
<1>3. TypeInv /\ VerifyInv /\ HonestSoFar /\ [Next]_vars => HonestSoFar' /\ VerifyInv'
  <2> SUFFICES ASSUME TypeInv, VerifyInv, HonestSoFar, [Next]_vars
               PROVE  HonestSoFar' /\ VerifyInv'
    OBVIOUS
  <2>1. VerifyInv'
    BY NextVerifyInv
  <2> QED
    BY <2>1, NextTypeInv, NextBranchHolds, NextHonest DEF HonestSoFar, VerifyInv
<1>4. HonestSoFar => HonestAnswers
  <2> SUFFICES ASSUME HonestSoFar, NEW r \in Requests
               PROVE  LET mine == {c \in Changes : changes[c].for = r}
                      IN  /\ requests[r].told = "opened" => meddling > 0 \/ mine \cap past.offered # {}
                          /\ requests[r].told \in Denials => mine \cap forge.commits = {}
    BY DEF HonestAnswers
  <2>1. RequestHonest(requests[r], r)
    BY DEF HonestSoFar, HonestInv
  <2> QED
    BY <2>1 DEF RequestHonest, Offered, Absent, Mine
<1>5. HonestSoFar => TypeInv
  BY DEF HonestSoFar
<1> QED
  BY <1>1, <1>2, <1>3, <1>4, <1>5, PTL DEF Spec

=============================================================================
