------------------------------- MODULE Guard -------------------------------
(***************************************************************************)
(* The worker's Guard (internal/worker/guard.go): what stands between an   *)
(* at-least-once queue and the review job.  A worker takes a copy of a     *)
(* message, claims its delivery in the state store, takes the lock of its  *)
(* pull request, runs the job, and then records the delivery as done,      *)
(* gives the claim back for a retry, or gives up and says so.              *)
(*                                                                         *)
(* Every call to the store is a step of its own, so the workers interleave *)
(* between any two of them.  Time is abstracted: a lock nobody extends any *)
(* more and a claim whose maker is gone may expire at any moment (Lease    *)
(* has the clock).  What goes wrong is a Mishap; MaxMishaps bounds them.   *)
(***************************************************************************)
EXTENDS Naturals, FiniteSets

CONSTANTS
  Messages,      \* queue messages
  Deliveries,    \* webhook deliveries (store.DeliveryKey)
  Pulls,         \* pull requests (store.LockKey)
  Workers,       \* goroutines that handle one message at a time
  DeliveryOf,    \* the delivery a message carries
  PullOf,        \* the pull request a delivery is about
  SelfAuthored,  \* the messages kibitz's own accounts caused
  Unreachable,   \* deliveries NotifyFailure tells nobody of: issues, or all
                 \* of them without a notifier or a client of the platform
  MaxDeliveries, \* Guard.MaxDeliveries: the attempt that gives up
  MaxAttempts,   \* the subscription's max_delivery_attempts
  Mishaps,       \* what may go wrong, a subset of MishapKinds
  MaxMishaps,    \* how often, over a behaviour
  None,          \* no message
  Free,          \* nobody holds the lock
  Orphan         \* the lock is held and its holder is gone

MishapKinds == {"crash", "duplicate", "store", "stall", "notice"}

ASSUME GuardConstants ==
  /\ DeliveryOf \in [Messages -> Deliveries]
  /\ PullOf \in [Deliveries -> Pulls]
  /\ SelfAuthored \subseteq Messages /\ Unreachable \subseteq Deliveries
  /\ MaxDeliveries \in Nat /\ MaxAttempts \in Nat /\ MaxMishaps \in Nat
  /\ Mishaps \subseteq MishapKinds

ASSUME GuardNames ==
  /\ None \notin Messages
  /\ Free \notin Workers /\ Orphan \notin Workers /\ Free # Orphan

VARIABLES
  queue,     \* per message: "waiting" (not settled), "acked" or "dead"
  attempts,  \* per message: how often it was handed to a worker
  record,    \* per delivery: the marker in the store
  lock,      \* per pull request: who holds it
  pc,        \* per worker: the next step of Guard.Handle
  job,       \* per worker: the message it handles
  seen,      \* per worker: job.Deliveries, the attempt number of its copy
  claimed,   \* per worker: whether its MarkProcessed came first
  result,    \* per worker: what the job returned
  mishaps,   \* how many mishaps there have been
  crashed,   \* history: messages whose worker died with them
  finished,  \* history: deliveries a job finished without an error
  failures,  \* history, per delivery: jobs that returned an error
  told,      \* history: deliveries whose failure the pull request was told
  untold,    \* history: deliveries given up and told to nobody
  stalled    \* history: workers whose lease expired under them

vars == <<queue, attempts, record, lock, pc, job, seen, claimed, result,
          mishaps, crashed, finished, failures, told, untold, stalled>>
history == <<crashed, finished, failures, told, untold, stalled>>

Steps == {"idle", "received", "check", "lock", "unclaim", "run", "unlock",
          "remember", "release", "notify", "ack", "nack"}

\* The steps at which Handle has its lease and has not called Release yet.
Holding == {"run", "unlock"}

TypeOK ==
  /\ queue \in [Messages -> {"waiting", "acked", "dead"}]
  /\ attempts \in [Messages -> Nat]
  /\ record \in [Deliveries -> {"absent", "claim", "done"}]
  /\ lock \in [Pulls -> Workers \cup {Free, Orphan}]
  /\ pc \in [Workers -> Steps]
  /\ job \in [Workers -> Messages \cup {None}]
  /\ \A w \in Workers : (pc[w] = "idle") <=> (job[w] = None)
  /\ seen \in [Workers -> Nat]
  /\ claimed \in [Workers -> BOOLEAN]
  /\ result \in [Workers -> {"none", "ok", "error", "permanent"}]
  /\ mishaps \in Nat
  /\ crashed \in SUBSET Messages
  /\ finished \in SUBSET Deliveries
  /\ failures \in [Deliveries -> Nat]
  /\ told \in SUBSET Deliveries
  /\ untold \in SUBSET Deliveries
  /\ stalled \in SUBSET Workers

Init ==
  /\ queue = [m \in Messages |-> "waiting"]
  /\ attempts = [m \in Messages |-> 0]
  /\ record = [d \in Deliveries |-> "absent"]
  /\ lock = [p \in Pulls |-> Free]
  /\ pc = [w \in Workers |-> "idle"]
  /\ job = [w \in Workers |-> None]
  /\ seen = [w \in Workers |-> 0]
  /\ claimed = [w \in Workers |-> FALSE]
  /\ result = [w \in Workers |-> "none"]
  /\ mishaps = 0
  /\ crashed = {}
  /\ finished = {}
  /\ failures = [d \in Deliveries |-> 0]
  /\ told = {}
  /\ untold = {}
  /\ stalled = {}

delivery(w) == DeliveryOf[job[w]]
pull(w) == PullOf[delivery(w)]

Mishap(kind) ==
  /\ kind \in Mishaps
  /\ mishaps < MaxMishaps
  /\ mishaps' = mishaps + 1

GoTo(w, step) == pc' = [pc EXCEPT ![w] = step]

\* A store call fails.  The error may hide a write that took effect: the
\* callers let the variable keep its value or take the written one.
StoreError(w, step) == Mishap("store") /\ GoTo(w, step)

-----------------------------------------------------------------------------
(* The queue, as the subscribers use it.                                   *)

InFlight(m) == \E w \in Workers : job[w] = m

\* Receive hands a message to the handler, counting the attempt.  A second
\* copy while one is out is at-least-once delivery at its worst.
Deliver(w, m) ==
  /\ pc[w] = "idle"
  /\ queue[m] = "waiting"
  /\ attempts[m] < MaxAttempts
  /\ IF InFlight(m) THEN Mishap("duplicate") ELSE UNCHANGED mishaps
  /\ attempts' = [attempts EXCEPT ![m] = @ + 1]
  /\ job' = [job EXCEPT ![w] = m]
  /\ seen' = [seen EXCEPT ![w] = attempts[m] + 1]
  /\ GoTo(w, "received")
  /\ UNCHANGED <<queue, record, lock, claimed, result, history>>

\* A message whose attempts are used up goes to the dead letter topic.
DeadLetter(m) ==
  /\ queue[m] = "waiting"
  /\ attempts[m] >= MaxAttempts
  /\ ~InFlight(m)
  /\ queue' = [queue EXCEPT ![m] = "dead"]
  /\ UNCHANGED <<attempts, record, lock, pc, job, seen, claimed, result,
                 mishaps, history>>

\* Mutant: the slot keeps the message it has answered.
StaleSlot(w) == job

EmptySlot(w) == [job EXCEPT ![w] = None]

\* The call of Handle is over, and its local variables with it.
Leave(w) ==
  /\ GoTo(w, "idle")
  /\ job' = EmptySlot(w)
  /\ seen' = [seen EXCEPT ![w] = 0]
  /\ claimed' = [claimed EXCEPT ![w] = FALSE]
  /\ result' = [result EXCEPT ![w] = "none"]
  /\ stalled' = stalled \ {w}
  /\ UNCHANGED <<attempts, record, finished, failures, told, untold>>

\* Handle returned nil.
Ack(w) ==
  /\ pc[w] = "ack"
  /\ queue' = [queue EXCEPT ![job[w]] = IF @ = "waiting" THEN "acked" ELSE @]
  /\ Leave(w)
  /\ UNCHANGED <<lock, mishaps, crashed>>

\* Handle returned an error: the message stays and is delivered again.
Nack(w) ==
  /\ pc[w] = "nack"
  /\ UNCHANGED queue
  /\ Leave(w)
  /\ UNCHANGED <<lock, mishaps, crashed>>

-----------------------------------------------------------------------------
(* Guard.Handle, one action per call that leaves the process.              *)

Keep == UNCHANGED <<queue, attempts, job, seen>>

DropSelf(w) ==
  /\ pc[w] = "received"
  /\ job[w] \in SelfAuthored
  /\ GoTo(w, "ack")
  /\ UNCHANGED <<record, lock, claimed, result, mishaps, history>>
  /\ Keep

\* MarkProcessed on the delivery key: first come, first claimed.
Claim(w) ==
  /\ pc[w] = "received"
  /\ job[w] \notin SelfAuthored
  /\ LET d == delivery(w)
         first == record[d] = "absent"
         marked == [record EXCEPT ![d] = IF first THEN "claim" ELSE @]
     IN \/ /\ record' = marked
           /\ claimed' = [claimed EXCEPT ![w] = first]
           /\ GoTo(w, IF first THEN "lock" ELSE "check")
           /\ UNCHANGED mishaps
        \/ /\ StoreError(w, "nack")
           /\ record' \in {record, marked}
           /\ UNCHANGED claimed
  /\ UNCHANGED <<lock, result, history>>
  /\ Keep

\* Mutant: whoever claimed the delivery is taken to have finished it.
ClaimIsFinished(w) == record[delivery(w)] # "absent"

Finished(w) == record[delivery(w)] = "done"

\* finished(): only a completion ends the delivery here.  A claim alone is
\* taken over, and the lock decides whether its maker is still at work.
Check(w) ==
  /\ pc[w] = "check"
  /\ \/ /\ GoTo(w, IF Finished(w) THEN "ack" ELSE "lock")
        /\ UNCHANGED mishaps
     \/ StoreError(w, "nack")
  /\ UNCHANGED <<record, lock, claimed, result, history>>
  /\ Keep

\* AcquireLock.  An acquisition whose answer is lost leaves a lock without a
\* holder.  A claim this call made is given back before the message is.
Lock(w) ==
  /\ pc[w] = "lock"
  /\ LET p == pull(w)
         back == IF claimed[w] THEN "unclaim" ELSE "nack"
     IN \/ /\ lock[p] = Free
           /\ lock' = [lock EXCEPT ![p] = w]
           /\ GoTo(w, "run")
           /\ UNCHANGED mishaps
        \/ /\ lock[p] # Free
           /\ GoTo(w, back)
           /\ UNCHANGED <<lock, mishaps>>
        \/ /\ StoreError(w, back)
           /\ \/ UNCHANGED lock
              \/ lock[p] = Free /\ lock' = [lock EXCEPT ![p] = Orphan]
  /\ UNCHANGED <<record, claimed, result, history>>
  /\ Keep

\* The job returns.  A timeout, a shutdown and a keepalive that lost the
\* lease reach the guard the same way, as an error of the job.
Run(w) ==
  /\ pc[w] = "run"
  /\ GoTo(w, "unlock")
  /\ \E r \in {"ok", "error", "permanent"} :
       /\ result' = [result EXCEPT ![w] = r]
       /\ IF r = "ok"
          THEN /\ finished' = finished \cup {delivery(w)}
               /\ UNCHANGED failures
          ELSE /\ failures' = [failures EXCEPT ![delivery(w)] = @ + 1]
               /\ UNCHANGED finished
  /\ UNCHANGED <<record, lock, claimed, mishaps, crashed, told, untold, stalled>>
  /\ Keep

\* Mutant: the attempt that gives up must be hit exactly.
GivesUpOnTheDot(w) ==
  \/ result[w] = "permanent"
  \/ MaxDeliveries > 0 /\ seen[w] = MaxDeliveries

GivesUp(w) ==
  \/ result[w] = "permanent"
  \/ MaxDeliveries > 0 /\ seen[w] >= MaxDeliveries

\* Mutant: giving up records the delivery as done and tells nobody.
AfterRunSilently(w) ==
  IF result[w] = "ok" \/ GivesUp(w) THEN "remember" ELSE "release"

\* What follows the job: remember a success, give up, or hand the claim back.
AfterRun(w) ==
  IF result[w] = "ok" THEN "remember"
  ELSE IF GivesUp(w) THEN "notify" ELSE "release"

\* Mutant: the lock is deleted whoever owns it by now.
AnyonesLock(w, p) == Free

\* What Release leaves of the lock.
Released(w, p) == IF lock[p] = w THEN Free ELSE lock[p]

\* Lease.Release deletes the lock only if this lease still owns it; failing
\* to is logged, and then the lock stands until it expires.
Unlock(w) ==
  /\ pc[w] = "unlock"
  /\ LET p == pull(w)
         freed == [lock EXCEPT ![p] = Released(w, p)]
         left  == [lock EXCEPT ![p] = IF @ = w THEN Orphan ELSE @]
     IN \/ /\ lock' = freed
           /\ GoTo(w, AfterRun(w))
           /\ UNCHANGED mishaps
        \/ StoreError(w, AfterRun(w)) /\ lock' \in {left, freed}
  /\ UNCHANGED <<record, claimed, result, history>>
  /\ Keep

\* NotifyFailure tells the pull request; of a delivery without one it tells
\* nobody and reports success.  A notice that fails is only logged, and the
\* delivery is recorded and acknowledged all the same.
Notify(w) ==
  /\ pc[w] = "notify"
  /\ LET d == delivery(w)
     IN \/ /\ d \notin Unreachable
           /\ told' = told \cup {d}
           /\ UNCHANGED <<untold, mishaps>>
        \/ /\ IF d \in Unreachable THEN UNCHANGED mishaps ELSE Mishap("notice")
           /\ untold' = untold \cup {d}
           /\ UNCHANGED told
  /\ GoTo(w, "remember")
  /\ UNCHANGED <<record, lock, claimed, result, crashed, finished, failures,
                 stalled>>
  /\ Keep

\* remember(): Put done.  An error is logged and the message still acked.
Remember(w) ==
  /\ pc[w] = "remember"
  /\ LET done == [record EXCEPT ![delivery(w)] = "done"]
     IN \/ record' = done /\ GoTo(w, "ack") /\ UNCHANGED mishaps
        \/ StoreError(w, "ack") /\ record' \in {record, done}
  /\ UNCHANGED <<lock, claimed, result, history>>
  /\ Keep

\* release(): Delete the delivery key, whatever it holds by now.
Release(w) ==
  /\ pc[w] \in {"unclaim", "release"}
  /\ LET deleted == [record EXCEPT ![delivery(w)] = "absent"]
     IN \/ record' = deleted /\ GoTo(w, "nack") /\ UNCHANGED mishaps
        \/ StoreError(w, "nack") /\ record' \in {record, deleted}
  /\ UNCHANGED <<lock, claimed, result, history>>
  /\ Keep

-----------------------------------------------------------------------------
(* What happens to a worker and to the store without a call.               *)

\* The process dies.  Its claim and its lock stay behind; the queue gets no
\* answer and delivers the message again.
Crash(w) ==
  /\ pc[w] # "idle"
  /\ Mishap("crash")
  /\ lock' = [p \in Pulls |-> IF lock[p] = w THEN Orphan ELSE lock[p]]
  /\ crashed' = crashed \cup {job[w]}
  /\ UNCHANGED queue
  /\ Leave(w)

\* The keepalive came too late: the lease expires while the job runs.
Stall(w) ==
  /\ pc[w] \in Holding
  /\ lock[pull(w)] = w
  /\ Mishap("stall")
  /\ lock' = [lock EXCEPT ![pull(w)] = Free]
  /\ stalled' = stalled \cup {w}
  /\ UNCHANGED <<queue, attempts, record, pc, job, seen, claimed, result,
                 crashed, finished, failures, told, untold>>

\* Mutant: a lock taken without a TTL stays for ever.
NeverExpires(p) == FALSE

Abandoned(p) == lock[p] = Orphan

\* A lock that nobody extends runs out.
LockExpires(p) ==
  /\ Abandoned(p)
  /\ lock' = [lock EXCEPT ![p] = Free]
  /\ UNCHANGED <<queue, attempts, record, pc, job, seen, claimed, result,
                 mishaps, history>>

\* A claim outlives its maker by ClaimTTL, twice the job timeout, and never
\* runs out under it.
ClaimExpires(d) ==
  /\ record[d] = "claim"
  /\ ~ \E w \in Workers : job[w] # None /\ delivery(w) = d /\ claimed[w]
  /\ record' = [record EXCEPT ![d] = "absent"]
  /\ UNCHANGED <<queue, attempts, lock, pc, job, seen, claimed, result,
                 mishaps, history>>

\* Nothing is left to deliver: Receive waits.
Idle ==
  /\ \A m \in Messages : queue[m] # "waiting"
  /\ \A w \in Workers : pc[w] = "idle"
  /\ UNCHANGED vars

Step(w) ==
  \/ DropSelf(w) \/ Claim(w) \/ Check(w) \/ Lock(w) \/ Run(w) \/ Unlock(w)
  \/ Notify(w) \/ Remember(w) \/ Release(w) \/ Ack(w) \/ Nack(w)

Next ==
  \/ \E w \in Workers : Step(w) \/ Crash(w) \/ Stall(w)
  \/ \E w \in Workers, m \in Messages : Deliver(w, m)
  \/ \E m \in Messages : DeadLetter(m)
  \/ \E p \in Pulls : LockExpires(p)
  \/ \E d \in Deliveries : ClaimExpires(d)
  \/ Idle

\* A worker goes on with its job (the job timeout bounds it), the queue goes
\* on delivering, and an abandoned lock runs out.  Claims need not expire.
Fairness ==
  /\ \A w \in Workers : WF_vars(Step(w))
  /\ \A m \in Messages : /\ WF_vars(\E w \in Workers : Deliver(w, m))
                         /\ WF_vars(DeadLetter(m))
  /\ \A p \in Pulls : WF_vars(LockExpires(p))

Spec == Init /\ [][Next]_vars
FairSpec == Spec /\ Fairness

-----------------------------------------------------------------------------
(* Properties.                                                             *)

\* Between AcquireLock and Release a worker owns the lock of its pull request
\* in the store, unless its lease ran out under it: no other worker's release,
\* late answer or takeover of a claim can take it away, so one pull request is
\* worked on by one worker at a time (guard.go, type Guard).
HoldersOwnTheLock ==
  \A w \in Workers : pc[w] \in Holding /\ w \notin stalled => lock[pull(w)] = w

Answered == finished \cup told
Failed == {d \in Deliveries : failures[d] > 0}

\* A delivery the store calls done was answered: the job finished or the pull
\* request was told, unless the guard gave up and its notice reached nobody.
\* It is what entitles Check to acknowledge a redelivery without looking
\* further, after crashes, takeovers and lost store answers.
DoneMeansAnswered ==
  \A d \in Deliveries : record[d] = "done" =>
    d \in Answered \/ (d \in untold /\ d \in Failed)

\* Failing alone never ends in the dead letter topic: a job that failed
\* MaxDeliveries times has been given up and reported before the attempts run
\* out, whatever turns it lost to lock conflicts, unless its worker died.
DeadMeansSilence ==
  \A m \in Messages : queue[m] = "dead" =>
    \/ m \in crashed
    \/ MaxDeliveries = 0 \/ MaxDeliveries >= MaxAttempts
    \/ failures[DeliveryOf[m]] < MaxDeliveries

Promise == INSTANCE AtLeastOnce
  WITH answered <- Answered, failed <- Failed, lost <- untold,
       Exempt <- SelfAuthored, NoticesFail <- "notice" \in Mishaps

\* The guard implements AtLeastOnce: no message is acknowledged before its
\* delivery was answered, but for a failed job whose notice could not reach
\* anybody.
PromiseKept == Promise!Spec

\* The lock of a pull request is always freed again, whoever died or lost
\* touch with the store while holding it.
LockFreed == \A p \in Pulls : lock[p] # Free ~> lock[p] = Free

\* Every message is settled in the end, acknowledged or dead lettered.
EverySettled == \A m \in Messages : <>(queue[m] # "waiting")

=============================================================================
