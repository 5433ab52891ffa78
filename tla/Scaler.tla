------------------------------- MODULE Scaler -------------------------------
(***************************************************************************)
(* How many workers there are (internal/scale): the server's Waker brings  *)
(* the worker up when it publishes, and the Scaler reconciles the instance *)
(* count with the backlog, once a minute and one call at a time, from a    *)
(* metric that is Lag minutes behind.  Both read and then write the count  *)
(* of one worker pool.                                                     *)
(*                                                                         *)
(* A tick is a minute.  The metric keeps the largest backlog of each       *)
(* minute, and only what the scaler may look back on is kept, so the state *)
(* is finite without a bound on the clock.                                 *)
(***************************************************************************)
EXTENDS Naturals

CONSTANTS
  MinInstances,   \* Policy.Min
  MaxInstances,   \* Policy.Max
  PerInstance,    \* Policy.PerInstance, which is also a worker's concurrency
  IdleAfter,      \* Policy.IdleAfter, in minutes
  Lag,            \* how many minutes the metric is behind
  MaxDelay,       \* how many ticks one reconciliation may take
  MaxMessages,    \* bound: messages published in a behaviour
  MaxErrors       \* bound: API calls that fail in a behaviour

\* Normalize: the policy the scaler works with.
ASSUME ScalerConstants ==
  /\ MinInstances \in Nat /\ MaxInstances \in Nat \ {0} /\ MinInstances <= MaxInstances
  /\ PerInstance \in Nat \ {0} /\ IdleAfter \in Nat \ {0}
  /\ Lag \in Nat /\ MaxDelay \in Nat /\ MaxMessages \in Nat /\ MaxErrors \in Nat
  /\ MaxDelay <= IdleAfter

\* Mutant: the window is not longer than half the time it has to tell.
HalfWindow == IdleAfter \div 2

\* Reconcile looks back twice as far as the idle threshold.
Window == 2 * IdleAfter

Minutes == 1 .. Lag + 2 * IdleAfter

\* NewWaker(pool, 1, ...): the server keeps the worker at one at least.
WakeFloor == 1

VARIABLES
  queue,      \* messages not acknowledged, those being worked on included
  busy,       \* how many of them a worker is working on
  published,  \* how many there have been
  minute,     \* the largest backlog of the current minute
  minutes,    \* the minutes before, newest first
  instances,  \* the pool's manual instance count
  changed,    \* minutes since its updateTime, up to IdleAfter
  scaler,     \* the reconciliation that runs: its step and what it has read
  reconciled, \* whether one was started in this minute
  waker,      \* the Wake call that runs, and whether the cooldown is over
  errors,     \* how many calls have failed
  asleep      \* history: minutes a message has waited with no worker

vars == <<queue, busy, published, minute, minutes, instances, changed, scaler,
          reconciled, waker, errors, asleep>>

Backlogs == 0..MaxMessages
Instances == 0..MaxInstances

Resting == [step |-> "idle", desired |-> 0, current |-> 0, age |-> 0]

TypeOK ==
  /\ queue \in Backlogs /\ busy \in Backlogs /\ published \in Backlogs
  /\ minute \in Backlogs /\ minutes \in [Minutes -> Backlogs]
  /\ instances \in Instances /\ changed \in 0..IdleAfter
  /\ scaler \in [step : {"idle", "compare", "settle", "apply"},
                 desired : Instances, current : Instances, age : 0..MaxDelay]
  /\ reconciled \in BOOLEAN
  /\ waker \in [step : {"idle", "look", "wake"}, cooled : BOOLEAN]
  /\ errors \in Nat /\ asleep \in Nat
  /\ busy <= queue /\ busy <= instances * PerInstance /\ queue <= minute

\* The queue has been empty for as long as the metric goes back.
Init ==
  /\ queue = 0 /\ busy = 0 /\ published = 0
  /\ minute = 0 /\ minutes = [i \in Minutes |-> 0]
  /\ instances = MinInstances /\ changed = IdleAfter
  /\ scaler = Resting /\ reconciled = FALSE
  /\ waker = [step |-> "idle", cooled |-> TRUE]
  /\ errors = 0 /\ asleep = 0

Least(a, b) == IF a <= b THEN a ELSE b
Most(a, b) == IF a >= b THEN a ELSE b

\* How many minutes go by until a reconciliation starts that is not held up by
\* one before it, after so many failed calls.
Patience(failed) == (failed + 1) * Most(MaxDelay, 1)

\* Nobody counts further than this.
TooLong == Lag + MaxDelay + Patience(MaxErrors) + 1

\* Mutant: a minute is sampled when it begins.
Sampled(n) == minute

\* ALIGN_MAX: a message that comes and goes within a minute still counts.
Aligned(n) == Most(minute, n)

CallFails == errors < MaxErrors /\ errors' = errors + 1
NoError == UNCHANGED errors

queueVars == <<queue, published, minute, minutes, asleep>>

\* SetInstances: the pool is read and its scaling block patched.  Workers that
\* go take their jobs with them, and the messages are delivered again.
SetInstances(n) ==
  /\ instances' = n
  /\ changed' = 0
  /\ IF n < instances
     THEN \E b \in 0 .. Least(busy, n * PerInstance) : busy' = b
     ELSE UNCHANGED busy

-----------------------------------------------------------------------------
(* Policy.Desired.                                                         *)

\* What a reading shows: minute k of it, newest first.
Sample(k) == minutes[Lag + k]

Positive == {k \in 1..Window : Sample(k) > 0}

\* emptyFor: how far back from the newest sample the queue has been empty.
EmptyFor ==
  IF Positive = {} THEN Window
  ELSE (CHOOSE k \in Positive : \A o \in Positive : k <= o) - 1

\* Mutant: as many instances as the backlog fills.
WantFull(n) == Least(n \div PerInstance, MaxInstances)

\* One instance per PerInstance messages, rounded up, within the limits.
Want(n) ==
  Least(Most((n + PerInstance - 1) \div PerInstance, Most(MinInstances, 1)), MaxInstances)

Desired ==
  IF Sample(1) > 0 THEN Want(Sample(1))
  ELSE IF EmptyFor < IdleAfter THEN Most(MinInstances, 1)
  ELSE MinInstances

\* Mutant: a backlog nobody could read counts as an empty one.
UnknownIsEmpty == MinInstances

\* An unreadable or missing metric keeps the worker up.
Unknown == Most(MinInstances, 1)

-----------------------------------------------------------------------------
(* Scaler.Reconcile, one action per call it makes.                         *)

Resume(step) == scaler' = [scaler EXCEPT !.step = step]
Return == scaler' = Resting

\* The backlog is read and a count decided on.
Observe ==
  /\ scaler.step = "idle"
  /\ ~reconciled
  /\ reconciled' = TRUE
  /\ \/ /\ scaler' = [Resting EXCEPT !.step = "compare", !.desired = Desired]
        /\ NoError
     \/ /\ scaler' = [Resting EXCEPT !.step = "compare", !.desired = Unknown]
        /\ CallFails
  /\ UNCHANGED <<queueVars, busy, instances, changed, waker>>

\* The target's count is read; nothing is done when it is the one wanted.
Compare ==
  /\ scaler.step = "compare"
  /\ \/ /\ scaler' = IF instances = scaler.desired THEN Resting
                     ELSE [scaler EXCEPT !.current = instances,
                           !.step = IF scaler.desired < instances THEN "settle" ELSE "apply"]
        /\ NoError
     \/ Return /\ CallFails
  /\ UNCHANGED <<queueVars, busy, instances, changed, reconciled, waker>>

\* settling: a count changed less than IdleAfter ago is not lowered, nor one
\* whose last change could not be read.
Settle ==
  /\ scaler.step = "settle"
  /\ \/ /\ scaler' = IF changed < IdleAfter THEN Resting ELSE [scaler EXCEPT !.step = "apply"]
        /\ NoError
     \/ Return /\ CallFails
  /\ UNCHANGED <<queueVars, busy, instances, changed, reconciled, waker>>

\* The count is written, whatever became of it since it was read.
Apply ==
  /\ scaler.step = "apply"
  /\ \/ SetInstances(scaler.desired) /\ NoError
     \/ UNCHANGED <<instances, changed, busy>> /\ CallFails
  /\ Return
  /\ UNCHANGED <<queueVars, reconciled, waker>>

-----------------------------------------------------------------------------
(* Waker.Wake.  Its timeout and its cooldown are half a minute, so one call *)
(* runs at a time and every minute may begin one.                           *)

\* The receiver publishes an event and wakes the worker, outside the cooldown.
Publish ==
  /\ published < MaxMessages
  /\ published' = published + 1
  /\ queue' = queue + 1
  /\ minute' = Aligned(queue + 1)
  /\ waker' = IF waker.cooled /\ waker.step = "idle"
              THEN [step |-> "look", cooled |-> FALSE] ELSE waker
  /\ UNCHANGED <<busy, minutes, instances, changed, scaler, reconciled, errors, asleep>>

\* Nothing is to be done when the count is not below the floor.  An error here
\* leaves the cooldown as it is.
WakeLooks ==
  /\ waker.step = "look"
  /\ \/ waker' = [waker EXCEPT !.step = IF instances >= WakeFloor THEN "idle" ELSE "wake"]
        /\ NoError
     \/ waker' = [waker EXCEPT !.step = "idle"] /\ CallFails
  /\ UNCHANGED <<queueVars, busy, instances, changed, scaler, reconciled>>

\* The count is raised; a failure forgets the cooldown.
WakeSets ==
  /\ waker.step = "wake"
  /\ \/ /\ SetInstances(WakeFloor) /\ NoError
        /\ waker' = [waker EXCEPT !.step = "idle"]
     \/ /\ UNCHANGED <<instances, changed, busy>> /\ CallFails
        /\ waker' = [step |-> "idle", cooled |-> TRUE]
  /\ UNCHANGED <<queueVars, scaler, reconciled>>

-----------------------------------------------------------------------------
(* The workers and the clock.                                              *)

\* A worker takes a message; it holds it until the job is done.
Take ==
  /\ busy < queue
  /\ busy < instances * PerInstance
  /\ busy' = busy + 1
  /\ UNCHANGED <<queueVars, instances, changed, scaler, reconciled, waker, errors>>

Finish ==
  /\ busy > 0
  /\ busy' = busy - 1
  /\ queue' = queue - 1
  /\ UNCHANGED <<published, minute, minutes, instances, changed, scaler,
                 reconciled, waker, errors, asleep>>

\* A minute passes.  A reconciliation is started in every minute, unless the
\* one before still runs, which it does for MaxDelay ticks at most.
Tick ==
  /\ scaler.step = "idle" => reconciled
  /\ scaler.step # "idle" => scaler.age < MaxDelay
  /\ waker.step = "idle"
  /\ minutes' = [i \in Minutes |-> IF i = 1 THEN minute ELSE minutes[i - 1]]
  /\ minute' = queue
  /\ changed' = Least(changed + 1, IdleAfter)
  /\ scaler' = IF scaler.step = "idle" THEN scaler ELSE [scaler EXCEPT !.age = @ + 1]
  /\ reconciled' = FALSE
  /\ waker' = [waker EXCEPT !.cooled = TRUE]
  /\ asleep' = IF queue > 0 /\ instances = 0 THEN Least(asleep + 1, TooLong) ELSE 0
  /\ UNCHANGED <<queue, busy, published, instances, errors>>

Next ==
  \/ Observe \/ Compare \/ Settle \/ Apply
  \/ Publish \/ WakeLooks \/ WakeSets
  \/ Take \/ Finish \/ Tick

\* Calls return, jobs end, and the clock goes on; nobody has to publish.
Fairness ==
  /\ WF_vars(Observe) /\ WF_vars(Compare) /\ WF_vars(Settle) /\ WF_vars(Apply)
  /\ WF_vars(WakeLooks) /\ WF_vars(WakeSets)
  /\ WF_vars(Take) /\ WF_vars(Finish) /\ WF_vars(Tick)

Spec == Init /\ [][Next]_vars
FairSpec == Spec /\ Fairness

-----------------------------------------------------------------------------
(* Properties.                                                             *)

\* The worker is scaled away only when the metric has shown IdleAfter empty
\* minutes in a row, as far back as the reconciliation that does it may have
\* read it: a message older than the metric's lag keeps a worker, and so does
\* a metric that cannot be read (scale.go, Desired).
AwayOnlyAfterQuiet ==
  [][instances > 0 /\ instances' = 0 =>
       \E d \in 0..MaxDelay : \A i \in 1..IdleAfter :
         minutes[Lag + d + i] = 0]_vars

\* No message waits for a worker longer than the metric needs to show it and
\* two reconciliations to act on it, the first of which read the metric before,
\* plus one for every failed call, though a wake-up may be skipped, fail, or be
\* undone by a scale-down (Waker.Wake, Scaler.Reconcile).
NobodySleepsIn == asleep <= Lag + MaxDelay + Patience(errors)

\* All that is published is worked off, and the worker then goes away.
WorkedOff == <>[](queue = 0)
BackToRest == <>[](instances = MinInstances)

=============================================================================
