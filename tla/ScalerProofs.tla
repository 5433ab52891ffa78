---------------------------- MODULE ScalerProofs ----------------------------
(* The worker pool, for every policy, lag of the metric and delay of the     *)
(* reconciliation: its types, that the worker goes away only after a quiet   *)
(* time, and how long a message may wait for one at most.                    *)
EXTENDS Scaler, WellFoundedInduction, TLAPS

-----------------------------------------------------------------------------
(* The parts of the invariants.                                              *)

Decided == scaler.step # "idle"

\* A message is in the metric's minutes, and the queue holds no other.
TypeInv == TypeOK /\ queue <= published

\* Who takes the worker away read IdleAfter empty minutes, scaler.age ago.
Quiet ==
  Decided /\ scaler.desired = 0 =>
    \A i \in 1..IdleAfter : minutes[Lag + scaler.age + i] = 0

\* A minute in which a message waited for a worker is none of an empty queue.
SleepShows == \A i \in 1 .. Lag + 1 : i <= asleep => minutes[i] > 0

\* A reconciliation wants no worker only if it read before the wait showed.
StaleReading == Decided /\ scaler.desired = 0 => asleep <= Lag + scaler.age

\* What is lowered is not at the bottom yet, and stays above it till it is.
Lowers == scaler.step = "settle" => instances > 0

\* A reconciliation that ran over a minute's end lets the next one start.
Restarts == Decided => (reconciled <=> scaler.age = 0)

\* The next reading is due: with no worker there, it starts in time.
Due ==
  \/ instances > 0
  \/ Decided /\ asleep <= Lag + Patience(errors) + scaler.age
  \/ ~Decided /\ reconciled /\ asleep + 1 <= Lag + Patience(errors)
  \/ ~Decided /\ ~reconciled /\ asleep <= Lag + Patience(errors)

SleepInv == SleepShows /\ StaleReading /\ Lowers /\ Restarts /\ Due

-----------------------------------------------------------------------------
(* The operators.                                                            *)

LEMMA PatienceGrows ==
    ASSUME NEW n \in Nat
    PROVE  /\ Patience(n) \in Nat /\ Patience(n) >= 1 /\ Patience(n) >= MaxDelay
           /\ Patience(n + 1) \in Nat /\ Patience(n + 1) >= Patience(n) + 1
           /\ Patience(n + 1) >= Patience(n) + MaxDelay
<1> DEFINE d == Most(MaxDelay, 1)
<1>1. d \in Nat /\ d >= 1 /\ d >= MaxDelay /\ MaxDelay \in Nat
  BY ScalerConstants DEF Most
<1> HIDE DEF d
<1>2. n * d \in Nat
  BY <1>1
<1>3. (n + 1) * d = n * d + d /\ (n + 1 + 1) * d = n * d + d + d
  BY <1>1
<1>4. Patience(n) = n * d + d /\ Patience(n + 1) = n * d + d + d
  BY <1>3 DEF Patience, d
<1> QED BY <1>1, <1>2, <1>4

\* A backlog that shows is worth a worker, and so is one nobody can read.
LEMMA Wanted ==
    /\ \A n \in Nat : Want(n) \in Instances /\ Want(n) > 0
    /\ Unknown \in Instances /\ Unknown > 0
    /\ MinInstances \in Instances
<1> SUFFICES ASSUME NEW n \in Nat
             PROVE  /\ Want(n) \in Instances /\ Want(n) > 0
                    /\ Unknown \in Instances /\ Unknown > 0
                    /\ MinInstances \in Instances
  OBVIOUS
<1> DEFINE q == (n + PerInstance - 1) \div PerInstance
<1>1. q \in Int
  BY ScalerConstants
<1>2. /\ MinInstances \in Nat /\ MaxInstances \in Nat /\ MaxInstances > 0
      /\ MinInstances <= MaxInstances
  BY ScalerConstants
<1>3. Want(n) = Least(Most(q, Most(MinInstances, 1)), MaxInstances)
  BY DEF Want
<1> HIDE DEF q
<1> QED BY <1>1, <1>2, <1>3 DEF Least, Most, Unknown, Instances

\* The newest minute that shows a backlog.
LEMMA NewestPositive ==
    ASSUME Positive # {}
    PROVE  \E k \in Positive : \A o \in Positive : k <= o
<1>1. Positive \subseteq Nat
  BY ScalerConstants DEF Positive, Window
<1>2. PICK k \in Positive : \A o \in Positive : ~(<<o, k>> \in OpToRel(<, Nat))
  BY <1>1, NatLessThanWellFounded, WFMin
<1>3. \A o \in Positive : o \in Nat /\ k \in Nat
  BY <1>1
<1>4. \A o \in Positive : ~(o < k)
  BY <1>2, <1>3 DEF OpToRel
<1> QED BY <1>3, <1>4

\* Who wants no worker has read IdleAfter empty minutes.
LEMMA DesiredIsQuiet ==
    ASSUME TypeOK
    PROVE  /\ Desired \in Instances
           /\ Desired = 0 => \A i \in 1..IdleAfter : minutes[Lag + i] = 0
<1>1. \A k \in 1..Window : Lag + k \in Minutes /\ Sample(k) \in Nat
  BY ScalerConstants DEF TypeOK, Window, Minutes, Sample, Backlogs
<1>2. 1 \in 1..Window /\ 1..IdleAfter \subseteq 1..Window
  BY ScalerConstants DEF Window
<1>3. Desired \in Instances
  BY <1>1, <1>2, Wanted DEF Desired, Unknown
<1>4. ASSUME Desired = 0
      PROVE  \A i \in 1..IdleAfter : minutes[Lag + i] = 0
  <2>1. ~(Sample(1) > 0) /\ ~(EmptyFor < IdleAfter)
    BY <1>1, <1>2, <1>4, Wanted DEF Desired, Unknown
  <2>2. CASE Positive = {}
    BY <1>1, <1>2, <2>2 DEF Positive, Sample
  <2>3. CASE Positive # {}
    <3> DEFINE k == CHOOSE k \in Positive : \A o \in Positive : k <= o
    <3>1. k \in Positive /\ \A o \in Positive : k <= o
      BY <2>3, NewestPositive
    <3>2. k \in 1..Window /\ EmptyFor = k - 1
      BY <2>3, <3>1 DEF EmptyFor, Positive
    <3> HIDE DEF k
    <3>3. k > IdleAfter
      BY <2>1, <3>2, ScalerConstants
    <3>4. ASSUME NEW i \in 1..IdleAfter
          PROVE  minutes[Lag + i] = 0
      <4>1. i \notin Positive
        BY <3>1, <3>2, <3>3, ScalerConstants
      <4> QED BY <1>1, <1>2, <4>1 DEF Positive, Sample
    <3> QED BY <3>4
  <2> QED BY <2>2, <2>3
<1> QED BY <1>3, <1>4

-----------------------------------------------------------------------------
(* Types.                                                                    *)

LEMMA InitTypeInv == Init => TypeInv
<1> SUFFICES ASSUME Init
             PROVE  TypeInv
  OBVIOUS
<1>1. MinInstances * PerInstance \in Nat
  BY ScalerConstants
<1>2. queue = 0 /\ busy = 0 /\ busy <= instances * PerInstance
  BY <1>1 DEF Init
<1>3. 0 \in Backlogs /\ IdleAfter \in 0..IdleAfter /\ minutes \in [Minutes -> Backlogs]
  BY ScalerConstants DEF Init, Backlogs
<1>4. scaler \in [step : {"idle", "compare", "settle", "apply"},
                 desired : Instances, current : Instances, age : 0..MaxDelay]
  BY ScalerConstants DEF Init, Resting, Instances
<1>5. waker \in [step : {"idle", "look", "wake"}, cooled : BOOLEAN]
  BY DEF Init
<1>6. /\ published = 0 /\ minute = 0 /\ instances = MinInstances /\ changed = IdleAfter
      /\ errors = 0 /\ asleep = 0
  BY DEF Init
<1>7. /\ queue \in Backlogs /\ busy \in Backlogs /\ published \in Backlogs /\ minute \in Backlogs
      /\ instances \in Instances /\ changed \in 0..IdleAfter /\ errors \in Nat /\ asleep \in Nat
      /\ busy <= queue /\ queue <= minute /\ queue <= published
  <2>1. queue = 0 /\ busy = 0
    BY DEF Init
  <2>2. MinInstances \in Instances
    BY Wanted
  <2> QED BY <2>1, <2>2, <1>3, <1>6
<1>8. reconciled \in BOOLEAN
  BY DEF Init
<1> QED BY <1>2, <1>3, <1>4, <1>5, <1>7, <1>8 DEF TypeInv, TypeOK

\* What the pool's workers hold never exceeds what they have room for.
LEMMA SetKeepsRoom ==
    ASSUME TypeOK, NEW n \in Instances, SetInstances(n)
    PROVE  /\ instances' \in Instances /\ changed' \in 0..IdleAfter
           /\ busy' \in Backlogs /\ busy' <= queue /\ busy' <= instances' * PerInstance
<1>1. /\ n \in Nat /\ instances \in Nat /\ PerInstance \in Nat /\ busy \in Nat /\ queue \in Nat
      /\ MaxMessages \in Nat /\ IdleAfter \in Nat
      /\ busy <= queue /\ busy <= MaxMessages /\ busy <= instances * PerInstance
  BY ScalerConstants DEF TypeOK, Instances, Backlogs
<1>2. instances' = n /\ changed' = 0
  BY DEF SetInstances
<1>3. CASE n < instances
  <2>1. PICK b \in 0 .. Least(busy, n * PerInstance) : busy' = b
    BY <1>3 DEF SetInstances
  <2>2. n * PerInstance \in Nat
    BY <1>1
  <2> QED BY <1>1, <1>2, <2>1, <2>2 DEF Least, Backlogs
<1>4. CASE ~(n < instances)
  <2>1. PICK e \in Nat : n = instances + e
    <3>1. n - instances \in Nat /\ n = instances + (n - instances)
      BY <1>1, <1>4
    <3> QED BY <3>1
  <2>2. n * PerInstance = instances * PerInstance + e * PerInstance
    BY <1>1, <2>1
  <2>3. e * PerInstance \in Nat /\ instances * PerInstance \in Nat
    BY <1>1
  <2>4. busy' = busy
    BY <1>4 DEF SetInstances
  <2> QED BY <1>1, <1>2, <2>2, <2>3, <2>4 DEF Backlogs
<1> QED BY <1>3, <1>4

\* The reconciliation is one of its steps, with what it has read.
Reconciliations == [step : {"idle", "compare", "settle", "apply"},
                    desired : Instances, current : Instances, age : 0..MaxDelay]

LEMMA ScalerTypes ==
    ASSUME TypeOK, NEW s \in {"compare", "settle", "apply"}, NEW d \in Instances, NEW c \in Instances
    PROVE  /\ Resting \in Reconciliations
           /\ [Resting EXCEPT !.step = "compare", !.desired = d] \in Reconciliations
           /\ [scaler EXCEPT !.current = c, !.step = s] \in Reconciliations
           /\ [scaler EXCEPT !.step = s] \in Reconciliations
<1>1. 0 \in Instances /\ 0 \in 0..MaxDelay
  BY ScalerConstants DEF Instances
<1>2. scaler \in Reconciliations
  BY DEF TypeOK, Reconciliations
<1> QED BY <1>1, <1>2 DEF Resting, Reconciliations

Wakings == [step : {"idle", "look", "wake"}, cooled : BOOLEAN]

LEMMA WakerTypes ==
    ASSUME TypeOK, NEW s \in {"idle", "look", "wake"}
    PROVE  [waker EXCEPT !.step = s] \in Wakings /\ [waker EXCEPT !.cooled = TRUE] \in Wakings
<1>1. waker \in Wakings
  BY DEF TypeOK, Wakings
<1> QED BY <1>1 DEF Wakings

\* The calls of scaler and waker that write nothing to the pool.
LEMMA QuietKeepsTypes ==
    ASSUME TypeInv, UNCHANGED <<queueVars, busy, instances, changed>>,
           scaler' \in Reconciliations, waker' \in Wakings, reconciled' \in BOOLEAN,
           NoError \/ CallFails
    PROVE  TypeInv'
<1>1. errors' \in Nat
  BY DEF NoError, CallFails, TypeInv, TypeOK
<1> QED BY <1>1 DEF TypeInv, TypeOK, queueVars, Reconciliations, Wakings

\* The calls that write to it.
LEMMA WriteKeepsTypes ==
    ASSUME TypeInv, UNCHANGED queueVars, NEW n \in Instances,
           \/ SetInstances(n) /\ NoError
           \/ UNCHANGED <<instances, changed, busy>> /\ CallFails,
           scaler' \in Reconciliations, waker' \in Wakings, UNCHANGED reconciled
    PROVE  TypeInv'
<1>1. CASE SetInstances(n) /\ NoError
  <2>1. /\ instances' \in Instances /\ changed' \in 0..IdleAfter
        /\ busy' \in Backlogs /\ busy' <= queue /\ busy' <= instances' * PerInstance
    BY <1>1, SetKeepsRoom DEF TypeInv
  <2> QED BY <1>1, <2>1 DEF TypeInv, TypeOK, queueVars, Reconciliations, Wakings, NoError
<1>2. CASE UNCHANGED <<instances, changed, busy>> /\ CallFails
  <2>1. reconciled \in BOOLEAN
    BY DEF TypeInv, TypeOK
  <2> QED BY <1>2, <2>1, QuietKeepsTypes
<1> QED BY <1>1, <1>2

LEMMA NextTypeInv == TypeInv /\ [Next]_vars => TypeInv'
<1> SUFFICES ASSUME TypeInv, [Next]_vars
             PROVE  TypeInv'
  OBVIOUS
<1>0. /\ TypeOK /\ scaler \in Reconciliations /\ waker \in Wakings /\ reconciled \in BOOLEAN
      /\ instances \in Instances /\ scaler.desired \in Instances /\ WakeFloor \in Instances
      /\ Resting \in Reconciliations
  <2>1. TypeOK /\ scaler \in Reconciliations /\ waker \in Wakings /\ reconciled \in BOOLEAN
        /\ instances \in Instances
    BY DEF TypeInv, TypeOK, Reconciliations, Wakings
  <2>2. scaler.desired \in Instances
    BY <2>1 DEF Reconciliations
  <2>3. WakeFloor \in Instances
    BY ScalerConstants DEF Instances, WakeFloor
  <2> QED BY <2>1, <2>2, <2>3, ScalerTypes
<1>1. CASE Observe
  <2>1. Desired \in Instances /\ Unknown \in Instances
    BY <1>0, DesiredIsQuiet, Wanted
  <2>2. scaler' \in Reconciliations
    BY <1>0, <1>1, <2>1, ScalerTypes DEF Observe
  <2> QED BY <1>0, <1>1, <2>2, QuietKeepsTypes DEF Observe, queueVars
<1>2. CASE Compare
  <2>1. scaler' \in Reconciliations
    BY <1>0, <1>2, ScalerTypes DEF Compare, Return
  <2> QED BY <1>0, <1>2, <2>1, QuietKeepsTypes DEF Compare, queueVars
<1>3. CASE Settle
  <2>1. scaler' \in Reconciliations
    BY <1>0, <1>3, ScalerTypes DEF Settle, Return
  <2> QED BY <1>0, <1>3, <2>1, QuietKeepsTypes DEF Settle, queueVars
<1>4. CASE Apply
  BY <1>0, <1>4, WriteKeepsTypes DEF Apply, Return
<1>5. CASE Publish
  <2>1. waker' \in Wakings
    BY <1>0, <1>5 DEF Publish, Wakings
  <2>2. /\ queue \in Nat /\ minute \in Nat /\ published \in Nat /\ busy \in Nat
        /\ busy <= queue /\ queue <= minute /\ queue <= published /\ published < MaxMessages
        /\ minute <= MaxMessages /\ MaxMessages \in Nat
    BY <1>5, ScalerConstants DEF Publish, TypeInv, TypeOK, Backlogs
  <2>3. queue' = queue + 1 /\ published' = published + 1 /\ minute' = Most(minute, queue + 1)
    BY <1>5 DEF Publish, Aligned
  <2>4. /\ queue' \in Backlogs /\ published' \in Backlogs /\ minute' \in Backlogs
        /\ busy <= queue' /\ queue' <= minute' /\ queue' <= published'
    BY <2>2, <2>3 DEF Backlogs, Most
  <2> QED BY <1>5, <2>1, <2>4 DEF Publish, TypeInv, TypeOK, Wakings
<1>6. CASE WakeLooks
  <2>1. waker' \in Wakings
    BY <1>0, <1>6, WakerTypes DEF WakeLooks
  <2> QED BY <1>0, <1>6, <2>1, QuietKeepsTypes DEF WakeLooks, queueVars
<1>7. CASE WakeSets
  <2>1. waker' \in Wakings
    <3>1. [step |-> "idle", cooled |-> TRUE] \in Wakings
      BY DEF Wakings
    <3> QED BY <1>0, <1>7, <3>1, WakerTypes DEF WakeSets
  <2>2. \/ SetInstances(WakeFloor) /\ NoError
        \/ UNCHANGED <<instances, changed, busy>> /\ CallFails
    BY <1>7 DEF WakeSets
  <2> QED BY <1>0, <1>7, <2>1, <2>2, WriteKeepsTypes DEF WakeSets
<1>8. CASE Take \/ Finish
  <2>1. instances * PerInstance \in Nat
    BY <1>0, ScalerConstants DEF Instances
  <2>2. PICK r \in Nat : r = instances * PerInstance
    BY <2>1
  <2>3. /\ queue \in Nat /\ minute \in Nat /\ busy \in Nat /\ published \in Nat /\ MaxMessages \in Nat
        /\ busy <= queue /\ queue <= minute /\ queue <= published /\ queue <= MaxMessages /\ busy <= r
    BY <2>2, ScalerConstants DEF TypeInv, TypeOK, Backlogs
  <2>4. \/ busy < r /\ busy < queue /\ busy' = busy + 1 /\ queue' = queue
        \/ busy > 0 /\ busy' = busy - 1 /\ queue' = queue - 1
    BY <1>8, <2>2 DEF Take, Finish, queueVars
  <2>5. /\ queue' \in Backlogs /\ busy' \in Backlogs
        /\ busy' <= queue' /\ queue' <= minute /\ queue' <= published /\ busy' <= r
    BY <2>3, <2>4 DEF Backlogs
  <2>6. UNCHANGED <<published, minute, minutes, instances, changed, scaler, reconciled, waker, errors, asleep>>
    BY <1>8 DEF Take, Finish, queueVars
  <2>7. busy' <= instances' * PerInstance
    BY <2>2, <2>5, <2>6
  <2> QED BY <2>5, <2>6, <2>7 DEF TypeInv, TypeOK
<1>10. CASE Tick
  <2>1. minutes' \in [Minutes -> Backlogs]
    <3>1. \A i \in Minutes : i # 1 => i - 1 \in Minutes
      BY ScalerConstants DEF Minutes
    <3>2. minute \in Backlogs /\ minutes \in [Minutes -> Backlogs]
      BY DEF TypeInv, TypeOK
    <3> QED BY <1>10, <3>1, <3>2 DEF Tick
  <2>2. changed' \in 0..IdleAfter
    <3>1. changed \in 0..IdleAfter /\ changed' = Least(changed + 1, IdleAfter)
      BY <1>10 DEF Tick, TypeInv, TypeOK
    <3> QED BY <3>1, ScalerConstants DEF Least
  <2>3. scaler' \in Reconciliations
    <3>1. scaler.step # "idle" => scaler.age + 1 \in 0..MaxDelay
      BY <1>0, <1>10, ScalerConstants DEF Tick, Reconciliations
    <3> QED BY <1>0, <1>10, <3>1 DEF Tick, Reconciliations
  <2>4. asleep' \in Nat
    <3>1. TooLong \in Nat
      BY ScalerConstants, PatienceGrows DEF TooLong
    <3>2. asleep \in Nat
      BY DEF TypeInv, TypeOK
    <3>3. asleep' = Least(asleep + 1, TooLong) \/ asleep' = 0
      BY <1>10 DEF Tick
    <3> QED BY <3>1, <3>2, <3>3 DEF Least
  <2>5. minute' = queue /\ UNCHANGED <<queue, busy, published, instances, errors>> /\ reconciled' = FALSE
    BY <1>10 DEF Tick
  <2>6. queue <= queue
    BY ScalerConstants DEF TypeInv, TypeOK, Backlogs
  <2>7. waker' \in Wakings
    BY <1>0, <1>10, WakerTypes DEF Tick
  <2> QED BY <2>1, <2>2, <2>3, <2>4, <2>5, <2>6, <2>7 DEF TypeInv, TypeOK, Reconciliations, Wakings
<1>11. CASE UNCHANGED vars
  BY <1>11 DEF vars, TypeInv, TypeOK
<1> QED BY <1>1, <1>2, <1>3, <1>4, <1>5, <1>6, <1>7, <1>8, <1>10, <1>11 DEF Next

(* Every policy keeps the count within its limits, and the workers hold no    *)
(* more messages than there are, nor than they have room for (scale.go,       *)
(* Desired and SetInstances).                                                 *)
THEOREM TypeCorrect == Spec => []TypeOK
<1>1. TypeInv => TypeOK
  BY DEF TypeInv
<1> QED BY InitTypeInv, NextTypeInv, <1>1, PTL DEF Spec

-----------------------------------------------------------------------------
(* What a step does to the reconciliation: it starts, goes on with the same   *)
(* wish and the same age, grows older by a minute, or ends.                   *)

Starts(d) == scaler' = [Resting EXCEPT !.step = "compare", !.desired = d]
Continues ==
  /\ Decided /\ Decided'
  /\ scaler'.desired = scaler.desired /\ scaler'.age = scaler.age

LEMMA Reconciling ==
    ASSUME TypeInv, [Next]_vars
    PROVE  \/ UNCHANGED <<scaler, reconciled>>
           \/ /\ ~Decided /\ ~reconciled /\ reconciled'
              /\ Starts(Desired) \/ Starts(Unknown)
              /\ UNCHANGED <<minutes, instances, asleep>>
           \/ (Compare \/ Settle) /\ (Continues \/ Return) /\ UNCHANGED <<minutes, instances, asleep, reconciled>>
           \/ Apply /\ Decided /\ Return /\ UNCHANGED <<minutes, asleep, reconciled>>
           \/ Tick
<1>1. scaler \in Reconciliations
  BY DEF TypeInv, TypeOK, Reconciliations
<1>2. CASE Observe
  BY <1>2 DEF Observe, Starts, Decided, queueVars
<1>3. CASE Compare \/ Settle
  <2>1. scaler.step # "idle" /\ UNCHANGED <<minutes, instances, asleep, reconciled>>
    BY <1>3 DEF Compare, Settle, queueVars
  <2>2. \/ Return
        \/ \E s \in {"settle", "apply"} :
              scaler' = [scaler EXCEPT !.current = instances, !.step = s] \/ scaler' = [scaler EXCEPT !.step = s]
    BY <1>3 DEF Compare, Settle, Return
  <2>3. Return \/ Continues
    BY <1>1, <2>1, <2>2 DEF Continues, Decided, Reconciliations
  <2> QED BY <1>3, <2>1, <2>3
<1>4. CASE Apply
  BY <1>4 DEF Apply, Decided, queueVars
<1>5. CASE Publish \/ WakeLooks \/ WakeSets \/ Take \/ Finish \/ UNCHANGED vars
  BY <1>5 DEF Publish, WakeLooks, WakeSets, Take, Finish, vars
<1> QED BY <1>2, <1>3, <1>4, <1>5 DEF Next

\* With a minute, what was read moves one further back.
LEMMA MinutesMove ==
    ASSUME TypeInv, Tick
    PROVE  /\ 1 \in Minutes => minutes'[1] = minute
           /\ \A i \in Minutes : i # 1 => minutes'[i] = minutes[i - 1]
           /\ Decided' <=> Decided
           /\ ~Decided => scaler' = scaler
           /\ Decided => /\ scaler.age + 1 \in 0..MaxDelay
                         /\ scaler' = [scaler EXCEPT !.age = scaler.age + 1]
                         /\ scaler'.age = scaler.age + 1
                         /\ scaler'.desired = scaler.desired /\ scaler'.step = scaler.step
<1>1. scaler \in Reconciliations
  BY DEF TypeInv, TypeOK, Reconciliations
<1>2. Decided => scaler' = [scaler EXCEPT !.age = scaler.age + 1]
  BY DEF Tick, Decided
<1>3. ~Decided => scaler' = scaler
  BY DEF Tick, Decided
<1>4. Decided => scaler.age + 1 \in 0..MaxDelay
  BY <1>1, ScalerConstants DEF Tick, Decided, Reconciliations
<1>5. \A i \in Minutes : minutes'[i] = IF i = 1 THEN minute ELSE minutes[i - 1]
  BY DEF Tick
<1> QED BY <1>1, <1>2, <1>3, <1>4, <1>5 DEF Decided, Reconciliations

-----------------------------------------------------------------------------
(* The worker goes away after a quiet time.                                   *)

LEMMA NextQuiet == TypeInv /\ Quiet /\ [Next]_vars => Quiet'
<1> SUFFICES ASSUME TypeInv, Quiet, [Next]_vars, Decided', scaler'.desired = 0,
                    NEW i \in 1..IdleAfter
             PROVE  minutes'[Lag + scaler'.age + i] = 0
  BY DEF Quiet
<1>0. i \in Nat /\ i > 0 /\ Lag \in Nat /\ Lag + 0 + i = Lag + i
  BY ScalerConstants
<1>1. CASE Tick
  <2>1. /\ Decided /\ scaler'.age = scaler.age + 1 /\ scaler.desired = 0
        /\ scaler.age + 1 \in 0..MaxDelay
    BY <1>1, MinutesMove
  <2>2. scaler.age \in 0..MaxDelay
    BY DEF TypeInv, TypeOK
  <2>3. minutes[Lag + scaler.age + i] = 0
    BY <2>1 DEF Quiet
  <2>4. PICK a \in 0..MaxDelay : a = scaler.age /\ a + 1 \in 0..MaxDelay
    BY <2>1, <2>2
  <2> DEFINE j == Lag + (a + 1) + i
  <2>5. j \in Minutes /\ j # 1 /\ j - 1 = Lag + a + i
    BY <1>0, <2>4, ScalerConstants DEF Minutes
  <2> HIDE DEF j
  <2>6. minutes'[j] = minutes[j - 1]
    BY <1>1, <2>5, MinutesMove
  <2>7. minutes[Lag + a + i] = 0 /\ scaler'.age = a + 1
    BY <2>1, <2>3, <2>4
  <2> QED BY <2>5, <2>6, <2>7 DEF j
<1>2. CASE UNCHANGED scaler /\ ~Tick
  <2>1. UNCHANGED minutes
    BY <1>2 DEF Next, vars, queueVars, Observe, Compare, Settle, Apply, Publish, WakeLooks, WakeSets, Take, Finish
  <2> QED BY <1>2, <2>1 DEF Quiet, Decided
<1>3. CASE Starts(Desired) /\ UNCHANGED minutes
  <2>1. scaler'.desired = Desired /\ scaler'.age = 0
    BY <1>3 DEF Starts, Resting
  <2> QED BY <1>0, <1>3, <2>1, DesiredIsQuiet DEF TypeInv
<1>4. CASE Starts(Unknown)
  <2>1. scaler'.desired = Unknown
    BY <1>4 DEF Starts, Resting
  <2> QED BY <2>1, Wanted
<1>5. CASE Continues /\ UNCHANGED minutes
  BY <1>5 DEF Quiet, Continues
<1>6. ~Return
  BY DEF Return, Resting, Decided
<1>7. \/ UNCHANGED scaler
      \/ (Starts(Desired) \/ Starts(Unknown)) /\ UNCHANGED minutes
      \/ (Continues \/ Return) /\ UNCHANGED minutes
      \/ Return
      \/ Tick
  BY Reconciling
<1>8. CASE (Starts(Desired) \/ Starts(Unknown)) /\ UNCHANGED minutes
  BY <1>3, <1>4, <1>8
<1>9. CASE (Continues \/ Return) /\ UNCHANGED minutes
  BY <1>5, <1>6, <1>9
<1> QED BY <1>1, <1>2, <1>6, <1>7, <1>8, <1>9

(* For every policy and delay: whoever takes the last worker away has read    *)
(* IdleAfter minutes of an empty queue (scale.go, Desired and Reconcile).     *)
THEOREM AwayOnlyAfterQuietTheorem == Spec => AwayOnlyAfterQuiet
<1>1. Init => Quiet
  BY DEF Init, Quiet, Decided, Resting
<1>2. ASSUME TypeInv, Quiet, [Next]_vars, instances > 0, instances' = 0
      PROVE  \E d \in 0..MaxDelay : \A i \in 1..IdleAfter : minutes[Lag + d + i] = 0
  <2>1. instances \in Nat
    <3>1. instances \in Instances
      BY <1>2 DEF TypeInv, TypeOK
    <3> QED BY <3>1 DEF Instances
  <2>2. ~(SetInstances(WakeFloor))
    BY <1>2 DEF SetInstances, WakeFloor
  <2>3. Apply /\ SetInstances(scaler.desired)
    BY <1>2, <2>1, <2>2 DEF Next, vars, Observe, Compare, Settle, Apply, Publish, WakeLooks, WakeSets, Take, Finish, Tick
  <2>4. Decided /\ scaler.desired = 0 /\ scaler.age \in 0..MaxDelay
    BY <1>2, <2>3 DEF SetInstances, Apply, Decided, TypeInv, TypeOK
  <2> QED BY <1>2, <2>4 DEF Quiet
<1>3. TypeInv /\ Quiet /\ [Next]_vars =>
        [instances > 0 /\ instances' = 0 =>
           \E d \in 0..MaxDelay : \A i \in 1..IdleAfter : minutes[Lag + d + i] = 0]_vars
  BY <1>2
<1> QED BY <1>1, <1>3, InitTypeInv, NextTypeInv, NextQuiet, PTL DEF Spec, AwayOnlyAfterQuiet

-----------------------------------------------------------------------------
(* No message waits too long.                                                 *)

LEMMA NextSleepShows == TypeInv /\ SleepShows /\ [Next]_vars => SleepShows'
<1> SUFFICES ASSUME TypeInv, SleepShows, [Next]_vars, NEW i \in 1 .. Lag + 1, i <= asleep'
             PROVE  minutes'[i] > 0
  BY DEF SleepShows
<1>0. i \in Nat /\ i > 0 /\ i \in Minutes /\ asleep \in Nat
  BY ScalerConstants DEF Minutes, TypeInv, TypeOK
<1>1. CASE Tick
  <2>1. queue > 0 /\ asleep' = Least(asleep + 1, TooLong)
    BY <1>0, <1>1 DEF Tick
  <2>2. i <= asleep + 1
    <3>1. TooLong \in Nat
      BY ScalerConstants, PatienceGrows DEF TooLong
    <3> QED BY <1>0, <2>1, <3>1 DEF Least
  <2>3. CASE i = 1
    <3>1. minutes'[i] = minute
      BY <1>0, <1>1, <2>3, MinutesMove
    <3>2. queue \in Nat /\ minute \in Nat /\ queue <= minute
      BY ScalerConstants DEF TypeInv, TypeOK, Backlogs
    <3> QED BY <2>1, <3>1, <3>2
  <2>4. CASE i # 1
    <3>1. minutes'[i] = minutes[i - 1]
      BY <1>0, <1>1, <2>4, MinutesMove
    <3>2. i - 1 \in 1 .. Lag + 1 /\ i - 1 <= asleep
      BY <1>0, <2>2, <2>4, ScalerConstants
    <3> QED BY <3>1, <3>2 DEF SleepShows
  <2> QED BY <2>3, <2>4
<1>2. CASE ~Tick
  <2>1. UNCHANGED <<minutes, asleep>>
    BY <1>2 DEF Next, vars, queueVars, Observe, Compare, Settle, Apply, Publish, WakeLooks, WakeSets, Take, Finish
  <2> QED BY <2>1 DEF SleepShows
<1> QED BY <1>1, <1>2

\* A minute passes: the wait is one longer, or over.
LEMMA SleepGrows ==
    ASSUME TypeInv, Tick
    PROVE  /\ asleep \in Nat /\ asleep' \in Nat
           /\ asleep' = 0 \/ (instances = 0 /\ asleep' <= asleep + 1)
<1>1. asleep \in Nat
  BY DEF TypeInv, TypeOK
<1>2. TooLong \in Nat
  BY ScalerConstants, PatienceGrows DEF TooLong
<1>3. asleep' = 0 \/ (instances = 0 /\ asleep' = Least(asleep + 1, TooLong))
  BY DEF Tick
<1> QED BY <1>1, <1>2, <1>3 DEF Least

LEMMA ReadingTypes ==
    ASSUME TypeInv
    PROVE  /\ asleep \in Nat /\ errors \in Nat /\ instances \in Nat
           /\ scaler.age \in Nat /\ scaler.age <= MaxDelay /\ scaler.desired \in Nat
           /\ Lag \in Nat /\ MaxDelay \in Nat
<1>1. scaler \in Reconciliations /\ instances \in Instances /\ asleep \in Nat /\ errors \in Nat
  BY DEF TypeInv, TypeOK, Reconciliations
<1>2. scaler.age \in 0..MaxDelay /\ scaler.desired \in Instances
  BY <1>1 DEF Reconciliations
<1> QED BY <1>1, <1>2, ScalerConstants DEF Instances

LEMMA NextStaleReading ==
    TypeInv /\ SleepShows /\ StaleReading /\ [Next]_vars => StaleReading'
<1> SUFFICES ASSUME TypeInv, SleepShows, StaleReading, [Next]_vars, Decided', scaler'.desired = 0
             PROVE  asleep' <= Lag + scaler'.age
  BY DEF StaleReading
<1>1. CASE Tick
  <2>1. Decided /\ scaler.desired = 0 /\ scaler'.age = scaler.age + 1
    BY <1>1, MinutesMove
  <2>2. asleep <= Lag + scaler.age
    BY <2>1 DEF StaleReading
  <2> QED BY <1>1, <2>1, <2>2, ReadingTypes, SleepGrows
<1>2. CASE UNCHANGED scaler /\ ~Tick
  <2>1. UNCHANGED asleep
    BY <1>2 DEF Next, vars, queueVars, Observe, Compare, Settle, Apply, Publish, WakeLooks, WakeSets, Take, Finish
  <2> QED BY <1>2, <2>1 DEF StaleReading, Decided
<1>3. CASE Starts(Desired) /\ UNCHANGED asleep
  <2>1. scaler'.desired = Desired /\ scaler'.age = 0
    BY <1>3 DEF Starts, Resting
  <2>2. minutes[Lag + 1] = 0
    <3>1. 1 \in 1..IdleAfter
      BY ScalerConstants
    <3> QED BY <2>1, <3>1, DesiredIsQuiet DEF TypeInv
  <2>3. ~(Lag + 1 <= asleep)
    <3>1. Lag + 1 \in 1 .. Lag + 1
      BY ScalerConstants
    <3> QED BY <2>2, <3>1 DEF SleepShows
  <2> QED BY <1>3, <2>1, <2>3, ReadingTypes
<1>4. CASE Starts(Unknown)
  <2>1. scaler'.desired = Unknown
    BY <1>4 DEF Starts, Resting
  <2> QED BY <2>1, Wanted
<1>5. CASE Continues /\ UNCHANGED asleep
  BY <1>5 DEF StaleReading, Continues
<1>6. ~Return
  BY DEF Return, Resting, Decided
<1>7. \/ UNCHANGED scaler
      \/ (Starts(Desired) \/ Starts(Unknown)) /\ UNCHANGED asleep
      \/ (Continues \/ Return) /\ UNCHANGED asleep
      \/ Return
      \/ Tick
  BY Reconciling
<1>8. CASE (Starts(Desired) \/ Starts(Unknown)) /\ UNCHANGED asleep
  BY <1>3, <1>4, <1>8
<1>9. CASE (Continues \/ Return) /\ UNCHANGED asleep
  BY <1>5, <1>6, <1>9
<1> QED BY <1>1, <1>2, <1>6, <1>7, <1>8, <1>9

\* The count falls to nothing only in the hands of a reconciliation that wants it.
LEMMA Falls ==
    ASSUME TypeInv, [Next]_vars, instances > 0, ~(instances' > 0)
    PROVE  Apply /\ scaler.desired = 0
<1>1. instances \in Nat /\ scaler.desired \in Nat
  BY ReadingTypes
<1>2. ~(SetInstances(WakeFloor))
  BY DEF SetInstances, WakeFloor
<1>3. Apply /\ SetInstances(scaler.desired)
  BY <1>1, <1>2 DEF Next, vars, Observe, Compare, Settle, Apply, Publish, WakeLooks, WakeSets, Take, Finish, Tick
<1> QED BY <1>1, <1>3 DEF SetInstances

LEMMA NextLowers == TypeInv /\ Lowers /\ [Next]_vars => Lowers'
<1> SUFFICES ASSUME TypeInv, Lowers, [Next]_vars, scaler'.step = "settle"
             PROVE  instances' > 0
  BY DEF Lowers
<1>0. instances \in Nat /\ scaler.desired \in Nat
  BY ReadingTypes
<1>1. CASE Apply
  BY <1>1 DEF Apply, Return, Resting
<1>2. CASE Compare
  <2>1. scaler \in Reconciliations
    BY DEF TypeInv, TypeOK, Reconciliations
  <2>2. scaler' # Resting /\ instances' = instances
    BY <1>2 DEF Compare, Resting
  <2>3. scaler' = [scaler EXCEPT !.current = instances,
                     !.step = IF scaler.desired < instances THEN "settle" ELSE "apply"]
    BY <1>2, <2>2 DEF Compare, Return
  <2>4. scaler'.step = IF scaler.desired < instances THEN "settle" ELSE "apply"
    BY <2>1, <2>3 DEF Reconciliations
  <2> QED BY <1>0, <2>2, <2>4
<1>3. CASE ~Apply /\ ~Compare
  <2>1. scaler.step = "settle"
    <3>1. CASE UNCHANGED scaler
      BY <3>1
    <3>2. CASE Observe
      BY <3>2 DEF Observe, Resting
    <3>3. CASE Settle
      BY <3>3 DEF Settle
    <3>4. CASE Tick
      <4>1. Decided' /\ Decided
        BY <3>4, MinutesMove DEF Decided
      <4> QED BY <3>4, <4>1, MinutesMove
    <3> QED BY <1>3, <3>1, <3>2, <3>3, <3>4
         DEF Next, vars, Publish, WakeLooks, WakeSets, Take, Finish
  <2> QED BY <1>3, <2>1, Falls DEF Lowers
<1> QED BY <1>1, <1>2, <1>3

LEMMA NextRestarts == TypeInv /\ Restarts /\ [Next]_vars => Restarts'
<1> SUFFICES ASSUME TypeInv, Restarts, [Next]_vars, Decided'
             PROVE  reconciled' <=> scaler'.age = 0
  BY DEF Restarts
<1>1. CASE Tick
  <2>1. Decided /\ scaler'.age = scaler.age + 1 /\ ~reconciled'
    BY <1>1, MinutesMove DEF Tick
  <2> QED BY <2>1, ReadingTypes
<1>2. CASE UNCHANGED <<scaler, reconciled>>
  BY <1>2 DEF Restarts, Decided
<1>3. CASE (Starts(Desired) \/ Starts(Unknown)) /\ reconciled'
  <2>1. scaler'.age = 0
    BY <1>3 DEF Starts, Resting
  <2> QED BY <1>3, <2>1
<1>4. CASE Continues /\ UNCHANGED reconciled
  BY <1>4 DEF Restarts, Continues
<1>5. ~Return
  BY DEF Return, Resting, Decided
<1> QED BY <1>1, <1>2, <1>3, <1>4, <1>5, Reconciling

\* Failed calls only add to the patience.
LEMMA PatienceKept ==
    ASSUME TypeInv, [Next]_vars
    PROVE  /\ Patience(errors) \in Nat /\ Patience(errors') \in Nat
           /\ Patience(errors') >= Patience(errors)
           /\ Patience(errors') >= 1 /\ Patience(errors') >= MaxDelay
           /\ errors' = errors + 1 => /\ Patience(errors') >= Patience(errors) + 1
                                      /\ Patience(errors') >= Patience(errors) + MaxDelay
<1>1. errors' = errors \/ errors' = errors + 1
  BY DEF Next, vars, Observe, Compare, Settle, Apply, Publish, WakeLooks, WakeSets, Take, Finish,
         Tick, NoError, CallFails
<1>2. errors \in Nat /\ errors + 1 \in Nat /\ MaxDelay \in Nat
  BY ReadingTypes
<1>3. PICK p \in Nat : p = Patience(errors) /\ p >= 1 /\ p >= MaxDelay
  BY <1>2, PatienceGrows
<1>4. PICK q \in Nat : /\ q = Patience(errors + 1) /\ q >= 1 /\ q >= MaxDelay
                       /\ q >= p + 1 /\ q >= p + MaxDelay
  BY <1>2, <1>3, PatienceGrows
<1>5. CASE errors' = errors
  <2>1. errors' # errors + 1
    BY <1>2, <1>5
  <2> QED BY <1>2, <1>3, <1>5, <2>1
<1>6. CASE errors' = errors + 1
  BY <1>2, <1>3, <1>4, <1>6
<1> QED BY <1>1, <1>5, <1>6

\* A reconciliation that ends with no worker there has failed, or has read
\* the metric too early: either way the next one starts in time.
LEMMA EndsInTime ==
    ASSUME TypeInv, SleepInv, [Next]_vars, Decided, Return, UNCHANGED <<asleep, reconciled>>,
           \/ scaler.desired = 0
           \/ instances = 0 /\ errors' = errors + 1
    PROVE  Due'
<1>1. /\ asleep \in Nat /\ Lag \in Nat /\ MaxDelay \in Nat
      /\ scaler.age \in Nat /\ scaler.age <= MaxDelay
  BY ReadingTypes
<1>2. reconciled <=> scaler.age = 0
  BY DEF SleepInv, Restarts
<1>3. \/ asleep <= Lag + scaler.age
      \/ asleep <= Lag + Patience(errors) + scaler.age /\ errors' = errors + 1
  BY DEF SleepInv, StaleReading, Due
<1>4. PICK p \in Nat, q \in Nat :
         /\ p = Patience(errors) /\ q = Patience(errors') /\ q >= p /\ q >= 1 /\ q >= MaxDelay
         /\ errors' = errors + 1 => q >= p + 1 /\ q >= p + MaxDelay
  BY PatienceKept
<1>5. ~Decided' /\ asleep' = asleep /\ reconciled' = reconciled
  BY DEF Return, Resting, Decided
<1>6. CASE reconciled
  <2>1. asleep + 1 <= Lag + q
    BY <1>1, <1>2, <1>3, <1>4, <1>6
  <2> QED BY <1>4, <1>5, <1>6, <2>1 DEF Due
<1>7. CASE ~reconciled
  <2>1. asleep <= Lag + q
    BY <1>1, <1>3, <1>4
  <2> QED BY <1>4, <1>5, <1>7, <2>1 DEF Due
<1> QED BY <1>6, <1>7

LEMMA NextDue == TypeInv /\ SleepInv /\ [Next]_vars => Due'
<1> SUFFICES ASSUME TypeInv, SleepInv, [Next]_vars, ~(instances' > 0)
             PROVE  Due'
  BY DEF Due
<1>1. /\ asleep \in Nat /\ Lag \in Nat /\ instances \in Nat /\ scaler.desired \in Nat
      /\ scaler.age \in Nat
  BY ReadingTypes
<1>2. PICK p \in Nat, q \in Nat : p = Patience(errors) /\ q = Patience(errors') /\ q >= p /\ q >= 1
  BY PatienceKept
<1>3. CASE Tick
  <2>1. /\ asleep' \in Nat /\ ~reconciled'
        /\ asleep' = 0 \/ (instances = 0 /\ asleep' <= asleep + 1)
    BY <1>3, SleepGrows DEF Tick
  <2>2. CASE Decided
    <3>1. Decided' /\ scaler'.age = scaler.age + 1
      BY <1>3, <2>2, MinutesMove
    <3>2. instances = 0 => asleep <= Lag + p + scaler.age
      BY <1>2, <2>2 DEF SleepInv, Due
    <3>3. asleep' <= Lag + q + (scaler.age + 1)
      BY <1>1, <1>2, <2>1, <3>2
    <3> QED BY <1>2, <3>1, <3>3 DEF Due
  <2>3. CASE ~Decided
    <3>1. ~Decided' /\ reconciled
      BY <1>3, <2>3, MinutesMove DEF Tick, Decided
    <3>2. instances = 0 => asleep + 1 <= Lag + p
      BY <1>2, <2>3, <3>1 DEF SleepInv, Due
    <3>3. asleep' <= Lag + q
      BY <1>1, <1>2, <2>1, <3>2
    <3> QED BY <1>2, <2>1, <3>1, <3>3 DEF Due
  <2> QED BY <2>2, <2>3
<1>4. CASE Apply
  <2>1. Decided /\ Return /\ UNCHANGED <<asleep, reconciled>>
    BY <1>4 DEF Apply, Decided, queueVars
  <2>2. \/ instances' = scaler.desired
        \/ instances' = instances /\ errors' = errors + 1
    BY <1>4 DEF Apply, SetInstances, CallFails
  <2> QED BY <1>1, <2>1, <2>2, EndsInTime
<1>5. CASE ~Apply /\ ~Tick
  <2>1. instances = 0
    BY <1>1, <1>5, Falls
  <2>2. UNCHANGED asleep
    BY <1>5 DEF Next, vars, queueVars, Observe, Compare, Settle, Publish, WakeLooks, WakeSets, Take, Finish
  <2>3. CASE UNCHANGED <<scaler, reconciled>>
    <3>1. /\ Decided => asleep <= Lag + p + scaler.age
          /\ ~Decided /\ reconciled => asleep + 1 <= Lag + p
          /\ ~Decided /\ ~reconciled => asleep <= Lag + p
      BY <1>2, <2>1 DEF SleepInv, Due
    <3>2. /\ Decided => asleep <= Lag + q + scaler.age
          /\ ~Decided /\ reconciled => asleep + 1 <= Lag + q
          /\ ~Decided /\ ~reconciled => asleep <= Lag + q
      BY <1>1, <1>2, <3>1
    <3> QED BY <1>2, <2>2, <2>3, <3>2 DEF Due, Decided
  <2>4. CASE ~Decided /\ ~reconciled /\ (Starts(Desired) \/ Starts(Unknown))
    <3>1. Decided' /\ scaler'.age = 0
      BY <2>4 DEF Starts, Resting, Decided
    <3>2. asleep <= Lag + p
      BY <1>2, <2>1, <2>4 DEF SleepInv, Due
    <3>3. asleep <= Lag + q + 0
      BY <1>1, <1>2, <3>2
    <3> QED BY <1>2, <2>2, <3>1, <3>3 DEF Due
  <2>5. CASE (Compare \/ Settle) /\ Continues
    <3>1. Decided /\ Decided' /\ scaler'.age = scaler.age
      BY <2>5 DEF Continues
    <3>2. asleep <= Lag + p + scaler.age
      BY <1>2, <2>1, <3>1 DEF SleepInv, Due
    <3>3. asleep <= Lag + q + scaler.age
      BY <1>1, <1>2, <3>2
    <3> QED BY <1>2, <2>2, <3>1, <3>3 DEF Due
  <2>6. CASE (Compare \/ Settle) /\ Return /\ UNCHANGED reconciled
    <3>1. ~Settle
      BY <2>1 DEF SleepInv, Lowers, Settle
    <3>2. Decided /\ Compare
      BY <2>6, <3>1 DEF Compare, Decided
    <3>3. scaler.desired = 0 \/ errors' = errors + 1
      <4>1. CASE instances = scaler.desired
        BY <2>1, <4>1
      <4>2. CASE instances # scaler.desired /\ NoError
        <5>1. scaler' = [scaler EXCEPT !.current = instances,
                           !.step = IF scaler.desired < instances THEN "settle" ELSE "apply"]
           \/ CallFails
          BY <3>2, <4>2 DEF Compare
        <5>2. scaler \in Reconciliations
          BY DEF TypeInv, TypeOK, Reconciliations
        <5>3. scaler'.step = "idle"
          BY <2>6 DEF Return, Resting
        <5> QED BY <5>1, <5>2, <5>3 DEF Reconciliations, CallFails
      <4>3. CASE CallFails
        BY <4>3 DEF CallFails
      <4> QED BY <3>2, <4>1, <4>2, <4>3 DEF Compare
    <3> QED BY <2>1, <2>2, <2>6, <3>2, <3>3, EndsInTime
  <2> QED BY <1>5, <2>3, <2>4, <2>5, <2>6, Reconciling
<1> QED BY <1>3, <1>4, <1>5

LEMMA NextSleepsNot == TypeInv /\ SleepInv /\ NobodySleepsIn /\ [Next]_vars => NobodySleepsIn'
<1> SUFFICES ASSUME TypeInv, SleepInv, NobodySleepsIn, [Next]_vars
             PROVE  asleep' <= Lag + MaxDelay + Patience(errors')
  BY DEF NobodySleepsIn
<1>1. /\ asleep \in Nat /\ Lag \in Nat /\ MaxDelay \in Nat /\ scaler.age \in Nat
  BY ReadingTypes
<1>2. PICK p \in Nat, q \in Nat : p = Patience(errors) /\ q = Patience(errors') /\ q >= p /\ q >= 1
  BY PatienceKept
<1>3. CASE ~Tick
  <2>1. UNCHANGED asleep
    BY <1>3 DEF Next, vars, queueVars, Observe, Compare, Settle, Apply, Publish, WakeLooks, WakeSets, Take, Finish
  <2> QED BY <1>1, <1>2, <2>1 DEF NobodySleepsIn
<1>4. CASE Tick
  <2>1. asleep' \in Nat /\ (asleep' = 0 \/ (instances = 0 /\ asleep' <= asleep + 1))
    BY <1>4, SleepGrows
  <2>2. CASE Decided
    <3>1. scaler.age + 1 <= MaxDelay
      BY <1>1, <1>4, <2>2, MinutesMove
    <3>2. instances = 0 => asleep <= Lag + p + scaler.age
      BY <1>2, <2>2 DEF SleepInv, Due
    <3> QED BY <1>1, <1>2, <2>1, <3>1, <3>2
  <2>3. CASE ~Decided
    <3>1. instances = 0 => asleep + 1 <= Lag + p
      BY <1>2, <1>4, <2>3 DEF SleepInv, Due, Tick, Decided
    <3> QED BY <1>1, <1>2, <2>1, <3>1
  <2> QED BY <2>2, <2>3
<1> QED BY <1>3, <1>4

(* For every policy, lag and delay: a message waits for a worker no longer    *)
(* than the metric's lag, two reconciliations, and one for every failed call, *)
(* however wake-ups and scale-downs cross (Waker.Wake, Scaler.Reconcile).     *)
THEOREM NobodySleepsInTheorem == Spec => []NobodySleepsIn
<1>1. Init => SleepInv /\ NobodySleepsIn
  <2> SUFFICES ASSUME Init
               PROVE  SleepInv /\ NobodySleepsIn
    OBVIOUS
  <2>1. asleep = 0 /\ ~Decided /\ scaler.step = "idle" /\ errors = 0
    BY DEF Init, Decided, Resting
  <2>2. PICK p \in Nat : p = Patience(errors)
    BY <2>1, PatienceGrows
  <2>3. ~reconciled
    BY DEF Init
  <2>4. 0 <= Lag + p /\ 0 <= Lag + MaxDelay + p
    BY ScalerConstants
  <2>5. SleepShows
    BY <2>1, ScalerConstants DEF SleepShows
  <2> QED BY <2>1, <2>2, <2>3, <2>4, <2>5 DEF SleepInv, StaleReading, Lowers, Restarts, Due, NobodySleepsIn
<1>2. TypeInv /\ SleepInv /\ [Next]_vars => SleepInv'
  BY NextSleepShows, NextStaleReading, NextLowers, NextRestarts, NextDue DEF SleepInv
<1> QED BY <1>1, <1>2, InitTypeInv, NextTypeInv, NextSleepsNot, PTL DEF Spec

=============================================================================
