---------------------------- MODULE LeaseProofs ----------------------------
(***************************************************************************)
(* Proofs about Lease: for every TTL, slack and stopping time that the     *)
(* timing assumption allows, and however often processes stand still.      *)
(***************************************************************************)
EXTENDS Lease, TLAPS

\* The keepalive's interval leaves room for a missed tick and for the job to
\* stop.  This is all the proofs use of it.
LEMMA IntervalFits ==
  Interval \in Nat /\ Interval + Slack + StopDelay <= TTL
  BY LeaseConstants, LeaseTiming DEF Interval

\* The initial state is well typed.
LEMMA InitTypeOK == Init => TypeOK
  BY LeaseConstants DEF Init, TypeOK, Leases

\* What cancelling a job's context does, if it does anything at all.
LEMMA CancelEffect ==
  ASSUME TypeOK, NEW l \in Leases, CancelContext(l)
  PROVE  /\ context' = [context EXCEPT ![l] = "cancelled"]
         /\ stopBy' \in [Leases -> Nat]
         /\ \A k \in Leases \ {l} : stopBy'[k] = stopBy[k]
         /\ stopBy'[l] = IF context[l] = "live" THEN now + StopDelay ELSE stopBy[l]
<1> USE LeaseConstants DEF TypeOK, CancelContext
<1>1. CASE context[l] = "live"
  <2>1. now + StopDelay \in Nat
    OBVIOUS
  <2> QED
    BY <1>1, <2>1
<1>2. CASE context[l] # "live"
  <2>1. context[l] = "cancelled" /\ UNCHANGED <<context, stopBy>>
    BY <1>2
  <2> QED
    BY <1>2, <2>1
<1> QED
  BY <1>1, <1>2

\* Every step keeps the types.
LEMMA NextTypeOK == TypeOK /\ [Next]_vars => TypeOK'
<1> SUFFICES ASSUME TypeOK, [Next]_vars PROVE TypeOK'
  OBVIOUS
<1> USE LeaseConstants, IntervalFits DEF TypeOK, Leases
<1>1. ASSUME NEW l \in Leases, Acquire(l) PROVE TypeOK'
  BY <1>1, SMTT(30) DEF Acquire
<1>2. ASSUME NEW l \in Leases, AcquireUnknown(l) PROVE TypeOK'
  BY <1>2, SMTT(30) DEF AcquireUnknown
<1>3. ASSUME NEW l \in Leases, Extend(l) PROVE TypeOK'
  <2>1. lock' \in [owner : 0..MaxLeases, expires : Nat]
    BY <1>3 DEF Extend, Extended
  <2>2. due' \in [Leases -> Nat]
    <3>1. due[l] + Interval \in Nat
      OBVIOUS
    <3> QED
      BY <1>3, <3>1 DEF Extend
  <2> QED
    BY <1>3, <2>1, <2>2 DEF Extend
<1>4. ASSUME NEW l \in Leases, ExtendFails(l) PROVE TypeOK'
  <2>1. lock' \in [owner : 0..MaxLeases, expires : Nat]
    BY <1>4 DEF ExtendFails, Extended
  <2>0. ticking' \in SUBSET Leases /\ due' \in [Leases -> Nat]
    BY <1>4 DEF ExtendFails, StopTicking
  <2>2. context' \in [Leases -> {"live", "cancelled"}] /\ stopBy' \in [Leases -> Nat]
    <3>1. CASE job[l] = "working"
      BY <1>4, <3>1, CancelEffect DEF ExtendFails
    <3>2. CASE job[l] # "working"
      BY <1>4, <3>2 DEF ExtendFails
    <3> QED
      BY <3>1, <3>2
  <2>3. \A k \in Leases : job[k] = "working" /\ context'[k] = "live" => k \in ticking'
    BY <1>4, CancelEffect DEF ExtendFails, StopTicking
  <2> QED
    BY <1>4, <2>0, <2>1, <2>2, <2>3 DEF ExtendFails
<1>5. ASSUME NEW l \in Leases, KeepaliveStops(l) PROVE TypeOK'
  <2>1. ticking' \in SUBSET Leases /\ due' \in [Leases -> Nat]
    BY <1>5 DEF KeepaliveStops, StopTicking
  <2>2. \A k \in Leases : job[k] = "working" /\ context[k] = "live" => k \in ticking'
    BY <1>5 DEF KeepaliveStops, StopTicking
  <2> QED
    BY <1>5, <2>1, <2>2 DEF KeepaliveStops
<1>6. ASSUME NEW l \in Leases, Release(l) PROVE TypeOK'
  BY <1>6, SMTT(30) DEF Release, NoLock
<1>7. ASSUME NEW l \in Leases, Cancel(l) PROVE TypeOK'
  BY <1>7, CancelEffect DEF Cancel
<1>8. ASSUME NEW l \in Leases, JobReturns(l) PROVE TypeOK'
  <2>1. /\ job' \in [Leases -> {"none", "working", "returned", "ended", "dead"}]
        /\ \A k \in Leases : job'[k] = "working" => k # l /\ job[k] = "working"
    BY <1>8 DEF JobReturns
  <2>2. /\ context' \in [Leases -> {"live", "cancelled"}]
        /\ stopBy' \in [Leases -> Nat] /\ woken' \in [Leases -> Nat]
        /\ \A k \in Leases \ {l} : context'[k] = context[k]
    BY <1>8 DEF JobReturns, Forget
  <2> QED
    BY <1>8, <2>1, <2>2 DEF JobReturns
<1>9. ASSUME NEW l \in Leases, Crash(l) PROVE TypeOK'
  <2>1. /\ job' \in [Leases -> {"none", "working", "returned", "ended", "dead"}]
        /\ \A k \in Leases : job'[k] = "working" => k # l /\ job[k] = "working"
    BY <1>9 DEF Crash
  <2>2. /\ context' \in [Leases -> {"live", "cancelled"}]
        /\ stopBy' \in [Leases -> Nat] /\ woken' \in [Leases -> Nat]
        /\ \A k \in Leases \ {l} : context'[k] = context[k]
    BY <1>9 DEF Crash, Forget
  <2>3. /\ ticking' = ticking \ {l} /\ due' \in [Leases -> Nat]
    BY <1>9 DEF Crash, StopTicking
  <2> QED
    BY <1>9, <2>1, <2>2, <2>3 DEF Crash
<1>10. ASSUME NEW l \in Leases, Pause(l) PROVE TypeOK'
  BY <1>10 DEF Pause
<1>11. ASSUME NEW l \in Leases, Wake(l) PROVE TypeOK'
  <2>1. /\ woken' \in [Leases -> Nat] /\ due' \in [Leases -> Nat]
        /\ stopBy' \in [Leases -> Nat]
    <3>1. now + 1 \in Nat /\ now + StopDelay \in Nat
      OBVIOUS
    <3> QED
      BY <1>11, <3>1 DEF Wake
  <2> QED
    BY <1>11, <2>1 DEF Wake
<1>12. CASE Tick
  BY <1>12, SMTT(30) DEF Tick
<1>13. CASE UNCHANGED vars
  BY <1>13 DEF vars
<1> QED
  BY <1>1, <1>2, <1>3, <1>4, <1>5, <1>6, <1>7, <1>8, <1>9, <1>10, <1>11, <1>12, <1>13
  DEF Next, LeaseStep

\* The type invariant holds in every reachable state of the lease.
THEOREM LeaseTypeCorrect == Spec => []TypeOK
  BY InitTypeOK, NextTypeOK, PTL DEF Spec

-----------------------------------------------------------------------------
(* The lease covers the job.                                               *)

\* The lock is this lease's own until its keepalive has extended it or, once
\* cancelled, its job has returned.
Covered(l) ==
  /\ lock.owner = l
  /\ IF context[l] = "live" THEN due[l] + TTL <= lock.expires + Interval
                            ELSE stopBy[l] <= lock.expires

\* The lease may be gone because the process stood still, and the job is about
\* to learn of it.
Overslept(l) ==
  IF l \in paused
  THEN context[l] = "live" => due[l] <= now
  ELSE /\ woken[l] > 0
       /\ IF context[l] = "live" THEN due[l] < woken[l]
                                 ELSE stopBy[l] < woken[l] + Slack + StopDelay

\* The inductive invariant.  Neither property is inductive alone: that the
\* lock is still held now follows from when the last extension was and from
\* the clock not passing the moment the next one is owed.
JobInv(l) ==
  /\ l <= nextID
  /\ l \notin paused => IF context[l] = "live" THEN now <= due[l] + Slack
                                               ELSE now <= stopBy[l]
  /\ context[l] # "live" => stopBy[l] <= now + StopDelay
  /\ woken[l] <= now + 1
  /\ Covered(l) \/ Overslept(l)

LeaseInv ==
  /\ TypeOK
  /\ \A l \in Leases : l > nextID => job[l] = "none" /\ context[l] = "live" /\ woken[l] = 0
  /\ paused \subseteq Working
  /\ \A l \in Working : JobInv(l)

\* A step that leaves a job and its lock alone keeps what holds of it.
LEMMA Untouched ==
  ASSUME LeaseInv, NEW l \in Working, nextID' >= nextID, nextID' \in Nat,
         UNCHANGED <<now, lock>>,
         context'[l] = context[l], stopBy'[l] = stopBy[l], due'[l] = due[l],
         woken'[l] = woken[l], l \in paused' <=> l \in paused
  PROVE  JobInv(l)'
  BY DEF LeaseInv, JobInv, Covered, Overslept, TypeOK, Working, Leases

\* A job that is cancelled now is stopped before its lease runs out, or soon
\* enough after it woke.
LEMMA Cancelled ==
  ASSUME LeaseInv, NEW l \in Working, l \notin paused, CancelContext(l),
         lock' = lock \/ (context[l] = "live" /\ lock' = Extended(l)),
         UNCHANGED <<now, nextID, paused, woken>>
  PROVE  JobInv(l)'
<1>0. /\ now \in Nat /\ due[l] \in Nat /\ woken[l] \in Nat /\ lock.expires \in Nat
      /\ Slack \in Nat /\ StopDelay \in Nat /\ TTL \in Nat /\ Interval \in Nat
      /\ Interval + Slack + StopDelay <= TTL
  BY LeaseConstants, IntervalFits DEF LeaseInv, TypeOK, Working
<1>1. l \in Leases /\ JobInv(l) /\ TypeOK
  BY DEF LeaseInv, Working
<1>2. context'[l] = "cancelled"
  BY <1>1, CancelEffect DEF TypeOK
<1>3. CASE context[l] = "live"
  <2>1. stopBy'[l] = now + StopDelay /\ now <= due[l] + Slack
    BY <1>1, <1>3, CancelEffect DEF JobInv
  <2>2. now <= stopBy'[l] /\ stopBy'[l] <= now + StopDelay
    BY <1>0, <2>1
  <2>3. ASSUME Covered(l) PROVE Covered(l)'
    <3>1. lock'.owner = l /\ (lock' = lock \/ lock'.expires = now + TTL)
      BY <2>3 DEF Covered, Extended
    <3>2. due[l] + TTL <= lock.expires + Interval
      BY <1>3, <2>3 DEF Covered
    <3>3. stopBy'[l] <= lock'.expires
      BY <1>0, <2>1, <3>1, <3>2
    <3> QED
      BY <1>2, <3>1, <3>3 DEF Covered
  <2>4. ASSUME Overslept(l) PROVE Overslept(l)'
    <3>1. woken[l] > 0 /\ due[l] < woken[l]
      BY <1>3, <2>4 DEF Overslept
    <3>2. stopBy'[l] < woken[l] + Slack + StopDelay
      BY <1>0, <2>1, <3>1
    <3> QED
      BY <1>2, <3>1, <3>2 DEF Overslept
  <2> QED
    BY <1>1, <1>2, <2>2, <2>3, <2>4 DEF JobInv
<1>4. CASE context[l] # "live"
  <2>1. UNCHANGED lock /\ stopBy'[l] = stopBy[l]
    BY <1>1, <1>4, CancelEffect
  <2> QED
    BY <1>1, <1>2, <1>4, <2>1 DEF JobInv, Covered, Overslept
<1> QED
  BY <1>3, <1>4

\* While the lock is held by somebody else, or by nobody, the clock is past
\* what the lease covered.
LEMMA LostOversleeps ==
  ASSUME LeaseInv, ~Held, NEW l \in Working
  PROVE  Overslept(l)
<1> USE LeaseConstants, IntervalFits DEF LeaseInv, TypeOK, Working, Leases
<1>1. l \in Leases /\ l > 0 /\ JobInv(l)
  OBVIOUS
<1>2. SUFFICES ASSUME Covered(l) PROVE Overslept(l)
  BY <1>1 DEF JobInv
<1>3. lock.expires < now
  BY <1>1, <1>2 DEF Covered, Held
<1>4. l \in paused
  BY <1>1, <1>2, <1>3 DEF JobInv, Covered
<1>5. context[l] = "live" => due[l] <= now
  BY <1>1, <1>2, <1>3 DEF Covered
<1> QED
  BY <1>4, <1>5 DEF Overslept

\* Every step keeps the invariant.
LEMMA LeaseStepInv == LeaseInv /\ [Next]_vars => LeaseInv'
<1> SUFFICES ASSUME LeaseInv, [Next]_vars PROVE LeaseInv'
  OBVIOUS
<1> USE LeaseConstants, IntervalFits DEF LeaseInv
<1>0. TypeOK' /\ TypeOK
  BY NextTypeOK
<1> DEFINE Fresh == \A k \in Leases : k > nextID =>
                    job[k] = "none" /\ context[k] = "live" /\ woken[k] = 0
           Rest == Fresh' /\ (paused \subseteq Working)' /\ \A k \in Working' : JobInv(k)'
<1>1. ASSUME NEW l \in Leases, Acquire(l) PROVE Rest
  <2>0. l > nextID /\ nextID' = l /\ job' = [job EXCEPT ![l] = "working"]
    BY <1>0, <1>1 DEF Acquire, TypeOK, Leases
  <2>1. Fresh' /\ (paused \subseteq Working)' /\ Working' = Working \cup {l}
    <3>1. Fresh'
      BY <1>0, <1>1, <2>0 DEF Acquire, TypeOK, Leases
    <3>2. Working' = Working \cup {l}
      BY <1>0, <2>0 DEF TypeOK, Working
    <3> QED
      BY <1>1, <3>1, <3>2 DEF Acquire
  <2>2. l \notin paused
    BY <1>0, <1>1 DEF Acquire, TypeOK, Working, Leases
  <2>3. JobInv(l)'
    <3>1. context'[l] = "live" /\ due'[l] = now + Interval
      BY <1>0, <1>1 DEF Acquire, TypeOK, Leases
    <3> QED
      BY <1>0, <1>1, <3>1, <2>2 DEF Acquire, JobInv, Covered, TypeOK, Leases
  <2>4. ASSUME NEW k \in Working, k # l PROVE JobInv(k)'
    <3>1. Overslept(k) /\ JobInv(k)
      BY <1>1, LostOversleeps DEF Acquire
    <3>2. due'[k] = due[k] /\ k \in Leases
      BY <1>0, <1>1, <2>4 DEF Acquire, TypeOK, Working
    <3> QED
      BY <1>0, <1>1, <3>1, <3>2, SMTT(30) DEF Acquire, JobInv, Overslept, TypeOK, Leases
  <2> QED
    BY <2>1, <2>3, <2>4
<1>2. ASSUME NEW l \in Leases, AcquireUnknown(l) PROVE Rest
  <2>1. Fresh' /\ (paused \subseteq Working)' /\ Working' = Working
    BY <1>0, <1>2 DEF AcquireUnknown, TypeOK, Working, Leases
  <2>2. ASSUME NEW k \in Working PROVE JobInv(k)'
    <3>1. Overslept(k) /\ JobInv(k) /\ k \in Leases
      BY <1>2, LostOversleeps DEF AcquireUnknown, Working
    <3> QED
      BY <1>0, <1>2, <3>1 DEF AcquireUnknown, JobInv, Overslept, TypeOK, Leases
  <2> QED
    BY <2>1, <2>2
<1>3. ASSUME NEW l \in Leases, Extend(l) PROVE Rest
  <2>1. Fresh' /\ (paused \subseteq Working)' /\ Working' = Working
    BY <1>3 DEF Extend, Working
  <2>2. ASSUME NEW k \in Working, k # l PROVE JobInv(k)'
    <3>1. k \in Leases /\ JobInv(k) /\ due'[k] = due[k]
      BY <1>0, <1>3, <2>2 DEF Extend, TypeOK, Working
    <3>2. lock.owner # k
      BY <1>3, <2>2 DEF Extend, MayExtend, Owns
    <3> QED
      BY <1>0, <1>3, <3>1, <3>2 DEF Extend, JobInv, Covered, Overslept, TypeOK, Leases
  <2>3. ASSUME l \in Working PROVE JobInv(l)'
    <3>1. JobInv(l) /\ due'[l] = due[l] + Interval /\ due[l] <= now
      BY <1>0, <1>3, <2>3 DEF Extend, TypeOK, Working
    <3>2. CASE context[l] = "live"
      <4>1. Covered(l)'
        BY <1>0, <1>3, <3>1, <3>2, SMTT(30) DEF Extend, Extended, Covered, TypeOK, Leases
      <4>2. now <= due[l] + Slack => now <= due'[l] + Slack
        BY <1>0, <3>1 DEF TypeOK
      <4> QED
        BY <1>0, <1>3, <3>1, <3>2, <4>1, <4>2 DEF Extend, JobInv
    <3>3. CASE context[l] # "live"
      <4>1. l \notin paused /\ now <= stopBy[l] /\ stopBy[l] <= now + StopDelay
        BY <1>3, <3>1, <3>3 DEF Extend, JobInv
      <4>2. Covered(l) => Covered(l)'
        BY <1>0, <1>3, <3>3, <4>1 DEF Extend, Extended, Covered, TypeOK, Leases
      <4>3. Overslept(l) => Overslept(l)'
        BY <1>3, <3>3, <4>1 DEF Extend, Overslept
      <4> QED
        BY <1>3, <3>1, <3>3, <4>1, <4>2, <4>3 DEF Extend, JobInv
    <3> QED
      BY <3>2, <3>3
  <2> QED
    BY <2>1, <2>2, <2>3
<1>4. ASSUME NEW l \in Leases, ExtendFails(l) PROVE Rest
  <2>1. Fresh' /\ (paused \subseteq Working)' /\ Working' = Working
    <3>1. \A k \in Leases : job[k] # "working" => context'[k] = context[k]
      BY <1>0, <1>4, CancelEffect DEF ExtendFails, TypeOK
    <3> QED
      BY <1>4, <3>1 DEF ExtendFails, Working
  <2>2. ASSUME NEW k \in Working, k # l PROVE JobInv(k)'
    <3>1. k \in Leases /\ JobInv(k) /\ due'[k] = due[k]
      BY <1>0, <1>4, <2>2 DEF ExtendFails, StopTicking, TypeOK, Working
    <3>2. context'[k] = context[k] /\ stopBy'[k] = stopBy[k]
      BY <1>0, <1>4, <2>2, <3>1, CancelEffect DEF ExtendFails, TypeOK
    <3>3. UNCHANGED lock \/ lock.owner # k
      BY <1>4, <2>2 DEF ExtendFails, MayExtend, Owns
    <3> QED
      BY <1>0, <1>4, <3>1, <3>2, <3>3 DEF ExtendFails, JobInv, Covered, Overslept, TypeOK, Leases
  <2>3. ASSUME l \in Working PROVE JobInv(l)'
    <3>1. JobInv(l) /\ CancelContext(l) /\ l \notin paused
      BY <1>4, <2>3 DEF ExtendFails, Working
    <3>2. CASE context[l] = "live"
      BY <1>4, <2>3, <3>1, <3>2, Cancelled DEF ExtendFails
    <3>3. CASE context[l] # "live" /\ UNCHANGED lock
      BY <1>4, <2>3, <3>1, <3>3, Cancelled DEF ExtendFails
    <3>4. CASE context[l] # "live" /\ lock' = Extended(l)
      <4>1. context'[l] # "live" /\ stopBy'[l] = stopBy[l]
        BY <1>0, <3>1, <3>4, CancelEffect DEF TypeOK
      <4>2. now <= stopBy[l] /\ stopBy[l] <= now + StopDelay
        BY <3>1, <3>4 DEF JobInv
      <4>3. stopBy[l] <= now + TTL
        BY <1>0, <4>2 DEF TypeOK
      <4>4. Covered(l)'
        BY <3>4, <4>1, <4>3 DEF Covered, Extended
      <4> QED
        BY <1>4, <3>1, <4>1, <4>2, <4>4 DEF ExtendFails, JobInv
    <3> QED
      BY <1>4, <3>2, <3>3, <3>4 DEF ExtendFails
  <2> QED
    BY <2>1, <2>2, <2>3
<1>5. ASSUME NEW l \in Leases, KeepaliveStops(l) PROVE Rest
  <2>1. Fresh' /\ (paused \subseteq Working)' /\ Working' = Working
    BY <1>5 DEF KeepaliveStops, Working
  <2>2. ASSUME NEW k \in Working PROVE JobInv(k)'
    <3>1. k \in Leases /\ JobInv(k) /\ (due'[k] = due[k] \/ context[k] # "live")
      BY <1>0, <1>5, <2>2 DEF KeepaliveStops, StopTicking, TypeOK, Working
    <3> QED
      BY <1>0, <1>5, <3>1 DEF KeepaliveStops, JobInv, Covered, Overslept, TypeOK
  <2> QED
    BY <2>1, <2>2
<1>6. ASSUME NEW l \in Leases, Release(l) PROVE Rest
  <2>1. Working' = Working /\ l \notin Working
    BY <1>0, <1>6 DEF Release, Working, TypeOK
  <2>2. Fresh' /\ (paused \subseteq Working)'
    BY <1>0, <1>6, <2>1 DEF Release, TypeOK
  <2>3. ASSUME NEW k \in Working PROVE JobInv(k)'
    <3>1. k \in Leases /\ k # l /\ JobInv(k) /\ (UNCHANGED lock \/ lock.owner # k)
      BY <1>6, <2>1, <2>3 DEF Release, Working
    <3> QED
      BY <1>0, <1>6, <3>1 DEF Release, JobInv, Covered, Overslept, TypeOK
  <2> QED
    BY <2>1, <2>2, <2>3
<1>7. ASSUME NEW l \in Leases, Cancel(l) PROVE Rest
  <2>1. Fresh' /\ (paused \subseteq Working)' /\ Working' = Working /\ l \in Working
    BY <1>0, <1>7, CancelEffect DEF Cancel, Working, TypeOK
  <2>2. JobInv(l)'
    BY <1>7, <2>1, Cancelled DEF Cancel
  <2>3. ASSUME NEW k \in Working, k # l PROVE JobInv(k)'
    <3>1. context'[k] = context[k] /\ stopBy'[k] = stopBy[k]
      BY <1>0, <1>7, <2>3, CancelEffect DEF Cancel, TypeOK, Working
    <3> QED
      BY <1>0, <1>7, <3>1, Untouched DEF Cancel, TypeOK
  <2> QED
    BY <2>1, <2>2, <2>3
<1>8. ASSUME NEW l \in Leases, JobReturns(l) \/ Crash(l) PROVE Rest
  <2>1. /\ Working' = Working \ {l}
        /\ Fresh' /\ (paused \subseteq Working)'
    <3>1. Working' = Working \ {l}
      BY <1>0, <1>8 DEF JobReturns, Crash, Working, TypeOK
    <3>2. (paused \subseteq Working)'
      BY <1>8, <3>1 DEF JobReturns, Crash
    <3>3. \A k \in Leases : k > nextID => k # l
      BY <1>8 DEF JobReturns, Crash
    <3>4. Fresh'
      BY <1>0, <1>8, <3>3 DEF JobReturns, Crash, Forget, TypeOK
    <3> QED
      BY <3>1, <3>2, <3>4
  <2>2. ASSUME NEW k \in Working, k # l PROVE JobInv(k)'
    <3>1. /\ context'[k] = context[k] /\ stopBy'[k] = stopBy[k] /\ due'[k] = due[k]
          /\ woken'[k] = woken[k] /\ (k \in paused' <=> k \in paused)
      BY <1>0, <1>8, <2>2 DEF JobReturns, Crash, Forget, StopTicking, TypeOK, Working
    <3> QED
      BY <1>0, <1>8, <3>1, Untouched DEF JobReturns, Crash, TypeOK
  <2> QED
    BY <2>1, <2>2
<1>9. ASSUME NEW l \in Leases, Pause(l) PROVE Rest
  <2>1. Fresh' /\ (paused \subseteq Working)' /\ Working' = Working /\ l \in Working
    BY <1>9 DEF Pause, Working
  <2>2. JobInv(l)'
    <3>1. JobInv(l) /\ l \in Leases /\ l \notin paused
      BY <1>9, <2>1 DEF Pause
    <3>2. ASSUME ~Covered(l), context[l] = "live" PROVE due[l] <= now
      <4>1. due[l] < woken[l] /\ woken[l] <= now + 1
        BY <3>1, <3>2 DEF JobInv, Overslept
      <4> QED
        BY <1>0, <3>1, <4>1 DEF TypeOK
    <3> QED
      BY <1>9, <3>1, <3>2 DEF Pause, JobInv, Covered, Overslept
  <2>3. ASSUME NEW k \in Working, k # l PROVE JobInv(k)'
    BY <1>0, <1>9, <2>3, Untouched DEF Pause, TypeOK
  <2> QED
    BY <2>1, <2>2, <2>3
<1>10. ASSUME NEW l \in Leases, Wake(l) PROVE Rest
  <2>1. Fresh' /\ (paused \subseteq Working)' /\ Working' = Working /\ l \in Working
    BY <1>0, <1>10 DEF Wake, Working, TypeOK
  <2>2. JobInv(l)'
    <3>1. /\ JobInv(l) /\ l \in Leases /\ l \in paused /\ l \notin paused'
          /\ woken'[l] = now + 1 /\ UNCHANGED <<now, lock, context, nextID>>
      BY <1>0, <1>10, <2>1 DEF Wake, TypeOK
    <3>2. CASE context[l] = "live"
      <4>1. due'[l] = IF due[l] < now THEN now ELSE due[l]
        BY <1>0, <1>10, <3>2 DEF Wake, Working, TypeOK, LeaseInv
      <4>2. now <= due'[l] + Slack
        BY <1>0, <4>1 DEF TypeOK
      <4>3. due[l] <= now => due'[l] < woken'[l]
        BY <1>0, <3>1, <4>1 DEF TypeOK
      <4>4. due[l] > now => due'[l] = due[l]
        BY <1>0, <4>1 DEF TypeOK
      <4>5. CASE due[l] <= now
        BY <1>0, <3>1, <3>2, <4>2, <4>3, <4>5 DEF JobInv, Overslept, TypeOK
      <4>6. CASE due[l] > now
        BY <1>0, <3>1, <3>2, <4>2, <4>4, <4>6 DEF JobInv, Covered, Overslept, TypeOK
      <4> QED
        BY <1>0, <4>5, <4>6 DEF TypeOK
    <3>3. CASE context[l] # "live"
      <4>1. stopBy'[l] = now + StopDelay
        BY <1>0, <1>10, <3>3 DEF Wake, TypeOK
      <4>2. Overslept(l)'
        BY <1>0, <3>1, <3>3, <4>1 DEF Overslept, TypeOK
      <4> QED
        BY <1>0, <3>1, <3>3, <4>1, <4>2 DEF JobInv, TypeOK
    <3> QED
      BY <3>2, <3>3
  <2>3. ASSUME NEW k \in Working, k # l PROVE JobInv(k)'
    <3>1. /\ stopBy'[k] = stopBy[k] /\ due'[k] = due[k] /\ woken'[k] = woken[k]
          /\ (k \in paused' <=> k \in paused)
      BY <1>0, <1>10, <2>3 DEF Wake, TypeOK, Working
    <3> QED
      BY <1>0, <1>10, <3>1, Untouched DEF Wake, TypeOK
  <2> QED
    BY <2>1, <2>2, <2>3
<1>11. ASSUME Tick PROVE Rest
  <2>1. Fresh' /\ (paused \subseteq Working)' /\ Working' = Working
    BY <1>11 DEF Tick, Working
  <2>2. ASSUME NEW k \in Working PROVE JobInv(k)'
    <3>1. k \in Leases /\ JobInv(k) /\ MayWait(k) /\ now' = now + 1
      BY <1>11, <2>2 DEF Tick, Working
    <3>2. k \notin paused => IF context[k] = "live" THEN now + 1 <= due[k] + Slack
                                                   ELSE now + 1 <= stopBy[k]
      BY <1>0, <2>2, <3>1 DEF MayWait, TypeOK, Working
    <3> QED
      BY <1>0, <1>11, <3>1, <3>2 DEF Tick, JobInv, Covered, Overslept, TypeOK
  <2> QED
    BY <2>1, <2>2
<1>12. ASSUME UNCHANGED vars PROVE Rest
  <2>1. \A k \in Working : JobInv(k)'
    BY <1>0, <1>12, Untouched DEF vars, TypeOK
  <2> QED
    BY <1>12, <2>1 DEF vars, Working
<1>13. Rest
  BY <1>1, <1>2, <1>3, <1>4, <1>5, <1>6, <1>7, <1>8, <1>9, <1>10, <1>11, <1>12
  DEF Next, LeaseStep
<1> QED
  BY <1>0, <1>13

LEMMA LeaseInvariant == Spec => []LeaseInv
<1>1. Init => LeaseInv
  BY InitTypeOK, LeaseConstants DEF Init, LeaseInv, Working, Leases
<1> QED
  BY <1>1, LeaseStepInv, PTL DEF Spec

\* For every TTL, slack and stopping time that fit, no two jobs of one pull
\* request run at once, unless a process stood still.
THEOREM LeasesExclude == Spec => []OneJobAtATime
<1>1. LeaseInv => OneJobAtATime
  <2> SUFFICES ASSUME LeaseInv, NEW k \in Working \ paused, NEW l \in Working \ paused,
                      woken[k] = 0, woken[l] = 0
               PROVE  k = l
    BY DEF OneJobAtATime, LeaseInv, TypeOK, Working
  <2>1. Covered(k) /\ Covered(l)
    BY DEF LeaseInv, JobInv, Overslept
  <2> QED
    BY <2>1 DEF Covered
<1> QED
  BY <1>1, LeaseInvariant, PTL

\* A job that overslept its lease is stopped within Slack + StopDelay of its
\* waking, for every TTL, slack and stopping time that fit.
THEOREM LostLeasesStop == Spec => []LostLeaseStops
<1>1. LeaseInv => LostLeaseStops
  <2> SUFFICES ASSUME LeaseInv, NEW l \in Working \ paused, ~Owns(l)
               PROVE  woken[l] > 0 /\ now <= (woken[l] - 1) + Slack + StopDelay
    BY DEF LostLeaseStops
  <2>1. /\ now \in Nat /\ due[l] \in Nat /\ woken[l] \in Nat /\ lock.expires \in Nat
        /\ stopBy[l] \in Nat
        /\ Slack \in Nat /\ StopDelay \in Nat /\ TTL \in Nat /\ Interval \in Nat
        /\ Interval + Slack + StopDelay <= TTL
    BY LeaseConstants, IntervalFits DEF LeaseInv, TypeOK, Working
  <2>2. JobInv(l) /\ l \in Leases /\ l # 0
    BY DEF LeaseInv, Working, Leases
  <2>3. ~Covered(l)
    BY <2>1, <2>2 DEF Covered, JobInv, Owns, Held
  <2>4. Overslept(l)
    BY <2>2, <2>3 DEF JobInv
  <2> QED
    BY <2>1, <2>2, <2>4 DEF Overslept, JobInv
<1> QED
  BY <1>1, LeaseInvariant, PTL

\* No step but an acquisition makes a lease the owner of the lock, and that is
\* a lease nobody had before: an extension that comes late finds its own lease
\* in the lock or leaves it as it is, for any number of leases and pauses.
THEOREM OnlyAcquireTakesTheorem == Spec => OnlyAcquireTakes
<1>1. TypeOK /\ [Next]_vars =>
        [\A l \in Leases : lock.owner # l /\ lock'.owner = l => l > nextID]_vars
  <2> SUFFICES ASSUME TypeOK, Next, NEW l \in Leases, lock.owner # l, lock'.owner = l
               PROVE  l > nextID
    OBVIOUS
  <2>1. lock' # lock /\ l # 0 /\ nextID \in Nat
    BY DEF Leases, TypeOK
  <2>2. PICK k \in Leases : Acquire(k) \/ AcquireUnknown(k) \/ Extend(k) \/ ExtendFails(k) \/ Release(k)
    BY <2>1 DEF Next, LeaseStep, Tick, KeepaliveStops, Cancel, JobReturns, Crash, Pause, Wake
  <2>3. CASE Acquire(k) \/ AcquireUnknown(k)
    BY <2>1, <2>3 DEF Acquire, AcquireUnknown
  <2>4. CASE Extend(k) \/ ExtendFails(k)
    BY <2>1, <2>4 DEF Extend, ExtendFails, Extended, MayExtend, Owns
  <2>5. CASE Release(k)
    BY <2>1, <2>5 DEF Release, NoLock
  <2> QED
    BY <2>2, <2>3, <2>4, <2>5
<1> QED
  BY <1>1, LeaseTypeCorrect, PTL DEF Spec, OnlyAcquireTakes

=============================================================================
