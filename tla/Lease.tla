------------------------------- MODULE Lease -------------------------------
(***************************************************************************)
(* The lock of one pull request with its clock: AcquireLock, Extend and    *)
(* Release of the state stores (internal/store) and the keepalive that     *)
(* Guard runs beside the job (internal/worker/guard.go).  Every            *)
(* acquisition is a lease with an owner id of its own, as in the stores,   *)
(* so a lease stands for the worker that took it.                          *)
(*                                                                         *)
(* Time passes one unit at a time, and not past a moment by which          *)
(* something running has to act: a keepalive extends within Slack of its   *)
(* tick, and a job whose context is cancelled returns within StopDelay.    *)
(* A paused process (a frozen container, a starved CPU) owes nothing.      *)
(***************************************************************************)
EXTENDS Naturals, FiniteSets

CONSTANTS
  MaxLeases,  \* bound: acquisitions in a behaviour
  MaxTime,    \* bound: the clock
  MaxPauses,  \* bound: how often a process is paused
  TTL,        \* Guard.LockTTL
  Slack,      \* how late an extension takes effect after its tick
  StopDelay   \* how long a job goes on after its context is cancelled

Leases == 1..MaxLeases

\* Mutant: the keepalive waits for the whole lease.
WholeTTL == TTL

\* keepalive(): interval := lockTTL / 3.
Interval == TTL \div 3

ASSUME LeaseConstants ==
  /\ MaxLeases \in Nat /\ MaxTime \in Nat /\ MaxPauses \in Nat
  /\ TTL \in Nat /\ Slack \in Nat /\ StopDelay \in Nat

\* What the deployment has to grant: a missed tick is noticed, and the job
\* stopped, before the lease runs out.  With LockTTL = 15m the keepalive and
\* the job have ten minutes between them.
ASSUME LeaseTiming == (TTL \div 3) + Slack + StopDelay <= TTL

VARIABLES
  now,       \* the clock
  nextID,    \* how many leases have been handed out
  lock,      \* the entry in the store: its owner (0: none) and its expiry
  job,       \* per lease: what the worker that took it is doing
  context,   \* per lease: the job's context, "live" or "cancelled"
  stopBy,    \* per lease: when a cancelled job has returned
  ticking,   \* the leases whose keepalive goroutine runs
  due,       \* per lease: when its ticker fires next
  paused,    \* the leases whose process stands still
  pauses,    \* how many pauses there have been
  woken      \* history, per lease: when its process last woke (0: never)

vars == <<now, nextID, lock, job, context, stopBy, ticking, due, paused,
          pauses, woken>>

TypeOK ==
  /\ now \in Nat /\ nextID \in 0..MaxLeases /\ pauses \in Nat
  /\ lock \in [owner : 0..MaxLeases, expires : Nat]
  /\ job \in [Leases -> {"none", "working", "returned", "ended", "dead"}]
  /\ context \in [Leases -> {"live", "cancelled"}]
  /\ stopBy \in [Leases -> Nat]
  /\ ticking \in SUBSET Leases
  /\ due \in [Leases -> Nat]
  /\ paused \in SUBSET Leases
  /\ woken \in [Leases -> Nat]
  /\ \A l \in Leases : job[l] = "working" /\ context[l] = "live" => l \in ticking

Init ==
  /\ now = 0 /\ nextID = 0 /\ pauses = 0
  /\ lock = [owner |-> 0, expires |-> 0]
  /\ job = [l \in Leases |-> "none"]
  /\ context = [l \in Leases |-> "live"]
  /\ stopBy = [l \in Leases |-> 0]
  /\ ticking = {} /\ paused = {}
  /\ due = [l \in Leases |-> 0]
  /\ woken = [l \in Leases |-> 0]

NoLock == [owner |-> 0, expires |-> 0]

\* A lock past its expiry is as good as absent; at its expiry it still holds.
Held == lock.owner # 0 /\ now <= lock.expires

Owns(l) == Held /\ lock.owner = l

-----------------------------------------------------------------------------
(* The store's operations.                                                 *)

\* AcquireLock: a fresh owner takes the lock and starts the job and its
\* keepalive.
Acquire(l) ==
  /\ l = nextID + 1
  /\ ~Held
  /\ nextID' = l
  /\ lock' = [owner |-> l, expires |-> now + TTL]
  /\ job' = [job EXCEPT ![l] = "working"]
  /\ ticking' = ticking \cup {l}
  /\ due' = [due EXCEPT ![l] = now + Interval]
  /\ UNCHANGED <<now, context, stopBy, paused, pauses, woken>>

\* AcquireLock writes the lock but reports an error: nobody will release it.
AcquireUnknown(l) ==
  /\ l = nextID + 1
  /\ ~Held
  /\ nextID' = l
  /\ lock' = [owner |-> l, expires |-> now + TTL]
  /\ job' = [job EXCEPT ![l] = "dead"]
  /\ UNCHANGED <<now, context, stopBy, ticking, due, paused, pauses, woken>>

Extended(l) == [owner |-> l, expires |-> now + TTL]

\* Mutant: a failed extension is only logged.
JustLogged(l) == context' = context /\ stopBy' = stopBy

\* cancel(): the job learns of it through its context.
CancelContext(l) ==
  IF context[l] = "live"
  THEN /\ context' = [context EXCEPT ![l] = "cancelled"]
       /\ stopBy' = [stopBy EXCEPT ![l] = now + StopDelay]
  ELSE UNCHANGED <<context, stopBy>>

\* Mutant: any lock there is can be extended.
OwnsAny(l) == Held

MayExtend(l) == Owns(l)

StopTicking(l) ==
  /\ ticking' = ticking \ {l}
  /\ due' = [due EXCEPT ![l] = 0]

\* The ticker fires and the lease still owns the lock.
Extend(l) ==
  /\ l \in ticking \ paused
  /\ now >= due[l]
  /\ MayExtend(l)
  /\ lock' = Extended(l)
  /\ due' = [due EXCEPT ![l] = @ + Interval]
  /\ UNCHANGED <<now, nextID, job, context, stopBy, ticking, paused, pauses,
                 woken>>

\* The ticker fires and Extend fails: the lease is lost, or the store could
\* not be asked.  The keepalive cancels the job and stops.
ExtendFails(l) ==
  /\ l \in ticking \ paused
  /\ now >= due[l]
  /\ UNCHANGED lock \/ (MayExtend(l) /\ lock' = Extended(l))
  /\ IF job[l] = "working" THEN CancelContext(l) ELSE UNCHANGED <<context, stopBy>>
  /\ StopTicking(l)
  /\ UNCHANGED <<now, nextID, job, paused, pauses, woken>>

\* The goroutine leaves: its context is done or stopKeepalive was called.
KeepaliveStops(l) ==
  /\ l \in ticking \ paused
  /\ context[l] = "cancelled" \/ job[l] # "working"
  /\ StopTicking(l)
  /\ UNCHANGED <<now, nextID, lock, job, context, stopBy, paused, pauses,
                 woken>>

\* Lease.Release deletes the lock if it is still this lease's own; an error
\* leaves it to its expiry.
Release(l) ==
  /\ job[l] = "returned"
  /\ lock' \in {lock, IF lock.owner = l THEN NoLock ELSE lock}
  /\ job' = [job EXCEPT ![l] = "ended"]
  /\ UNCHANGED <<now, nextID, context, stopBy, ticking, due, paused, pauses,
                 woken>>

-----------------------------------------------------------------------------
(* The job, the process and the clock.                                     *)

\* The job timeout or a shutdown cancels the job's context.
Cancel(l) ==
  /\ job[l] = "working"
  /\ context[l] = "live"
  /\ l \notin paused
  /\ CancelContext(l)
  /\ UNCHANGED <<now, nextID, lock, job, ticking, due, paused, pauses, woken>>

\* The job's own state is gone with it.
Forget(l) ==
  /\ context' = [context EXCEPT ![l] = "live"]
  /\ stopBy' = [stopBy EXCEPT ![l] = 0]
  /\ woken' = [woken EXCEPT ![l] = 0]

\* Next.Handle returns, because it is done or because it was told to stop.
JobReturns(l) ==
  /\ job[l] = "working"
  /\ l \notin paused
  /\ job' = [job EXCEPT ![l] = "returned"]
  /\ Forget(l)
  /\ UNCHANGED <<now, nextID, lock, ticking, due, paused, pauses>>

Crash(l) ==
  /\ job[l] \in {"working", "returned"}
  /\ job' = [job EXCEPT ![l] = "dead"]
  /\ StopTicking(l)
  /\ Forget(l)
  /\ paused' = paused \ {l}
  /\ UNCHANGED <<now, nextID, lock, pauses>>

Pause(l) ==
  /\ job[l] = "working"
  /\ l \notin paused
  /\ pauses < MaxPauses
  /\ paused' = paused \cup {l}
  /\ pauses' = pauses + 1
  /\ UNCHANGED <<now, nextID, lock, job, context, stopBy, ticking, due, woken>>

\* The process runs again.  What it owed in the meantime is owed from now on.
Wake(l) ==
  /\ l \in paused
  /\ paused' = paused \ {l}
  /\ woken' = [woken EXCEPT ![l] = now + 1]
  /\ due' = [due EXCEPT ![l] = IF l \in ticking /\ @ < now THEN now ELSE @]
  /\ stopBy' = [stopBy EXCEPT ![l] = IF context[l] = "live" THEN @ ELSE now + StopDelay]
  /\ UNCHANGED <<now, nextID, lock, job, context, ticking, pauses>>

\* Nothing that runs has to act at this very moment.
MayWait(l) ==
  job[l] = "working" /\ l \notin paused =>
    /\ context[l] = "cancelled" => now < stopBy[l]
    /\ context[l] = "live" /\ l \in ticking => now < due[l] + Slack

Tick ==
  /\ now < MaxTime
  /\ \A l \in Leases : MayWait(l)
  /\ now' = now + 1
  /\ UNCHANGED <<nextID, lock, job, context, stopBy, ticking, due, paused,
                 pauses, woken>>

LeaseStep(l) ==
  \/ Acquire(l) \/ AcquireUnknown(l) \/ Extend(l) \/ ExtendFails(l)
  \/ KeepaliveStops(l) \/ Release(l) \/ Cancel(l) \/ JobReturns(l)
  \/ Crash(l) \/ Pause(l) \/ Wake(l)

Next == Tick \/ \E l \in Leases : LeaseStep(l)

Spec == Init /\ [][Next]_vars

-----------------------------------------------------------------------------
(* Properties.                                                             *)

Working == {l \in Leases : job[l] = "working"}

\* Two jobs for one pull request never run at once, unless the process of one
\* of them stood still: the keepalive renews the lease, or stops the job,
\* before the store lets another worker have the lock (guard.go, keepalive).
OneJobAtATime ==
  \A k, l \in Working \ paused : k # l => woken[k] > 0 \/ woken[l] > 0

\* A job that lost its lease while its process stood still is stopped soon
\* after it wakes: its keepalive finds the lease gone and cancels it.
LostLeaseStops ==
  \A l \in Working \ paused :
    ~Owns(l) => woken[l] > 0 /\ now <= (woken[l] - 1) + Slack + StopDelay

\* A keepalive that is late, or still in flight when the job is over, neither
\* revives a lock that was released nor takes one that somebody else has.
OnlyAcquireTakes ==
  [][\A l \in Leases : lock.owner # l /\ lock'.owner = l => l > nextID]_vars
=============================================================================
