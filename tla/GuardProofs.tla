---------------------------- MODULE GuardProofs ----------------------------
(***************************************************************************)
(* Proofs about Guard, for any number of messages, deliveries, pull        *)
(* requests and workers, and any number of mishaps.                        *)
(***************************************************************************)
EXTENDS Guard, FiniteSetTheorems, TLAPS

-----------------------------------------------------------------------------
(* Types.                                                                  *)

\* The initial state is well typed.
LEMMA InitTypeOK == Init => TypeOK
  BY GuardConstants DEF Init, TypeOK, Steps

\* What leaving Handle does to the worker's slot, whatever made it leave.
LEMMA LeaveTypeOK ==
  ASSUME TypeOK, NEW w \in Workers, Leave(w)
  PROVE  /\ pc' \in [Workers -> Steps]
         /\ job' \in [Workers -> Messages \cup {None}]
         /\ \A v \in Workers : (pc'[v] = "idle") <=> (job'[v] = None)
         /\ seen' \in [Workers -> Nat]
         /\ claimed' \in [Workers -> BOOLEAN]
         /\ result' \in [Workers -> {"none", "ok", "error", "permanent"}]
         /\ stalled' \in SUBSET Workers
  BY DEF TypeOK, Leave, GoTo, EmptySlot, Steps

\* A worker that is not idle has a message, and so a delivery and a pull
\* request.
LEMMA BusyTypes ==
  ASSUME TypeOK, NEW w \in Workers, pc[w] # "idle"
  PROVE  job[w] \in Messages /\ delivery(w) \in Deliveries /\ pull(w) \in Pulls
<1>1. job[w] \in Messages
  BY DEF TypeOK
<1>2. delivery(w) \in Deliveries
  BY <1>1, GuardConstants DEF delivery
<1>3. pull(w) \in Pulls
  BY <1>2, GuardConstants DEF pull
<1> QED
  BY <1>1, <1>2, <1>3

\* Every step keeps the types.
LEMMA NextTypeOK == TypeOK /\ [Next]_vars => TypeOK'
<1> SUFFICES ASSUME TypeOK, [Next]_vars PROVE TypeOK'
  OBVIOUS
<1> USE GuardConstants, GuardNames
<1>1. ASSUME NEW w \in Workers, DropSelf(w) PROVE TypeOK'
  BY <1>1 DEF TypeOK, DropSelf, GoTo, Keep, history, Steps
<1>2. ASSUME NEW w \in Workers, Claim(w) PROVE TypeOK'
  <2>1. record' \in [Deliveries -> {"absent", "claim", "done"}]
    BY <1>2 DEF TypeOK, Claim
  <2>2. /\ pc' \in [Workers -> Steps]
        /\ pc[w] # "idle" /\ pc'[w] # "idle"
        /\ \A v \in Workers \ {w} : pc'[v] = pc[v]
        /\ mishaps' \in Nat
    BY <1>2 DEF TypeOK, Claim, StoreError, Mishap, GoTo, Steps
  <2>3. claimed' \in [Workers -> BOOLEAN]
    <3> DEFINE first == record[delivery(w)] = "absent"
    <3>1. claimed' = claimed \/ claimed' = [claimed EXCEPT ![w] = first]
      BY <1>2 DEF Claim
    <3>2. first \in BOOLEAN
      OBVIOUS
    <3> HIDE DEF first
    <3> QED
      BY <3>1, <3>2 DEF TypeOK
  <2> QED
    BY <1>2, <2>1, <2>2, <2>3 DEF TypeOK, Claim, Keep, history
<1>3. ASSUME NEW w \in Workers, Check(w) PROVE TypeOK'
  BY <1>3 DEF TypeOK, Check, StoreError, Mishap, GoTo, Keep, history, Steps
<1>4. ASSUME NEW w \in Workers, Lock(w) PROVE TypeOK'
  BY <1>4, BusyTypes DEF TypeOK, Lock, StoreError, Mishap, GoTo, Keep, history, Steps
<1>5. ASSUME NEW w \in Workers, Run(w) PROVE TypeOK'
  BY <1>5, BusyTypes DEF TypeOK, Run, GoTo, Keep, history, Steps
<1>6. ASSUME NEW w \in Workers, Unlock(w) PROVE TypeOK'
  BY <1>6, BusyTypes DEF TypeOK, Unlock, Released, AfterRun, StoreError, Mishap, GoTo, Keep,
         history, Steps
<1>7. ASSUME NEW w \in Workers, Notify(w) PROVE TypeOK'
  BY <1>7, BusyTypes DEF TypeOK, Notify, Mishap, GoTo, Keep, Steps
<1>8. ASSUME NEW w \in Workers, Remember(w) PROVE TypeOK'
  BY <1>8, BusyTypes DEF TypeOK, Remember, StoreError, Mishap, GoTo, Keep, history, Steps
<1>9. ASSUME NEW w \in Workers, Release(w) PROVE TypeOK'
  BY <1>9, BusyTypes DEF TypeOK, Release, StoreError, Mishap, GoTo, Keep, history, Steps
<1>10. ASSUME NEW w \in Workers, Ack(w) PROVE TypeOK'
  <2>1. queue' \in [Messages -> {"waiting", "acked", "dead"}]
    BY <1>10 DEF TypeOK, Ack
  <2> QED
    BY <1>10, <2>1, LeaveTypeOK DEF TypeOK, Ack, Leave
<1>11. ASSUME NEW w \in Workers, Nack(w) PROVE TypeOK'
  BY <1>11, LeaveTypeOK DEF TypeOK, Nack, Leave
<1>12. ASSUME NEW w \in Workers, Crash(w) PROVE TypeOK'
  <2>1. /\ lock' \in [Pulls -> Workers \cup {Free, Orphan}]
        /\ crashed' \in SUBSET Messages
        /\ mishaps' \in Nat
    BY <1>12, BusyTypes DEF TypeOK, Crash, Mishap
  <2> QED
    BY <1>12, <2>1, LeaveTypeOK DEF TypeOK, Crash, Leave
<1>13. ASSUME NEW w \in Workers, Stall(w) PROVE TypeOK'
  <2>1. mishaps' \in Nat
    BY <1>13 DEF TypeOK, Stall, Mishap
  <2>2. lock' \in [Pulls -> Workers \cup {Free, Orphan}]
    BY <1>13 DEF TypeOK, Stall
  <2>3. stalled' \in SUBSET Workers
    BY <1>13 DEF TypeOK, Stall
  <2> QED
    BY <1>13, <2>1, <2>2, <2>3 DEF TypeOK, Stall
<1>14. ASSUME NEW w \in Workers, NEW m \in Messages, Deliver(w, m) PROVE TypeOK'
  BY <1>14 DEF TypeOK, Deliver, Mishap, GoTo, history, Steps
<1>15. ASSUME NEW m \in Messages, DeadLetter(m) PROVE TypeOK'
  BY <1>15 DEF TypeOK, DeadLetter, history
<1>16. ASSUME NEW p \in Pulls, LockExpires(p) PROVE TypeOK'
  BY <1>16 DEF TypeOK, LockExpires, history
<1>17. ASSUME NEW d \in Deliveries, ClaimExpires(d) PROVE TypeOK'
  BY <1>17 DEF TypeOK, ClaimExpires, history
<1>18. ASSUME UNCHANGED vars PROVE TypeOK'
  BY <1>18 DEF TypeOK, vars
<1> QED
  BY <1>1, <1>2, <1>3, <1>4, <1>5, <1>6, <1>7, <1>8, <1>9, <1>10, <1>11, <1>12,
     <1>13, <1>14, <1>15, <1>16, <1>17, <1>18 DEF Next, Step, Idle

\* The type invariant holds in every reachable state of the guard.
THEOREM TypeCorrect == Spec => []TypeOK
<1>1. QED
  BY InitTypeOK, NextTypeOK, PTL DEF Spec

-----------------------------------------------------------------------------
(* Ownership of the lock.                                                  *)

\* Only the holder's own steps, its crash and its stall take a lock from a
\* worker that has one, and only a free lock is taken.
LEMMA OwnershipStep ==
  TypeOK /\ HoldersOwnTheLock /\ [Next]_vars => HoldersOwnTheLock'
<1> SUFFICES ASSUME TypeOK, HoldersOwnTheLock, [Next]_vars,
                    NEW v \in Workers, pc'[v] \in Holding, v \notin stalled'
             PROVE  lock'[pull(v)'] = v
  BY DEF HoldersOwnTheLock
<1> USE GuardConstants, GuardNames
\* A step that moves neither v, nor its message, nor the locks.
<1>1. ASSUME pc[v] \in Holding, v \notin stalled, job'[v] = job[v], UNCHANGED lock
      PROVE  lock'[pull(v)'] = v
  BY <1>1 DEF HoldersOwnTheLock, pull, delivery
<1>2. ASSUME NEW w \in Workers, Step(w), w # v PROVE lock'[pull(v)'] = v
  <2>1. pc[v] \in Holding /\ v \notin stalled /\ job'[v] = job[v]
    BY <1>2 DEF TypeOK, Step, DropSelf, Claim, Check, Lock, Run, Unlock, Notify, Remember,
       Release, Ack, Nack, Leave, EmptySlot, StoreError, GoTo, Keep, history
  <2>2. lock[pull(v)] = v /\ pull(v)' = pull(v) /\ pull(v) \in Pulls
    BY <2>1, BusyTypes DEF HoldersOwnTheLock, pull, delivery, Holding
  <2>3. UNCHANGED lock \/ Lock(w) \/ Unlock(w)
    BY <1>2 DEF Step, DropSelf, Claim, Check, Run, Notify, Remember, Release, Ack, Nack
  <2>4. CASE Lock(w)
    BY <2>2, <2>4, <1>2, BusyTypes DEF Lock, TypeOK
  <2>5. CASE Unlock(w)
    BY <2>2, <2>5, <1>2, BusyTypes DEF Unlock, Released, TypeOK
  <2> QED
    BY <1>1, <2>1, <2>3, <2>4, <2>5
<1>3. ASSUME Step(v) PROVE lock'[pull(v)'] = v
  <2>1. Lock(v) \/ Run(v)
    BY <1>3 DEF TypeOK, Holding, Step, DropSelf, Claim, Check, Unlock, AfterRun, Notify,
       Remember, Release, Ack, Nack, Leave, StoreError, GoTo
  <2>2. pull(v)' = pull(v) /\ pull(v) \in Pulls
    BY <2>1, BusyTypes DEF Lock, Run, Keep, pull, delivery
  <2>3. CASE Lock(v)
    BY <2>2, <2>3 DEF Lock, TypeOK, Holding, StoreError, GoTo
  <2>4. CASE Run(v)
    BY <2>2, <2>4 DEF Run, Holding, HoldersOwnTheLock
  <2> QED
    BY <2>1, <2>3, <2>4
<1>4. ASSUME NEW w \in Workers, Crash(w) PROVE lock'[pull(v)'] = v
  <2>1. w # v /\ pc[v] \in Holding /\ v \notin stalled /\ job'[v] = job[v]
    BY <1>4 DEF TypeOK, Crash, Leave, EmptySlot, GoTo, Holding
  <2>2. lock[pull(v)] = v /\ pull(v)' = pull(v) /\ pull(v) \in Pulls
    BY <2>1, BusyTypes DEF HoldersOwnTheLock, pull, delivery, Holding
  <2> QED
    BY <2>1, <2>2, <1>4 DEF Crash
<1>5. ASSUME NEW w \in Workers, Stall(w) PROVE lock'[pull(v)'] = v
  <2>1. w # v /\ pc[v] \in Holding /\ v \notin stalled /\ job'[v] = job[v]
    BY <1>5 DEF Stall
  <2>2. lock[pull(v)] = v /\ pull(v)' = pull(v)
    BY <2>1 DEF HoldersOwnTheLock, pull, delivery
  <2> QED
    BY <2>1, <2>2, <1>5 DEF Stall, TypeOK
<1>6. ASSUME NEW w \in Workers, NEW m \in Messages, Deliver(w, m)
      PROVE  lock'[pull(v)'] = v
  <2>1. w # v
    BY <1>6 DEF Deliver, GoTo, TypeOK, Holding
  <2>2. pc[v] \in Holding /\ v \notin stalled /\ job'[v] = job[v] /\ UNCHANGED lock
    BY <2>1, <1>6 DEF Deliver, GoTo, TypeOK, history
  <2> QED
    BY <2>2, <1>1
<1>7. ASSUME NEW p \in Pulls, LockExpires(p) PROVE lock'[pull(v)'] = v
  <2>1. lock[pull(v)] = v /\ pull(v)' = pull(v)
    BY <1>7 DEF LockExpires, history, HoldersOwnTheLock, pull, delivery
  <2> QED
    BY <2>1, <1>7 DEF LockExpires, Abandoned, TypeOK
<1>8. ASSUME \/ \E m \in Messages : DeadLetter(m)
             \/ \E d \in Deliveries : ClaimExpires(d)
             \/ UNCHANGED vars
      PROVE  lock'[pull(v)'] = v
  BY <1>8, <1>1 DEF DeadLetter, ClaimExpires, vars, history
<1> QED
  BY <1>2, <1>3, <1>4, <1>5, <1>6, <1>7, <1>8 DEF Next, Idle

\* A worker at work on a pull request owns its lock unless its own lease ran
\* out: takeovers of a claim and late releases never cost another worker its
\* lock.
THEOREM LockOwnership == Spec => []HoldersOwnTheLock
<1>1. Init => HoldersOwnTheLock
  BY DEF Init, HoldersOwnTheLock, Holding
<1> QED
  BY <1>1, TypeCorrect, OwnershipStep, PTL DEF Spec

\* Two workers between acquiring and releasing the lock of one pull request:
\* at least one of them has been told by its lease to stop.
THEOREM OneWorkerPerPull ==
  ASSUME TypeOK, HoldersOwnTheLock,
         NEW v \in Workers, NEW w \in Workers,
         pc[v] \in Holding, pc[w] \in Holding, pull(v) = pull(w), v # w
  PROVE  v \in stalled \/ w \in stalled
  BY DEF HoldersOwnTheLock

-----------------------------------------------------------------------------
(* Nothing is dropped in silence.                                          *)

\* What entitles the guard to record and to acknowledge: an answer, or the
\* failed attempt to give one.
Settled == Answered \cup (untold \cap Failed)

DoneMeansSettled == \A d \in Deliveries : record[d] = "done" => d \in Settled

\* What a worker that is about to record or to acknowledge has behind it.
\* DoneMeansAnswered is not inductive without it: Remember writes "done" on
\* the strength of what Run and Notify did two steps before, and Notify may
\* fail because the job did.
AnswerInHand ==
  \A w \in Workers :
    /\ pc[w] = "unlock" /\ result[w] = "ok" => delivery(w) \in Settled
    /\ pc[w] = "unlock" /\ result[w] # "ok" => delivery(w) \in Failed
    /\ pc[w] = "notify" => delivery(w) \in Failed
    /\ pc[w] = "remember" => delivery(w) \in Settled
    /\ pc[w] = "ack" => job[w] \in SelfAuthored \/ delivery(w) \in Settled

AnswerInv == TypeOK /\ DoneMeansSettled /\ AnswerInHand

\* An answer is never taken back, nor is a failure.
LEMMA SettledGrows ==
  TypeOK /\ [Next]_vars => Settled \subseteq Settled' /\ Failed \subseteq Failed'
<1> DEFINE Goal == Settled \subseteq Settled' /\ Failed \subseteq Failed'
<1> SUFFICES ASSUME TypeOK, [Next]_vars PROVE Goal
  OBVIOUS
<1>1. ASSUME NEW w \in Workers, Run(w) PROVE Goal
  <2>1. \A d \in Deliveries : failures[d] > 0 => failures'[d] > 0
    BY <1>1 DEF Run, TypeOK
  <2> QED
    BY <2>1, <1>1 DEF Run, Settled, Answered, Failed
<1>2. ASSUME NEW w \in Workers, Notify(w) PROVE Goal
  BY <1>2 DEF Notify, Settled, Answered, Failed
<1>3. ASSUME UNCHANGED <<finished, failures, told, untold>> PROVE Goal
  BY <1>3 DEF Settled, Answered, Failed
<1>4. \/ UNCHANGED <<finished, failures, told, untold>>
      \/ \E w \in Workers : Run(w) \/ Notify(w)
  BY DEF Next, Step, DropSelf, Claim, Check, Lock, Unlock, Remember, Release, Ack, Nack,
     Leave, Crash, Stall, Deliver, DeadLetter, LockExpires, ClaimExpires, Idle, vars, history
<1> QED
  BY <1>1, <1>2, <1>3, <1>4

\* A worker's own step leaves it with an answer in hand, and what it writes
\* into the store is backed by one.
LEMMA OwnStepAnswers ==
  ASSUME AnswerInv, [Next]_vars, NEW w \in Workers, Step(w)
  PROVE  /\ pc'[w] = "unlock" /\ result'[w] = "ok" => delivery(w)' \in Settled'
         /\ pc'[w] = "unlock" /\ result'[w] # "ok" => delivery(w)' \in Failed'
         /\ pc'[w] = "notify" => delivery(w)' \in Failed'
         /\ pc'[w] = "remember" => delivery(w)' \in Settled'
         /\ pc'[w] = "ack" => job'[w] \in SelfAuthored \/ delivery(w)' \in Settled'
         /\ DoneMeansSettled'
<1> USE GuardConstants, GuardNames DEF AnswerInv
<1> DEFINE Goal == /\ pc'[w] = "unlock" /\ result'[w] = "ok" => delivery(w)' \in Settled'
                   /\ pc'[w] = "unlock" /\ result'[w] # "ok" => delivery(w)' \in Failed'
                   /\ pc'[w] = "notify" => delivery(w)' \in Failed'
                   /\ pc'[w] = "remember" => delivery(w)' \in Settled'
                   /\ pc'[w] = "ack" => job'[w] \in SelfAuthored \/ delivery(w)' \in Settled'
                   /\ DoneMeansSettled'
<1>0. Settled \subseteq Settled' /\ Failed \subseteq Failed'
  BY SettledGrows
<1>1. CASE DropSelf(w)
  BY <1>0, <1>1 DEF DropSelf, GoTo, Keep, history, DoneMeansSettled, TypeOK
<1>2. CASE Claim(w)
  <2>1. \A d \in Deliveries : record'[d] = "done" => record[d] = "done"
    BY <1>2 DEF Claim, TypeOK
  <2>2. pc'[w] \in {"lock", "check", "nack"}
    BY <1>2 DEF Claim, StoreError, GoTo, TypeOK
  <2> QED
    BY <1>0, <2>1, <2>2 DEF DoneMeansSettled
<1>3. CASE Check(w)
  <2>1. UNCHANGED <<record, job>> /\ delivery(w) \in Deliveries
    BY <1>3, BusyTypes DEF Check, Keep
  <2>2. /\ pc'[w] \in {"lock", "ack", "nack"}
        /\ pc'[w] = "ack" => record[delivery(w)] = "done"
    BY <1>3 DEF Check, Finished, StoreError, GoTo, TypeOK
  <2> QED
    BY <1>0, <2>1, <2>2 DEF DoneMeansSettled, delivery
<1>4. CASE Lock(w)
  <2>1. pc'[w] \in {"run", "unclaim", "nack"}
    BY <1>4 DEF Lock, StoreError, GoTo, TypeOK
  <2> QED
    BY <1>0, <1>4, <2>1 DEF Lock, DoneMeansSettled
<1>5. CASE Run(w)
  <2>1. /\ pc'[w] = "unlock" /\ UNCHANGED <<record, job>>
        /\ delivery(w) \in Deliveries
    BY <1>5, BusyTypes DEF Run, GoTo, Keep, TypeOK
  <2>2. result'[w] = "ok" => delivery(w) \in Settled'
    BY <1>5, <2>1 DEF Run, TypeOK, Settled, Answered
  <2>3. result'[w] # "ok" => delivery(w) \in Failed'
    BY <1>5, <2>1 DEF Run, TypeOK, Failed
  <2> QED
    BY <1>0, <2>1, <2>2, <2>3 DEF DoneMeansSettled, delivery
<1>6. CASE Unlock(w)
  <2>1. /\ pc'[w] \in {"remember", "notify", "release"}
        /\ pc'[w] = "remember" => result[w] = "ok"
        /\ pc'[w] = "notify" => result[w] # "ok"
        /\ UNCHANGED <<record, job>>
    BY <1>6 DEF Unlock, AfterRun, StoreError, GoTo, Keep, TypeOK
  <2>2. pc[w] = "unlock"
    BY <1>6 DEF Unlock
  <2> QED
    BY <1>0, <2>1, <2>2 DEF DoneMeansSettled, AnswerInHand, delivery
<1>7. CASE Notify(w)
  <2>1. /\ pc'[w] = "remember" /\ UNCHANGED <<record, job>>
        /\ delivery(w) \in Failed
    BY <1>7 DEF Notify, GoTo, Keep, TypeOK, AnswerInHand
  <2>2. delivery(w) \in Settled'
    BY <1>0, <1>7, <2>1 DEF Notify, Settled, Answered
  <2> QED
    BY <1>0, <2>1, <2>2 DEF DoneMeansSettled, delivery
<1>8. CASE Remember(w)
  <2>1. /\ delivery(w) \in Settled
        /\ pc'[w] = "ack" /\ UNCHANGED job
    BY <1>8 DEF Remember, StoreError, GoTo, Keep, TypeOK, AnswerInHand
  <2>2. \A d \in Deliveries : record'[d] = "done" => record[d] = "done" \/ d = delivery(w)
    BY <1>8 DEF Remember, TypeOK
  <2> QED
    BY <1>0, <2>1, <2>2 DEF DoneMeansSettled, delivery
<1>9. CASE Release(w)
  <2>1. pc'[w] = "nack"
    BY <1>9 DEF Release, StoreError, GoTo, TypeOK
  <2>2. \A d \in Deliveries : record'[d] = "done" => record[d] = "done"
    BY <1>9 DEF Release, TypeOK
  <2> QED
    BY <1>0, <2>1, <2>2 DEF DoneMeansSettled
<1>10. CASE Ack(w) \/ Nack(w)
  BY <1>0, <1>10 DEF Ack, Nack, Leave, GoTo, TypeOK, DoneMeansSettled
<1> QED
  BY <1>1, <1>2, <1>3, <1>4, <1>5, <1>6, <1>7, <1>8, <1>9, <1>10 DEF Step

\* Every step keeps the invariant.
LEMMA AnswerStep == AnswerInv /\ [Next]_vars => AnswerInv'
<1> SUFFICES ASSUME AnswerInv, [Next]_vars PROVE AnswerInv'
  OBVIOUS
<1>1. TypeOK'
  BY NextTypeOK DEF AnswerInv
<1>2. Settled \subseteq Settled' /\ Failed \subseteq Failed'
  BY SettledGrows DEF AnswerInv
\* A worker that does not move keeps what it has in hand.
<1>3. ASSUME NEW v \in Workers,
             pc'[v] = pc[v], job'[v] = job[v], result'[v] = result[v]
      PROVE  /\ pc'[v] = "unlock" /\ result'[v] = "ok" => delivery(v)' \in Settled'
             /\ pc'[v] = "unlock" /\ result'[v] # "ok" => delivery(v)' \in Failed'
             /\ pc'[v] = "notify" => delivery(v)' \in Failed'
             /\ pc'[v] = "remember" => delivery(v)' \in Settled'
             /\ pc'[v] = "ack" => job'[v] \in SelfAuthored \/ delivery(v)' \in Settled'
  BY <1>2, <1>3 DEF AnswerInv, AnswerInHand, delivery
<1>4. ASSUME NEW w \in Workers, Step(w) PROVE DoneMeansSettled' /\ AnswerInHand'
  <2>1. \A v \in Workers \ {w} : pc'[v] = pc[v] /\ job'[v] = job[v] /\ result'[v] = result[v]
    BY <1>4 DEF AnswerInv, TypeOK, Step, DropSelf, Claim, Check, Lock, Run, Unlock, Notify,
       Remember, Release, Ack, Nack, Leave, EmptySlot, StoreError, GoTo, Keep, history
  <2> QED
    BY <1>3, <1>4, <2>1, OwnStepAnswers DEF AnswerInHand
<1>5. ASSUME NEW w \in Workers, Crash(w) PROVE DoneMeansSettled' /\ AnswerInHand'
  <2>1. pc'[w] = "idle" /\ UNCHANGED record
    BY <1>5 DEF Crash, Leave, GoTo, AnswerInv, TypeOK
  <2>2. \A v \in Workers \ {w} : pc'[v] = pc[v] /\ job'[v] = job[v] /\ result'[v] = result[v]
    BY <1>5 DEF Crash, Leave, EmptySlot, GoTo, AnswerInv, TypeOK
  <2> QED
    BY <1>2, <1>3, <2>1, <2>2 DEF AnswerInv, AnswerInHand, DoneMeansSettled
<1>6. ASSUME NEW w \in Workers, NEW m \in Messages, Deliver(w, m)
      PROVE  DoneMeansSettled' /\ AnswerInHand'
  <2>1. pc'[w] = "received" /\ UNCHANGED record
    BY <1>6 DEF Deliver, GoTo, AnswerInv, TypeOK
  <2>2. \A v \in Workers \ {w} : pc'[v] = pc[v] /\ job'[v] = job[v] /\ result'[v] = result[v]
    BY <1>6 DEF Deliver, GoTo, AnswerInv, TypeOK
  <2> QED
    BY <1>2, <1>3, <2>1, <2>2 DEF AnswerInv, AnswerInHand, DoneMeansSettled
<1>7. ASSUME NEW d \in Deliveries, ClaimExpires(d) PROVE DoneMeansSettled' /\ AnswerInHand'
  <2>1. \A e \in Deliveries : record'[e] = "done" => record[e] = "done"
    BY <1>7 DEF ClaimExpires, AnswerInv, TypeOK
  <2> QED
    BY <1>2, <1>3, <1>7, <2>1 DEF ClaimExpires, AnswerInv, AnswerInHand, DoneMeansSettled
<1>8. ASSUME \/ \E w \in Workers : Stall(w)
             \/ \E m \in Messages : DeadLetter(m)
             \/ \E p \in Pulls : LockExpires(p)
             \/ UNCHANGED vars
      PROVE  DoneMeansSettled' /\ AnswerInHand'
  <2>1. UNCHANGED <<record, pc, job, result>>
    BY <1>8 DEF Stall, DeadLetter, LockExpires, vars
  <2> QED
    BY <1>2, <1>3, <2>1 DEF AnswerInv, AnswerInHand, DoneMeansSettled
<1> QED
  BY <1>1, <1>4, <1>5, <1>6, <1>7, <1>8 DEF AnswerInv, Next, Idle

LEMMA AnswerInvariant == Spec => []AnswerInv
<1>1. Init => AnswerInv
  BY InitTypeOK DEF Init, AnswerInv, DoneMeansSettled, AnswerInHand
<1> QED
  BY <1>1, AnswerStep, PTL DEF Spec

\* The store's completion record never lies: a delivery recorded as done was
\* run to the end, or failed and was reported, or failed and its notice had
\* nobody to reach or did not reach anybody.
THEOREM DoneIsAnswered == Spec => []DoneMeansAnswered
<1>1. AnswerInv => DoneMeansAnswered
  BY DEF AnswerInv, DoneMeansSettled, DoneMeansAnswered, Settled
<1> QED
  BY <1>1, AnswerInvariant, PTL

\* A step of the guard is a step of the promise, or changes nothing of it.
LEMMA PromiseStep == AnswerInv /\ [Next]_vars => [Promise!Next]_Promise!vars
<1> SUFFICES ASSUME AnswerInv, [Next]_vars PROVE [Promise!Next]_Promise!vars
  OBVIOUS
<1> USE GuardConstants DEF AnswerInv
<1>1. ASSUME NEW w \in Workers, Run(w) PROVE [Promise!Next]_Promise!vars
  <2>1. delivery(w) \in Deliveries /\ UNCHANGED <<queue, told, untold>>
    BY <1>1, BusyTypes DEF Run, Keep
  <2>2. CASE result'[w] = "ok"
    <3>1. UNCHANGED Failed /\ Answered' = Answered \cup {delivery(w)}
      BY <1>1, <2>1, <2>2 DEF Run, Answered, Failed, TypeOK
    <3> QED
      BY <2>1, <3>1 DEF Promise!Next, Promise!Answer
  <2>3. CASE result'[w] # "ok"
    <3>1. UNCHANGED Answered /\ Failed' = Failed \cup {delivery(w)}
      BY <1>1, <2>1, <2>3 DEF Run, Answered, Failed, TypeOK
    <3> QED
      BY <2>1, <3>1 DEF Promise!Next, Promise!Fail
  <2> QED
    BY <2>2, <2>3
<1>2. ASSUME NEW w \in Workers, Notify(w) PROVE [Promise!Next]_Promise!vars
  <2>1. /\ delivery(w) \in Deliveries /\ UNCHANGED <<queue, finished, failures>>
        /\ delivery(w) \in Failed
    BY <1>2, BusyTypes DEF Notify, Keep, AnswerInHand
  <2>2. UNCHANGED Failed
    BY <2>1 DEF Failed
  <2>3. CASE told' = told \cup {delivery(w)} /\ UNCHANGED untold
    <3>1. Answered' = Answered \cup {delivery(w)}
      BY <2>1, <2>3 DEF Answered
    <3> QED
      BY <2>1, <2>2, <2>3, <3>1 DEF Promise!Next, Promise!Answer
  <2>4. CASE /\ UNCHANGED told /\ untold' = untold \cup {delivery(w)}
             /\ delivery(w) \in Unreachable \/ "notice" \in Mishaps
    <3>1. UNCHANGED Answered
      BY <2>1, <2>4 DEF Answered
    <3> QED
      BY <2>1, <2>2, <2>4, <3>1 DEF Promise!Next, Promise!Lose
  <2> QED
    BY <1>2, <2>3, <2>4 DEF Notify, Mishap
<1>3. ASSUME UNCHANGED <<queue, finished, failures, told, untold>>
      PROVE  [Promise!Next]_Promise!vars
  BY <1>3 DEF Promise!vars, Answered, Failed
<1>4. ASSUME NEW w \in Workers, Ack(w) PROVE [Promise!Next]_Promise!vars
  <2>1. job[w] \in Messages /\ UNCHANGED <<Answered, Failed, untold>>
    BY <1>4, BusyTypes DEF Ack, Leave, Answered, Failed
  <2>2. job[w] \in SelfAuthored \/ DeliveryOf[job[w]] \in Answered \cup untold
    BY <1>4 DEF Ack, AnswerInHand, Settled, delivery
  <2>3. CASE queue[job[w]] = "waiting"
    BY <1>4, <2>1, <2>2, <2>3 DEF Ack, Promise!Next, Promise!Ack
  <2>4. CASE queue[job[w]] # "waiting"
    <3>1. UNCHANGED queue
      BY <1>4, <2>1, <2>4 DEF Ack, TypeOK
    <3> QED
      BY <2>1, <3>1 DEF Promise!vars
  <2> QED
    BY <2>3, <2>4
<1>5. ASSUME NEW m \in Messages, DeadLetter(m) PROVE [Promise!Next]_Promise!vars
  BY <1>5 DEF DeadLetter, history, Answered, Failed, Promise!Next, Promise!Bury
<1>6. \/ UNCHANGED <<queue, finished, failures, told, untold>>
      \/ \E w \in Workers : Run(w) \/ Notify(w) \/ Ack(w)
      \/ \E m \in Messages : DeadLetter(m)
  BY DEF Next, Step, DropSelf, Claim, Check, Lock, Unlock, Remember, Release, Nack, Keep,
     Leave, Crash, Stall, Deliver, LockExpires, ClaimExpires, Idle, vars, history
<1> QED
  BY <1>1, <1>2, <1>3, <1>4, <1>5, <1>6

\* The guard implements AtLeastOnce: whatever crashes, duplicates, store
\* errors and lost leases do, no message is acknowledged before its delivery
\* was answered, unless its job failed and the notice of that failed as well
\* or had nobody to reach; and where notices do not fail, only for those.
THEOREM NothingDropped == Spec => PromiseKept
<1>1. Init => Promise!Init
  BY DEF Init, Promise!Init, Answered, Failed
<1> QED
  BY <1>1, AnswerInvariant, PromiseStep, PTL DEF Spec, PromiseKept, Promise!Spec

-----------------------------------------------------------------------------
(* Nothing ends in the dead letter topic for failing alone.                *)

\* A forge's delivery was published once.
OneMessageEach == \A m, n \in Messages : DeliveryOf[m] = DeliveryOf[n] => m = n

\* The steps before the job has returned.
BeforeRun == {"received", "check", "lock", "run"}

\* Attempts short of the last one whose job may have failed: each fails once.
Spent(m) ==
  {n \in 1 .. (MaxDeliveries - 1) :
     n <= attempts[m] /\ \A w \in Workers : ~(job[w] = m /\ seen[w] = n /\ pc[w] \in BeforeRun)}

\* On the way to an acknowledgement, from which only a crash can keep it.
Answering(w) ==
  \/ pc[w] \in {"notify", "remember", "ack"}
  \/ pc[w] = "unlock" /\ (result[w] = "ok" \/ GivesUp(w))

\* The copies of a message are told apart by their attempt numbers.
CopiesDiffer ==
  \A w \in Workers : job[w] # None =>
    /\ seen[w] > 0 /\ seen[w] <= attempts[job[w]]
    /\ \A v \in Workers : v # w /\ job[v] = job[w] => seen[v] # seen[w]

DeadAreGone == \A m \in Messages : queue[m] = "dead" => ~InFlight(m)

\* DeadMeansSilence says what is left when no copy is out; this is what it is
\* while some are: a failure is an attempt of its own or about to be told.
FailuresCounted ==
  \A m \in Messages : m \notin crashed /\ queue[m] # "acked" =>
    \/ \E w \in Workers : job[w] = m /\ Answering(w)
    \/ failures[DeliveryOf[m]] <= Cardinality(Spent(m))

SilenceInv ==
  /\ TypeOK /\ CopiesDiffer /\ DeadAreGone
  /\ OneMessageEach
  /\ MaxDeliveries > 0 => FailuresCounted

\* Only one worker's slot moves in a step.
LEMMA OthersStay ==
  ASSUME TypeOK, [Next]_vars
  PROVE  \/ UNCHANGED <<pc, job, seen, result>>
         \/ \E w \in Workers :
              /\ Step(w) \/ Crash(w) \/ \E m \in Messages : Deliver(w, m)
              /\ \A v \in Workers \ {w} : /\ pc'[v] = pc[v] /\ job'[v] = job[v]
                                          /\ seen'[v] = seen[v] /\ result'[v] = result[v]
<1> DEFINE Stays(w) == \A v \in Workers \ {w} : /\ pc'[v] = pc[v] /\ job'[v] = job[v]
                                                /\ seen'[v] = seen[v] /\ result'[v] = result[v]
<1>1. ASSUME NEW w \in Workers, Step(w) PROVE Stays(w)
  BY <1>1 DEF TypeOK, Step, DropSelf, Claim, Check, Lock, Run, Unlock, Notify,
     Remember, Release, Ack, Nack, Leave, EmptySlot, StoreError, GoTo, Keep
<1>2. ASSUME NEW w \in Workers, Crash(w) PROVE Stays(w)
  BY <1>2 DEF TypeOK, Crash, Leave, EmptySlot, GoTo
<1>3. ASSUME NEW w \in Workers, NEW m \in Messages, Deliver(w, m) PROVE Stays(w)
  BY <1>3 DEF TypeOK, Deliver, GoTo
<1>4. ASSUME \/ \E w \in Workers : Stall(w)
             \/ \E m \in Messages : DeadLetter(m)
             \/ \E p \in Pulls : LockExpires(p)
             \/ \E d \in Deliveries : ClaimExpires(d)
             \/ UNCHANGED vars
      PROVE  UNCHANGED <<pc, job, seen, result>>
  BY <1>4 DEF Stall, DeadLetter, LockExpires, ClaimExpires, vars
<1> QED
  BY <1>1, <1>2, <1>3, <1>4 DEF Next, Idle

\* A worker on its way keeps its message and its attempt, or lets both go; to
\* the steps before the job's return it comes only from such a step.
LEMMA OwnStepStays ==
  ASSUME TypeOK, NEW w \in Workers, Step(w) \/ Crash(w)
  PROVE  /\ pc[w] # "idle" /\ attempts' = attempts
         /\ \/ job'[w] = job[w] /\ seen'[w] = seen[w]
            \/ job'[w] = None /\ pc'[w] = "idle"
         /\ pc'[w] \in BeforeRun => pc[w] \in BeforeRun
<1>1. CASE Crash(w)
  BY <1>1 DEF TypeOK, Crash, Leave, EmptySlot, GoTo, BeforeRun
<1>2. CASE Ack(w) \/ Nack(w)
  BY <1>2 DEF TypeOK, Ack, Nack, Leave, EmptySlot, GoTo, BeforeRun
<1>3. CASE DropSelf(w) \/ Claim(w) \/ Check(w) \/ Lock(w) \/ Run(w)
  BY <1>3 DEF TypeOK, DropSelf, Claim, Check, Lock, Run, StoreError, GoTo, Keep, BeforeRun
<1>4. CASE Unlock(w) \/ Notify(w) \/ Remember(w) \/ Release(w)
  BY <1>4 DEF TypeOK, Unlock, AfterRun, Notify, Remember, Release, StoreError, GoTo, Keep, BeforeRun
<1> QED
  BY <1>1, <1>2, <1>3, <1>4 DEF Step

LEMMA DeliverCounts ==
  ASSUME TypeOK, NEW w \in Workers, NEW m \in Messages, Deliver(w, m)
  PROVE  /\ job[w] = None /\ job'[w] = m /\ seen'[w] = attempts[m] + 1
         /\ queue[m] = "waiting" /\ queue' = queue
         /\ attempts' = [attempts EXCEPT ![m] = attempts[m] + 1]
  BY DEF TypeOK, Deliver, GoTo

LEMMA CopiesStep == ASSUME TypeOK, CopiesDiffer, [Next]_vars PROVE CopiesDiffer'
<1> USE GuardNames
<1>0. TypeOK'
  BY NextTypeOK
<1>1. CASE UNCHANGED <<pc, job, seen, result>>
  <2>1. attempts' = attempts
    BY <1>1, DeliverCounts DEF TypeOK, Next, Step, DropSelf, Claim, Check, Lock, Run, Unlock, Notify, Remember,
       Release, Ack, Nack, Leave, Keep, Crash, Stall, DeadLetter, LockExpires, ClaimExpires, Idle, vars
  <2> QED
    BY <1>1, <2>1 DEF CopiesDiffer
<1>2. ASSUME NEW w \in Workers, Step(w) \/ Crash(w),
             \A v \in Workers \ {w} : job'[v] = job[v] /\ seen'[v] = seen[v]
      PROVE  CopiesDiffer'
  BY <1>2, OwnStepStays DEF CopiesDiffer
<1>3. ASSUME NEW w \in Workers, NEW m \in Messages, Deliver(w, m),
             \A v \in Workers \ {w} : job'[v] = job[v] /\ seen'[v] = seen[v]
      PROVE  CopiesDiffer'
  <2>1. attempts[m] \in Nat /\ \A v \in Workers : job[v] = m => seen[v] < attempts[m] + 1 /\ seen[v] \in Nat
    BY DEF CopiesDiffer, TypeOK
  <2>2. ASSUME NEW v \in Workers, job'[v] # None
        PROVE  seen'[v] > 0 /\ seen'[v] <= attempts'[job'[v]]
    <3>1. CASE v = w
      BY <1>3, <2>1, <3>1, DeliverCounts DEF TypeOK
    <3>2. CASE v # w
      BY <1>3, <2>1, <2>2, <3>2, DeliverCounts DEF TypeOK, CopiesDiffer
    <3> QED BY <3>1, <3>2
  <2>3. ASSUME NEW v \in Workers, NEW u \in Workers, job'[v] # None, u # v, job'[u] = job'[v]
        PROVE  seen'[u] # seen'[v]
    BY <1>3, <2>1, <2>3, DeliverCounts DEF CopiesDiffer
  <2> QED
    BY <2>2, <2>3 DEF CopiesDiffer
<1> QED
  BY <1>1, <1>2, <1>3, OthersStay

LEMMA DeadStep == ASSUME TypeOK, DeadAreGone, [Next]_vars PROVE DeadAreGone'
<1> SUFFICES ASSUME NEW m \in Messages, queue'[m] = "dead", NEW w \in Workers, job'[w] = m
             PROVE  FALSE
  BY DEF DeadAreGone, InFlight
<1> USE GuardNames
<1>1. CASE queue[m] = "dead"
  <2>1. job[w] # m
    BY <1>1 DEF DeadAreGone, InFlight
  <2>2. Deliver(w, m)
    <3>1. PICK v \in Workers :
             /\ Step(v) \/ Crash(v) \/ \E n \in Messages : Deliver(v, n)
             /\ \A u \in Workers \ {v} : job'[u] = job[u]
      BY <2>1, OthersStay
    <3>2. v = w
      BY <2>1, <3>1
    <3>3. ~(Step(w) \/ Crash(w))
      BY <2>1, OwnStepStays
    <3> QED BY <3>1, <3>2, <3>3, DeliverCounts
  <2> QED BY <1>1, <2>2, DeliverCounts
<1>2. CASE queue[m] # "dead"
  <2>1. DeadLetter(m)
    <3>1. ASSUME NEW v \in Workers, Ack(v) PROVE FALSE
      BY <1>2, <3>1 DEF Ack, TypeOK
    <3>2. UNCHANGED queue \/ (\E v \in Workers : Ack(v)) \/ \E n \in Messages : DeadLetter(n)
      BY DEF Next, Step, DropSelf, Claim, Check, Lock, Run, Unlock, Notify, Remember, Release,
         Nack, Keep, Leave, Crash, Stall, Deliver, LockExpires, ClaimExpires, Idle, vars
    <3>3. PICK n \in Messages : DeadLetter(n)
      BY <1>2, <3>1, <3>2
    <3>4. n = m
      BY <1>2, <3>3 DEF DeadLetter, TypeOK
    <3> QED BY <3>3, <3>4
  <2> QED BY <2>1 DEF DeadLetter, InFlight
<1> QED BY <1>1, <1>2

\* What may be counted of a message is a finite set, and it only grows.
LEMMA SpentFinite ==
  ASSUME MaxDeliveries \in Nat, NEW m
  PROVE  /\ IsFiniteSet(Spent(m)) /\ Cardinality(Spent(m)) \in Nat
         /\ MaxDeliveries > 0 => Cardinality(Spent(m)) < MaxDeliveries
<1>1. MaxDeliveries - 1 \in Int /\ 1 \in Int
  OBVIOUS
<1>2. /\ IsFiniteSet(1 .. (MaxDeliveries - 1))
      /\ Cardinality(1 .. (MaxDeliveries - 1)) = IF 1 > MaxDeliveries - 1 THEN 0 ELSE MaxDeliveries - 1 - 1 + 1
  BY <1>1, FS_Interval
<1>3. Spent(m) \in SUBSET (1 .. (MaxDeliveries - 1))
  BY DEF Spent
<1>4. IsFiniteSet(Spent(m)) /\ Cardinality(Spent(m)) <= Cardinality(1 .. (MaxDeliveries - 1))
  BY <1>2, <1>3, FS_Subset
<1>5. Cardinality(Spent(m)) \in Nat
  BY <1>4, FS_CardinalityType
<1> QED BY <1>2, <1>4, <1>5

LEMMA SpentGrows ==
  ASSUME TypeOK, [Next]_vars, NEW m \in Messages
  PROVE  Spent(m) \subseteq Spent(m)'
<1> USE GuardNames
<1> SUFFICES ASSUME NEW n \in Spent(m) PROVE n \in Spent(m)'
  OBVIOUS
<1>1. n \in 1 .. (MaxDeliveries - 1) /\ n <= attempts[m] /\ attempts[m] \in Nat /\ n \in Int
  BY DEF Spent, TypeOK
<1>2. n <= attempts'[m]
  <2>1. UNCHANGED attempts \/ \E w \in Workers, k \in Messages : Deliver(w, k)
    BY DEF Next, Step, DropSelf, Claim, Check, Lock, Run, Unlock, Notify, Remember, Release, Ack,
       Nack, Keep, Leave, Crash, Stall, DeadLetter, LockExpires, ClaimExpires, Idle, vars
  <2> QED BY <1>1, <2>1, DeliverCounts DEF TypeOK
<1>3. ASSUME NEW v \in Workers, job'[v] = m, seen'[v] = n, pc'[v] \in BeforeRun PROVE FALSE
  <2>0. ~(job[v] = m /\ seen[v] = n /\ pc[v] \in BeforeRun)
    BY DEF Spent
  <2>1. PICK w \in Workers :
           /\ Step(w) \/ Crash(w) \/ \E k \in Messages : Deliver(w, k)
           /\ \A u \in Workers \ {w} : pc'[u] = pc[u] /\ job'[u] = job[u] /\ seen'[u] = seen[u]
    BY <1>3, <2>0, OthersStay
  <2>2. v = w
    BY <1>3, <2>0, <2>1
  <2>3. CASE Step(w) \/ Crash(w)
    BY <1>3, <2>0, <2>2, <2>3, OwnStepStays
  <2>4. ASSUME NEW k \in Messages, Deliver(w, k) PROVE FALSE
    BY <1>1, <1>3, <2>2, <2>4, DeliverCounts
  <2> QED BY <2>1, <2>3, <2>4
<1> QED BY <1>1, <1>2, <1>3 DEF Spent

\* Who is on the way to an acknowledgement goes on, acknowledges or dies.
LEMMA AnsweringStep ==
  ASSUME TypeOK, DeadAreGone, [Next]_vars, NEW m \in Messages, NEW w \in Workers,
         job[w] = m, Answering(w)
  PROVE  (job'[w] = m /\ Answering(w)') \/ queue'[m] = "acked" \/ m \in crashed'
<1> USE GuardNames
<1>1. CASE Step(w)
  <2>1. Unlock(w) \/ Notify(w) \/ Remember(w) \/ Ack(w)
    BY <1>1 DEF Answering, Step, DropSelf, Claim, Check, Lock, Run, Release, Nack
  <2>2. CASE Unlock(w)
    BY <2>2 DEF Unlock, Answering, AfterRun, StoreError, GoTo, Keep, TypeOK
  <2>3. CASE Notify(w) \/ Remember(w)
    BY <2>3 DEF Notify, Remember, Answering, StoreError, GoTo, Keep, TypeOK
  <2>4. CASE Ack(w)
    <3>1. queue[m] \in {"waiting", "acked"}
      BY DEF DeadAreGone, InFlight, TypeOK
    <3> QED BY <2>4, <3>1 DEF Ack, TypeOK
  <2> QED BY <2>1, <2>2, <2>3, <2>4
<1>2. CASE Crash(w)
  BY <1>2 DEF Crash
<1>3. CASE pc'[w] = pc[w] /\ job'[w] = job[w] /\ seen'[w] = seen[w] /\ result'[w] = result[w]
  BY <1>3 DEF Answering, GivesUp
<1>4. ASSUME NEW n \in Messages, Deliver(w, n) PROVE FALSE
  BY <1>4, DeliverCounts
<1> QED BY <1>1, <1>2, <1>3, <1>4, OthersStay

\* A job that fails is one more failure and one more attempt spent, or the
\* attempt that gives up.
LEMMA RunCounts ==
  ASSUME TypeOK, CopiesDiffer, MaxDeliveries \in Nat, MaxDeliveries > 0, [Next]_vars,
         NEW w \in Workers, Run(w), NEW m \in Messages, job[w] = m,
         failures[DeliveryOf[m]] <= Cardinality(Spent(m))
  PROVE  \/ job'[w] = m /\ Answering(w)'
         \/ failures'[DeliveryOf[m]] <= Cardinality(Spent(m)')
<1> USE GuardNames, GuardConstants
<1>1. /\ pc[w] = "run" /\ pc'[w] = "unlock" /\ job' = job /\ seen' = seen /\ attempts' = attempts
      /\ result'[w] \in {"ok", "error", "permanent"}
      /\ \A v \in Workers \ {w} : pc'[v] = pc[v]
  BY DEF Run, GoTo, Keep, TypeOK
<1>2. CASE result'[w] \in {"ok", "permanent"} \/ seen[w] >= MaxDeliveries
  BY <1>1, <1>2 DEF Answering, GivesUp
<1>3. CASE result'[w] = "error" /\ ~(seen[w] >= MaxDeliveries)
  <2>1. failures'[DeliveryOf[m]] = failures[DeliveryOf[m]] + 1
    BY <1>3 DEF Run, TypeOK, delivery
  <2>2. seen[w] \in Nat /\ seen[w] > 0 /\ seen[w] <= attempts[m] /\ m # None
    BY DEF CopiesDiffer, TypeOK
  <2>3. seen[w] \notin Spent(m)
    BY <1>1 DEF Spent, BeforeRun
  <2>4. seen[w] \in Spent(m)'
    <3>1. seen[w] \in 1 .. (MaxDeliveries - 1)
      BY <1>3, <2>2
    <3>2. ASSUME NEW v \in Workers, job'[v] = m, seen'[v] = seen[w], pc'[v] \in BeforeRun PROVE FALSE
      <4>1. v = w
        BY <1>1, <2>2, <3>2 DEF CopiesDiffer
      <4> QED BY <1>1, <3>2, <4>1 DEF BeforeRun
    <3> QED BY <1>1, <2>2, <3>1, <3>2 DEF Spent
  <2>5. Spent(m) \cup {seen[w]} \in SUBSET Spent(m)'
    BY <2>4, SpentGrows
  <2>6. Cardinality(Spent(m) \cup {seen[w]}) = Cardinality(Spent(m)) + 1
    BY <2>3, SpentFinite, FS_AddElement
  <2>7. IsFiniteSet(Spent(m)') /\ Cardinality(Spent(m)') \in Nat
    <3>1. Spent(m)' \in SUBSET (1 .. (MaxDeliveries - 1))
      BY DEF Spent
    <3>2. IsFiniteSet(1 .. (MaxDeliveries - 1))
      BY FS_Interval
    <3>3. IsFiniteSet(Spent(m)')
      BY <3>1, <3>2, FS_Subset
    <3> QED BY <3>3, FS_CardinalityType
  <2>8. Cardinality(Spent(m)) + 1 <= Cardinality(Spent(m)')
    BY <2>5, <2>6, <2>7, FS_Subset
  <2>9. failures[DeliveryOf[m]] \in Nat /\ Cardinality(Spent(m)) \in Nat
    BY SpentFinite DEF TypeOK
  <2> QED BY <2>1, <2>7, <2>8, <2>9
<1> QED BY <1>1, <1>2, <1>3

LEMMA FailuresStep ==
  ASSUME SilenceInv, MaxDeliveries > 0, [Next]_vars
  PROVE  FailuresCounted'
<1> USE GuardNames, GuardConstants
<1> SUFFICES ASSUME NEW m \in Messages, m \notin crashed', queue'[m] # "acked"
             PROVE  \/ \E w \in Workers : job'[w] = m /\ Answering(w)'
                    \/ failures'[DeliveryOf[m]] <= Cardinality(Spent(m)')
  BY DEF FailuresCounted
<1>1. m \notin crashed /\ queue[m] # "acked"
  <2>1. crashed \subseteq crashed'
    BY DEF Next, Step, DropSelf, Claim, Check, Lock, Run, Unlock, Notify, Remember, Release, Ack,
       Nack, Keep, Leave, Crash, Stall, Deliver, DeadLetter, LockExpires, ClaimExpires, Idle, vars, history
  <2>2. queue[m] = "acked" => queue'[m] = "acked"
    <3>1. ASSUME NEW v \in Workers, Ack(v) PROVE queue[m] = "acked" => queue'[m] = "acked"
      BY <3>1 DEF Ack, SilenceInv, TypeOK
    <3>2. ASSUME NEW n \in Messages, DeadLetter(n) PROVE queue[m] = "acked" => queue'[m] = "acked"
      BY <3>2 DEF DeadLetter, SilenceInv, TypeOK
    <3>3. UNCHANGED queue \/ (\E v \in Workers : Ack(v)) \/ \E n \in Messages : DeadLetter(n)
      BY DEF Next, Step, DropSelf, Claim, Check, Lock, Run, Unlock, Notify, Remember, Release,
         Nack, Keep, Leave, Crash, Stall, Deliver, LockExpires, ClaimExpires, Idle, vars
    <3> QED BY <3>1, <3>2, <3>3
  <2> QED BY <2>1, <2>2
<1>2. ASSUME NEW w \in Workers, job[w] = m, Answering(w)
      PROVE  job'[w] = m /\ Answering(w)'
  BY <1>2, AnsweringStep DEF SilenceInv
<1>3. ASSUME failures[DeliveryOf[m]] <= Cardinality(Spent(m))
      PROVE  \/ \E w \in Workers : job'[w] = m /\ Answering(w)'
             \/ failures'[DeliveryOf[m]] <= Cardinality(Spent(m)')
  <2>1. ASSUME NEW w \in Workers, Run(w), job[w] = m PROVE <1>3!2
    BY <1>3, <2>1, RunCounts DEF SilenceInv
  <2>2. ASSUME UNCHANGED failures \/ \E w \in Workers : Run(w) /\ job[w] # m PROVE <1>3!2
    <3>1. failures'[DeliveryOf[m]] = failures[DeliveryOf[m]]
      <4>1. ASSUME NEW w \in Workers, Run(w), job[w] # m
            PROVE  failures'[DeliveryOf[m]] = failures[DeliveryOf[m]]
        <5>1. job[w] \in Messages
          BY <4>1, BusyTypes DEF SilenceInv, Run
        <5>2. delivery(w) # DeliveryOf[m]
          BY <4>1, <5>1 DEF SilenceInv, OneMessageEach, delivery
        <5> QED BY <4>1, <5>2 DEF Run, SilenceInv, TypeOK
      <4> QED BY <2>2, <4>1
    <3>2. Spent(m) \in SUBSET Spent(m)'
      BY SpentGrows DEF SilenceInv
    <3>3. IsFiniteSet(Spent(m)') /\ Spent(m)' \in SUBSET (1 .. (MaxDeliveries - 1))
      <4>1. Spent(m)' \in SUBSET (1 .. (MaxDeliveries - 1))
        BY DEF Spent
      <4>2. IsFiniteSet(1 .. (MaxDeliveries - 1))
        BY FS_Interval
      <4> QED BY <4>1, <4>2, FS_Subset
    <3>4. Cardinality(Spent(m)) <= Cardinality(Spent(m)') /\ Cardinality(Spent(m)') \in Nat
      BY <3>2, <3>3, FS_Subset, FS_CardinalityType
    <3>5. failures[DeliveryOf[m]] \in Nat /\ Cardinality(Spent(m)) \in Nat
      BY SpentFinite DEF SilenceInv, TypeOK
    <3> QED BY <1>3, <3>1, <3>4, <3>5
  <2>3. UNCHANGED failures \/ \E w \in Workers : Run(w)
    BY DEF Next, Step, DropSelf, Claim, Check, Lock, Unlock, Notify, Remember, Release, Ack,
       Nack, Keep, Leave, Crash, Stall, Deliver, DeadLetter, LockExpires, ClaimExpires, Idle, vars, history
  <2> QED BY <2>1, <2>2, <2>3
<1> QED BY <1>1, <1>2, <1>3 DEF SilenceInv, FailuresCounted

\* A message whose worker never died ends in the dead letter topic only if it
\* failed fewer times than it takes to give up: failing alone is always told
\* before the attempts run out, for any number of workers, copies, conflicts
\* and lost answers, as long as each delivery is one message.
THEOREM FailingIsTold == OneMessageEach /\ Spec => []DeadMeansSilence
<1> USE GuardNames, GuardConstants
<1>1. Init /\ OneMessageEach => SilenceInv
  <2> SUFFICES ASSUME Init, OneMessageEach PROVE SilenceInv
    OBVIOUS
  <2>1. \A m \in Messages : failures[DeliveryOf[m]] = 0 /\ Cardinality(Spent(m)) \in Nat
    BY SpentFinite DEF Init
  <2>2. FailuresCounted
    BY <2>1 DEF FailuresCounted
  <2>3. CopiesDiffer /\ DeadAreGone
    BY DEF Init, CopiesDiffer, DeadAreGone
  <2> QED BY <2>2, <2>3, InitTypeOK DEF SilenceInv
<1>2. SilenceInv /\ [Next]_vars => SilenceInv'
  <2> SUFFICES ASSUME SilenceInv, [Next]_vars PROVE SilenceInv'
    OBVIOUS
  <2>1. TypeOK' /\ CopiesDiffer' /\ DeadAreGone'
    BY NextTypeOK, CopiesStep, DeadStep DEF SilenceInv
  <2>2. OneMessageEach'
    BY DEF SilenceInv, OneMessageEach
  <2>3. MaxDeliveries > 0 => FailuresCounted'
    BY FailuresStep
  <2> QED BY <2>1, <2>2, <2>3 DEF SilenceInv
<1>3. SilenceInv => DeadMeansSilence
  <2> SUFFICES ASSUME SilenceInv, NEW m \in Messages, queue[m] = "dead", m \notin crashed,
                      MaxDeliveries # 0
               PROVE  failures[DeliveryOf[m]] < MaxDeliveries
    BY DEF DeadMeansSilence
  <2>1. failures[DeliveryOf[m]] <= Cardinality(Spent(m))
    BY DEF SilenceInv, FailuresCounted, DeadAreGone, InFlight
  <2>2. failures[DeliveryOf[m]] \in Nat
    BY DEF SilenceInv, TypeOK
  <2> QED BY <2>1, <2>2, SpentFinite
<1> QED
  BY <1>1, <1>2, <1>3, PTL DEF Spec

=============================================================================
