---------------------------- MODULE AtLeastOnce ----------------------------
(***************************************************************************)
(* What the worker promises the people on a pull request, whatever the     *)
(* queue, the store and the workers do meanwhile: a message leaves the     *)
(* queue for good only after its delivery was answered, by a finished job  *)
(* or by a notice of its failure, or else it is in the dead letter topic   *)
(* where an operator finds it.  The one exception is a job that failed and *)
(* whose notice had nobody to reach, or did not reach anybody: then only   *)
(* the log says so.                                                        *)
(***************************************************************************)
CONSTANTS
  Messages,     \* queue messages
  Deliveries,   \* webhook deliveries
  DeliveryOf,   \* the delivery a message carries
  Exempt,       \* messages that need no answer
  Unreachable,  \* deliveries about which nobody can be told
  NoticesFail   \* whether a notice may fail to reach its pull request

VARIABLES
  queue,        \* per message: "waiting", "acked" or "dead"
  answered,     \* the deliveries that were answered
  failed,       \* the deliveries whose job failed at least once
  lost          \* the failed deliveries nobody was told about

vars == <<queue, answered, failed, lost>>

Init ==
  /\ queue = [m \in Messages |-> "waiting"]
  /\ answered = {} /\ failed = {} /\ lost = {}

\* A job finishes or its failure is reported; an answer may be repeated.
Answer(d) ==
  /\ answered' = answered \cup {d}
  /\ UNCHANGED <<queue, failed, lost>>

Fail(d) ==
  /\ failed' = failed \cup {d}
  /\ UNCHANGED <<queue, answered, lost>>

Lose(d) ==
  /\ d \in failed
  /\ d \in Unreachable \/ NoticesFail
  /\ lost' = lost \cup {d}
  /\ UNCHANGED <<queue, answered, failed>>

Ack(m) ==
  /\ queue[m] = "waiting"
  /\ m \in Exempt \/ DeliveryOf[m] \in answered \cup lost
  /\ queue' = [queue EXCEPT ![m] = "acked"]
  /\ UNCHANGED <<answered, failed, lost>>

Bury(m) ==
  /\ queue[m] = "waiting"
  /\ queue' = [queue EXCEPT ![m] = "dead"]
  /\ UNCHANGED <<answered, failed, lost>>

Next ==
  \/ \E d \in Deliveries : Answer(d) \/ Fail(d) \/ Lose(d)
  \/ \E m \in Messages : Ack(m) \/ Bury(m)

Spec == Init /\ [][Next]_vars
=============================================================================
