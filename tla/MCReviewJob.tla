---------------------------- MODULE MCReviewJob ----------------------------
(* ReviewJob on a small instance: two pull requests of one repository.     *)
EXTENDS ReviewJob, TLC

CONSTANTS p1, p2

PullSymmetry == Permutations(Pulls)

\* A request that is settled or dead is over: nothing looks at it again.
Done(r) == requests[r].state \in {"settled", "dead"}
View ==
  <<[r \in Requests |-> IF Done(r) THEN [state |-> "settled"] ELSE requests[r]],
    forge, store, spent, unchecked, jobs, hours, faults, past>>
=============================================================================
