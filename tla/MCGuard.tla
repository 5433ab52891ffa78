------------------------------ MODULE MCGuard ------------------------------
(* Guard on a small instance: two workers, two deliveries for one pull     *)
(* request and one message that kibitz caused itself.                      *)
EXTENDS Guard, TLC

CONSTANTS w1, w2, m1, m2, m3, d1, d2, p1

MCDeliveryOf == [m \in Messages |-> IF m = m1 THEN d1 ELSE d2]
MCPullOf == (d1 :> p1) @@ (d2 :> p1)

\* The workers are alike, and so are the two messages with their deliveries.
Twins == {(m1 :> m1) @@ (m2 :> m2) @@ (d1 :> d1) @@ (d2 :> d2),
          (m1 :> m2) @@ (m2 :> m1) @@ (d1 :> d2) @@ (d2 :> d1)}
Symmetry == {f @@ g : f \in Permutations(Workers), g \in Twins}
=============================================================================
