--------------------------- MODULE MCFaultBridge ---------------------------
(* Instances of FaultBridge: sessions and queues for TLC. *)
EXTENDS FaultBridge, TLC

CONSTANTS m1, m2, m3, b1, f1, f2, f3, q1, q2, q3

\* This element's sessions and f1's, another encoder's, are of queue q1.
OneQueue == (m1 :> q1) @@ (m2 :> q1) @@ (m3 :> q1) @@ (b1 :> q1) @@ (f1 :> q1)
TwoQueues == (m1 :> q1) @@ (m2 :> q1) @@ (f1 :> q1) @@ (f2 :> q2)
ThreeQueues == (m1 :> q1) @@ (f2 :> q2) @@ (f3 :> q3)

OneQueueCores == q1 :> {"c1", "c2"}
TwoQueuesCores == (q1 :> {"c1", "c2"}) @@ (q2 :> {"d1"})
ThreeQueuesCores == (q1 :> {"c1"}) @@ (q2 :> {"d1"}) @@ (q3 :> {"e1"})
=============================================================================
