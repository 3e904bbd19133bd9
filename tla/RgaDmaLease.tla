---------------------------- MODULE RgaDmaLease ----------------------------
(***************************************************************************)
(* What the asynchronous converter promises about the buffers it lends to  *)
(* the RGA: the pair of an input and an output stays lent until the        *)
(* hardware has had its last word on the job, and an output is delivered   *)
(* at most once, in input order, when its job is known to have succeeded.  *)
(* Nothing is promised about when: a job that never ends keeps its buffers *)
(* for ever.                                                               *)
(***************************************************************************)
EXTENDS Naturals, Sequences

CONSTANT Bufs            \* the input buffers, natural numbers in stream order

VARIABLES
  job,    \* what the hardware does with a buffer: none, busy, done, error
  lent,   \* the buffers the element holds
  shown   \* the outputs delivered downstream

leaseVars == <<job, lent, shown>>

Init == /\ job = [n \in Bufs |-> "none"]
        /\ lent = {}
        /\ shown = <<>>

\* The element takes a buffer it never held.
Lend(n) == /\ n \notin lent /\ job[n] = "none"
           /\ lent' = lent \cup {n}
           /\ UNCHANGED <<job, shown>>

\* The hardware starts on a lent pair, and ends.
Begin(n) == /\ n \in lent /\ job[n] = "none"
            /\ job' = [job EXCEPT ![n] = "busy"]
            /\ UNCHANGED <<lent, shown>>

End(n, s) == /\ job[n] = "busy" /\ s \in {"done", "error"}
             /\ job' = [job EXCEPT ![n] = s]
             /\ UNCHANGED <<lent, shown>>

\* Buffers go back to their pools.
Released(ns) == /\ \A n \in ns : job[n] # "busy"
                /\ lent' = lent \ ns

Release(ns) == Released(ns) /\ UNCHANGED <<job, shown>>

Deliver(n) == /\ n \in lent /\ job[n] = "done"
              /\ \A i \in 1..Len(shown) : shown[i] < n
              /\ shown' = Append(shown, n)
              /\ \E ns \in SUBSET lent : Released(ns)
              /\ UNCHANGED job

Next == \/ \E n \in Bufs : \/ Lend(n) \/ Begin(n) \/ Deliver(n)
                           \/ \E s \in {"done", "error"} : End(n, s)
        \/ \E ns \in SUBSET lent : Release(ns)

Spec == Init /\ [][Next]_leaseVars
=============================================================================
