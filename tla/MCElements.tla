----------------------------- MODULE MCElements -----------------------------
(***************************************************************************)
(* The elements on small instances.  No interleaving of two of them can    *)
(* show what either alone does not, as they share no state: a behaviour    *)
(* picks one in its first state and takes that one's steps, and the run    *)
(* explores their union, not their product.                                *)
(***************************************************************************)
EXTENDS Elements

\* The values of the constants that the configuration file cannot write.
MCSizes == {<<4, 6>>}
MCCustoms == {[x |-> 2, y |-> 0, w |-> 2, h |-> 2], [x |-> 1, y |-> 0, w |-> 2, h |-> 4]}
Upstream == {<<"upstream", i>> : i \in 1..3}
Planes == << <<<<"a">>>>, <<<<"a">>, <<"b">>, <<"a">>>>, <<<<"b">>, <<"b">>, <<"b">>>> >>
MCObjectsOf == [m \in Upstream |-> Planes[m[2]]]
MCPlanesOf == [f1 |-> <<1, 1>>, f2 |-> <<1, 2>>]

ASSUME Mem!ObjectsAssumption

VARIABLE part                                               \* the one that runs

compVars == <<size, layout, custom, pads, current, comp, dest, inputs, rects, pool, drawn,
              locks, releasing, flushed>>
memVars == <<table, handle, live, fbs, cached, list, up, last>>
srcVars == <<shown, turned, files, opened, fd, running, names, fds, seen, pc, sync, fb, hs,
             plane, mems, asked, out>>
vars == <<part, compVars, memVars, srcVars>>

-----------------------------------------------------------------------------
\* The parts that do not run stay in one of their initial states.
Start ==
  /\ part \in {"compositor", "memory", "source"}
  /\ Comp!Init /\ (part # "compositor" => size = <<4, 6>> /\ custom[0].x = 1 /\ custom[1].x = 1)
  /\ Mem!Init
  /\ Src!Init /\ (part # "source" => shown = "f1")

Compositor == /\ part = "compositor" /\ Comp!Next
              /\ UNCHANGED <<part, memVars, srcVars>>
Memory == /\ part = "memory" /\ Mem!Next
          /\ UNCHANGED <<part, compVars, srcVars>>
Source == /\ part = "source" /\ Src!Next
          /\ UNCHANGED <<part, compVars, memVars>>

Next == Compositor \/ Memory \/ Source

Spec == Start /\ [][Next]_vars
=============================================================================
