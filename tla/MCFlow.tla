-------------------------------- MODULE MCFlow --------------------------------
(***************************************************************************)
(* Values for the constants of Flow.                                       *)
(***************************************************************************)
EXTENDS Flow, TLC

CONSTANTS pg, qg, p1, p2, q1, a, s, u, r, k

\* Two gestures of one page at a time, or one each of two pages.
OnePage == (p1 :> pg) @@ (p2 :> pg)
Either == Permutations({p1, p2})
TwoPages == (p1 :> pg) @@ (q1 :> qg)

\* a feeds the sink k, directly and through the remap s; u is not there yet.
Pipeline == [n \in Nodes |-> CASE n = s -> {a} [] n = k -> {a, s} [] OTHER -> {}]
\* The remap s feeds the route r; the remap u is loose.
Routed == [n \in Nodes |-> CASE n = r -> {s} [] OTHER -> {}]
===============================================================================
