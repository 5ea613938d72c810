-------------------------------- MODULE Wiring --------------------------------
(***************************************************************************)
(* The wiring graph of one fleet, as the handlers of api/v1/components.py, *)
(* routes.py and transform_stages.py, services/wiring.py and the Flow      *)
(* canvas (FleetTopologyCanvas.tsx, lib/fleetTopology.ts) read it.         *)
(*                                                                         *)
(* refs[n] is every id the row of n names: the inputs of a sink or a remap *)
(* stage; the source_ids and the sinks of all branches of a route.  The UI *)
(* puts no id into both parts of a route's row, so one set holds both (the *)
(* handlers would take any id in either part).  A source names nothing.    *)
(***************************************************************************)
EXTENDS FiniteSets

CONSTANTS Sources, Stages, Routes, Sinks

Upstream == Sources \cup Stages
Nodes == Upstream \cup Routes \cup Sinks

ASSUME NodeKindsAreDisjoint ==
    /\ Sources \cap Stages = {} /\ Upstream \cap Routes = {}
    /\ Upstream \cap Sinks = {} /\ Routes \cap Sinks = {}

\* What the row of n may name, whether it exists or not.
Nameable(n) == CASE n \in Sources -> {}
                 [] n \in Stages -> Upstream
                 [] n \in Routes -> Upstream \cup Sinks
                 [] OTHER -> Upstream

\* The check of a create or an update against the tables: a stage must not
\* read itself, nothing may name what does not exist.
Valid(n, named, alive) ==
    /\ named \subseteq Nameable(n) \cap alive
    /\ n \in Stages => n \notin named

\* Who would dangle if x were deleted.
References(x, alive, refs) == {n \in alive \ {x} : x \in refs[n]}

\* A set of stages each of which reads one of them.
Loops(S, refs) == S # {} /\ \A n \in S : refs[n] \cap S # {}
HasCycle(refs) == \E S \in SUBSET Stages : Loops(S, refs)

\* target is src or one of what it reads, directly or through stages: it is in
\* every set that holds src and is closed under the inputs of stages.
Closed(S, refs) == \A n \in S \cap Stages : refs[n] \subseteq S
Reaches(src, target, refs) ==
    \A S \in SUBSET Nodes : src \in S /\ Closed(S, refs) => target \in S
===============================================================================
