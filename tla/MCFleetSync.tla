----------------------------- MODULE MCFleetSync -----------------------------
(***************************************************************************)
(* Values for the constants of FleetSync.                                  *)
(***************************************************************************)
EXTENDS FleetSync

CONSTANTS c1, c2, v1, v2

\* Every version shows as itself.
PlainShown == [v \in MaybeVersion |-> v]

\* Any installed version accepts every config.
LenientAccepts == [v \in MaybeVersion |-> IF v = None THEN {} ELSE Configs]
\* Hosts reject c2 under v1, and accept everything under v2.
NewNeedsV2 == [v \in MaybeVersion |-> IF v = None THEN {} ELSE
                                      IF v = v1 THEN Configs \ {c2} ELSE Configs]

AllValid == [c \in Configs |-> "valid"]
=============================================================================
