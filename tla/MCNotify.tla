------------------------------ MODULE MCNotify ------------------------------
(***************************************************************************)
(* Values for the constants of Notify.                                     *)
(***************************************************************************)
EXTENDS Notify

\* Every event is critical.
AllCritical == [k \in Keys |-> 2]

Loud == [state |-> "enabled", onResolve |-> TRUE, min |-> 2]
AlertsOnly == [state |-> "enabled", onResolve |-> FALSE, min |-> 1]
Muted == [state |-> "disabled", onResolve |-> TRUE, min |-> 1]
JustLoud == {Loud}
LoudOrMuted == {Loud, Muted}
AllSettings == {Loud, AlertsOnly, Muted}
=============================================================================
