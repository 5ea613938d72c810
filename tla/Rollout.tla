------------------------------- MODULE Rollout -------------------------------
(***************************************************************************)
(* What a fleet promises its hosts, without saying how: an operator        *)
(* publishes configurations one after the other, and a host moves, when it *)
(* pleases, to a configuration that was published.  It never runs anything *)
(* else, and inside one fleet it never moves back.                         *)
(* FleetSync implements this specification.                                *)
(***************************************************************************)
EXTENDS Integers, Sequences

CONSTANTS
    Agents,     \* the hosts
    Fleets,     \* the fleets
    Configs,    \* the configurations an operator may publish
    None        \* "nothing yet"

VARIABLES
    published,  \* published[f]: the configurations fleet f published, in order
    origin,     \* origin[a]: which publication a host holds, [fleet, gen]
    config      \* config[a]: the configuration on the host

vars == <<published, origin, config>>

NoOrigin == [fleet |-> None, gen |-> 0]

Init ==
    /\ published = [f \in Fleets |-> <<>>]
    /\ origin = [a \in Agents |-> NoOrigin]
    /\ config = [a \in Agents |-> None]

Publish(f, c) ==
    /\ published' = [published EXCEPT ![f] = Append(@, c)]
    /\ UNCHANGED <<origin, config>>

\* The host takes publication g of fleet f; it may skip publications.
Adopt(a, f, g) ==
    /\ g \in 1 .. Len(published[f])
    /\ origin[a].fleet = f => origin[a].gen =< g
    /\ origin' = [origin EXCEPT ![a] = [fleet |-> f, gen |-> g]]
    /\ config' = [config EXCEPT ![a] = published[f][g]]
    /\ UNCHANGED published

Next ==
    \/ \E f \in Fleets, c \in Configs : Publish(f, c)
    \/ \E a \in Agents, f \in Fleets :
           \E g \in 1 .. Len(published[f]) : Adopt(a, f, g)

Spec == Init /\ [][Next]_vars
=============================================================================
