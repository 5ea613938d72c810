-------------------------------- MODULE Alerts --------------------------------
(***************************************************************************)
(* What somebody who watches a notification channel may rely on, for every *)
(* event and channel: first the alert, perhaps more than once; then the    *)
(* all-clear, perhaps more than once; never an all-clear without an alert  *)
(* and never an alert after the all-clear.  Notify implements this.        *)
(***************************************************************************)
EXTENDS Integers

CONSTANTS
    Subjects,   \* an event as one channel hears of it
    Transitions \* "opened" and "resolved"

VARIABLE
    got         \* got[<<s, t>>]: how often the message t of subject s arrived

Init == got = [x \in Subjects \X Transitions |-> 0]

Arrives(s, t) == got' = [got EXCEPT ![<<s, t>>] = @ + 1]

Alert(s) == got[<<s, "resolved">>] = 0 /\ Arrives(s, "opened")

AllClear(s) == got[<<s, "opened">>] > 0 /\ Arrives(s, "resolved")

Next == \E s \in Subjects : Alert(s) \/ AllClear(s)

Spec == Init /\ [][Next]_got
=============================================================================
