------------------------------ MODULE MCSessions ------------------------------
(***************************************************************************)
(* Values for the constants of Sessions.                                   *)
(***************************************************************************)
EXTENDS Sessions, TLC

CONSTANTS a, b, a1, a2, b1

\* Two tabs with one call each, and one tab with two calls.
OneEach == (a1 :> a) @@ (b1 :> b)
OneTab == (a1 :> a) @@ (a2 :> a)
===============================================================================
