---------------------------- MODULE Wiring_proofs ----------------------------
(***************************************************************************)
(* What edits do to the circles of the wiring graph.                       *)
(***************************************************************************)
EXTENDS Wiring, TLAPS

\* Rows that name no more stages than before close no circle (unwiring,
\* onEdgesDelete).
THEOREM FewerEdges ==
    ASSUME NEW r, NEW new, ~HasCycle(r),
           \A n \in Stages : new[n] \cap Stages \subseteq r[n]
    PROVE  ~HasCycle(new)
<1>1. SUFFICES ASSUME NEW S \in SUBSET Stages, Loops(S, new) PROVE FALSE
      BY DEF HasCycle
<1>2. Loops(S, r)
      BY <1>1 DEF Loops
<1> QED BY <1>2 DEF HasCycle

\* An edge from s to t closes no circle when s does not read t, directly or
\* through stages: what wouldCycle checks before a drag is enough.
THEOREM AllowedEdge ==
    ASSUME NEW r, NEW new, NEW s, NEW t, ~HasCycle(r), ~Reaches(s, t, r),
           \A n \in Stages \ {t} : new[n] \cap Stages \subseteq r[n],
           new[t] \cap Stages \subseteq r[t] \cup {s}
    PROVE  ~HasCycle(new)
<1>1. SUFFICES ASSUME NEW S \in SUBSET Stages, Loops(S, new) PROVE FALSE
      BY DEF HasCycle
<1>2. PICK R \in SUBSET Nodes : s \in R /\ Closed(R, r) /\ t \notin R
      BY DEF Reaches
<1>3. CASE t \notin S \/ s \notin S
  <2>1. Loops(S, r)
        BY <1>1, <1>3 DEF Loops
  <2> QED BY <2>1 DEF HasCycle
<1>4. CASE t \in S /\ s \in S
  <2> DEFINE T == S \cap R
  <2>1. ASSUME NEW n \in T PROVE r[n] \cap T # {}
    <3>1. n # t /\ r[n] \subseteq R
          BY <1>2 DEF Closed
    <3>2. new[n] \cap S # {} /\ new[n] \cap Stages \subseteq r[n]
          BY <1>1, <3>1 DEF Loops
    <3> QED BY <3>1, <3>2
  <2>2. Loops(T, r)
        BY <1>2, <1>4, <2>1 DEF Loops
  <2>3. T \in SUBSET Stages OBVIOUS
  <2> QED BY <2>2, <2>3 DEF HasCycle
<1> QED BY <1>3, <1>4

\* Inserting a remap n, which reads only s and which nobody reads, into the
\* edge from s to t closes no circle (insertRemap).
THEOREM SplicedEdge ==
    ASSUME NEW r, NEW new, NEW s, NEW t, NEW n, ~HasCycle(r),
           r[n] = {s}, n # s, n # t, s \in r[t],
           \A m \in Stages : n \notin r[m],
           \A m \in Stages \ {t} : new[m] \cap Stages \subseteq r[m],
           new[t] \cap Stages \subseteq (r[t] \ {s}) \cup {n}
    PROVE  ~HasCycle(new)
<1>1. SUFFICES ASSUME NEW S \in SUBSET Stages, Loops(S, new) PROVE FALSE
      BY DEF HasCycle
<1> DEFINE T == S \ {n}
<1>2. n \in S => s \in T
  <2>1. SUFFICES ASSUME n \in S PROVE s \in T OBVIOUS
  <2>2. new[n] \cap S # {} /\ new[n] \cap Stages \subseteq {s}
        BY <1>1, <2>1 DEF Loops
  <2> QED BY <2>2
<1>3. T # {}
      BY <1>1, <1>2 DEF Loops
<1>4. ASSUME NEW m \in T PROVE r[m] \cap T # {}
  <2>1. new[m] \cap S # {}
        BY <1>1 DEF Loops
  <2>2. CASE m # t
        BY <2>1, <2>2
  <2>3. CASE m = t
    <3>1. PICK x \in new[t] \cap S : TRUE
          BY <2>1, <2>3
    <3>2. CASE x = n
          BY <1>2, <2>3, <3>1, <3>2
    <3>3. CASE x # n
          BY <2>3, <3>1, <3>3
    <3> QED BY <3>2, <3>3
  <2> QED BY <2>2, <2>3
<1>5. Loops(T, r)
      BY <1>3, <1>4 DEF Loops
<1> QED BY <1>5 DEF HasCycle
===============================================================================
