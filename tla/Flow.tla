--------------------------------- MODULE Flow ---------------------------------
(***************************************************************************)
(* Editing the wiring of one fleet: the Flow pages of its editors          *)
(* (pages/Flow.tsx, FleetTopologyCanvas.tsx, StageEditor, RouteEditor,     *)
(* lib/deleteGuard.ts) and the handlers they call, which check the tables  *)
(* and write them in separate statements without a lock.                   *)
(*                                                                         *)
(* A page works on what its last load read (dataRef) and writes whole      *)
(* rows.  Every gesture is an operation with the writes it sends one after *)
(* the other, computed when it is made, and the load it ends with.         *)
(***************************************************************************)
EXTENDS Wiring, Integers, Sequences

CONSTANTS
    Pages,         \* open Flow pages
    Ops,           \* gestures that can be under way
    PageOf,        \* PageOf[k]: the page that makes operation k
    Existing,      \* the nodes the fleet starts with
    Wired,         \* Wired[n]: what their rows name
    MaxGestures,   \* bound: gestures of one page
    MaxFaults      \* bound: requests and loads that fail

ASSUME ConstantsAssumption ==
    /\ PageOf \in [Ops -> Pages]
    /\ Existing \subseteq Nodes
    /\ Wired \in [Nodes -> SUBSET Nodes]
    /\ \A n \in Nodes : Wired[n] # {} => n \in Existing /\ Valid(n, Wired[n], Existing)
    /\ ~HasCycle(Wired)
    /\ MaxGestures \in Nat /\ MaxFaults \in Nat

VARIABLES
    \* the tables
    alive,      \* nodes that exist
    refs,       \* what their rows name
    born,       \* nodes that exist or have existed
    \* the pages
    nodesAt,    \* nodesAt[p], refsAt[p]: dataRef, what the canvas shows
    refsAt,
    loading,    \* the canvas is a spinner
    failed,     \* the canvas is an error with a Retry button
    \* the operations
    st,         \* st[k]
    kind,       \* kind[k]
    plan,       \* plan[k]: writes to send, the one under way first
    row,        \* row[k]: the row as the handler loaded it
    left,       \* left[k]: tables the load has not read yet
    got,        \* got[k], gotRefs[k]: what it has read
    gotRefs,
    \* bounds
    gestures, faults,
    \* history
    forced,     \* nodes deleted with force
    raced,      \* nodes that came to be named between the check of their delete and its commit
    behind,     \* behind[p]: others have written since what p shows was read
    overtaken,  \* overtaken[k]: others have written since the load of k started
    shaky,      \* shaky[k]: p was behind at the gesture, or others were writing since
    drifted     \* a blind write has replaced a row

tables == <<alive, refs, born>>
canvas == <<nodesAt, refsAt, loading, failed>>
reading == <<left, got, gotRefs>>
bounds == <<gestures, faults>>
operation == <<st, kind, plan, row, reading, overtaken, shaky>>
history == <<forced, raced, behind, drifted>>
vars == <<tables, canvas, operation, bounds, history>>

Stations == {"idle", "open", "sent", "checked", "ok", "used", "bad", "list"}
Kinds == {"connect", "cut", "cuts", "splice", "add", "save", "delete", "load"}
Tables == {Sources \cup Sinks, Stages, Routes}
Put(n, base, put) == [req |-> "put", node |-> n, base |-> base, put |-> put]
Create(n, put) == [req |-> "create", node |-> n, base |-> {}, put |-> put]
Delete(n) == [req |-> "delete", node |-> n, base |-> {}, put |-> {}]
Write == [req : {"put", "create", "delete", "force"}, node : Nodes,
          base : SUBSET Nodes, put : SUBSET Nodes]

Empty == [n \in Nodes |-> {}]
At(k, s) == st[k] = s
Now(k) == Head(plan[k])
Mine(p) == {k \in Ops : PageOf[k] = p}
Acts(p) == gestures[p] < MaxGestures /\ gestures' = [gestures EXCEPT ![p] = @ + 1]
Fault == faults < MaxFaults /\ faults' = faults + 1

Init ==
    /\ alive = Existing /\ refs = Wired /\ born = Existing
    /\ nodesAt = [p \in Pages |-> Existing]
    /\ refsAt = [p \in Pages |-> Wired]
    /\ loading = [p \in Pages |-> FALSE] /\ failed = [p \in Pages |-> FALSE]
    /\ st = [k \in Ops |-> "idle"] /\ kind = [k \in Ops |-> "load"]
    /\ plan = [k \in Ops |-> <<>>] /\ row = [k \in Ops |-> {}]
    /\ left = [k \in Ops |-> {}] /\ got = [k \in Ops |-> {}]
    /\ gotRefs = [k \in Ops |-> Empty]
    /\ gestures = [p \in Pages |-> 0] /\ faults = 0
    /\ forced = {} /\ raced = {}
    /\ behind = [p \in Pages |-> FALSE]
    /\ overtaken = [k \in Ops |-> FALSE] /\ shaky = [k \in Ops |-> FALSE]
    /\ drifted = FALSE

-----------------------------------------------------------------------------
(* Gestures.                                                                *)

Visible(p) == ~loading[p] /\ ~failed[p]
\* The inputs or source_ids of n as the page has them.
Shown(p, n) == refsAt[p][n] \cap Upstream

Gesture(k, what, writes) ==
    /\ At(k, "idle") /\ Acts(PageOf[k])
    /\ st' = [st EXCEPT ![k] = "sent"]
    /\ kind' = [kind EXCEPT ![k] = what]
    /\ plan' = [plan EXCEPT ![k] = writes]
    /\ shaky' = [shaky EXCEPT ![k] = behind[PageOf[k]] \/ \E j \in Ops : st[j] \notin {"idle", "open"}]
    /\ UNCHANGED <<tables, canvas, row, reading, overtaken, faults, history>>

\* The id that a node will be given.
Creates(w, n) == w.req = "create" /\ w.node = n
Unused(n) == n \notin born /\ \A j \in Ops : \A i \in 1 .. Len(plan[j]) : ~Creates(plan[j][i], n)

\* Drag an edge from s into t.  Mutant: the cycle check is left out.
DrawableAnyway(p, s, t) == s \notin refsAt[p][t]
Drawable(p, s, t) == s \notin refsAt[p][t] /\ ~Reaches(s, t, refsAt[p])
Connect(k, s, t) ==
    LET p == PageOf[k] IN
    /\ Visible(p)
    /\ s \in nodesAt[p] \cap Upstream /\ t \in nodesAt[p] \ Sources
    /\ Drawable(p, s, t)
    /\ Gesture(k, "connect", <<Put(t, Shown(p, t), Shown(p, t) \cup {s})>>)

\* Delete one edge, or two that are selected; each write starts from the
\* inputs as they were at the gesture.
Edges(p) == {e \in (Upstream \cap nodesAt[p]) \X nodesAt[p] : e[1] \in refsAt[p][e[2]]}
Without(p, e) == Put(e[2], Shown(p, e[2]), Shown(p, e[2]) \ {e[1]})
Cut(k, e) ==
    LET p == PageOf[k] IN
    /\ Visible(p) /\ e \in Edges(p)
    /\ Gesture(k, "cut", <<Without(p, e)>>)
CutTwo(k, d, e) ==
    LET p == PageOf[k] IN
    /\ Visible(p) /\ {d, e} \subseteq Edges(p) /\ d # e
    /\ Gesture(k, IF d[2] = e[2] THEN "cuts" ELSE "cut", <<Without(p, d), Without(p, e)>>)

\* Insert a new remap n into the edge from s to t.
\* Mutant: the target keeps no other input.
SplicedOnly(p, s, t, n) == {n}
Spliced(p, s, t, n) == (Shown(p, t) \ {s}) \cup {n}
Splice(k, s, t, n) ==
    LET p == PageOf[k] IN
    /\ Visible(p) /\ <<s, t>> \in Edges(p) /\ n \in Stages /\ Unused(n)
    /\ Gesture(k, "splice", <<Create(n, {s}), Put(t, Shown(p, t), Spliced(p, s, t, n))>>)

Add(k, n) ==
    /\ Visible(PageOf[k]) /\ Unused(n)
    /\ Gesture(k, "add", <<Create(n, {})>>)

\* Click a node, or a node's chip in a drawer that is open, which also works
\* while the canvas loads: a stage's editor starts from what the page has, a
\* route's from a fresh read.  The form of an open editor is the write it would
\* send.
Open(k, n) ==
    LET p == PageOf[k] IN
    /\ st[k] \in {"idle", "open"} /\ gestures[p] < MaxGestures
    /\ \A j \in Mine(p) \ {k} : kind[j] # "save" /\ (kind[j] \in {"cut", "cuts"} => st[j] = "list")
    /\ n \in nodesAt[p] \cap (Stages \cup Routes) /\ (n \in Routes => n \in alive)
    /\ st' = [st EXCEPT ![k] = "open"]
    /\ kind' = [kind EXCEPT ![k] = "save"]
    /\ plan' = [plan EXCEPT ![k] =
                  <<Put(n, {}, IF n \in Stages THEN refsAt[p][n] ELSE refs[n])>>]
    /\ UNCHANGED <<tables, canvas, row, reading, overtaken, shaky, bounds, history>>

\* Save the open editor, with at most one box changed.
Toggled(S, x) == IF x \in S THEN S \ {x} ELSE S \cup {x}
Offered(p, n) == (Nameable(n) \cap nodesAt[p]) \ {n}
Save(k) ==
    LET p == PageOf[k]
        n == Now(k).node
        form == Now(k).put
    IN /\ At(k, "open") /\ Acts(p)
       /\ \E put \in {form} \cup {Toggled(form, x) : x \in Offered(p, n)} :
             plan' = [plan EXCEPT ![k] = <<Put(n, {}, put)>>]
       /\ st' = [st EXCEPT ![k] = "sent"]
       /\ UNCHANGED <<tables, canvas, kind, row, reading, overtaken, shaky, faults, history>>

\* Delete the stage or route whose editor is open, which this closes, or a
\* source or sink from the catalog page.
RemoveOpen(k) ==
    /\ At(k, "open") /\ Acts(PageOf[k])
    /\ st' = [st EXCEPT ![k] = "sent"]
    /\ kind' = [kind EXCEPT ![k] = "delete"]
    /\ plan' = [plan EXCEPT ![k] = <<Delete(Now(k).node)>>]
    /\ UNCHANGED <<tables, canvas, row, reading, overtaken, shaky, faults, history>>
Remove(k, n) ==
    /\ n \in (Sources \cup Sinks) \cap alive
    /\ Gesture(k, "delete", <<Delete(n)>>)

-----------------------------------------------------------------------------
(* The handlers.                                                            *)

\* The check of a delete.  Mutant: only the inputs of stages are looked at.
StagesReading(x) == References(x, alive, refs) \cap Stages
InUse(x) == References(x, alive, refs)
Check(k) ==
    /\ At(k, "sent")
    /\ LET w == Now(k) IN
       /\ st' = [st EXCEPT ![k] =
            CASE w.req = "put" -> IF w.node \in alive /\ Valid(w.node, w.put, alive)
                                  THEN "checked" ELSE "bad"
              [] w.req = "create" -> IF Valid(w.node, w.put, alive) THEN "checked" ELSE "bad"
              [] w.req = "delete" -> IF w.node \notin alive THEN "bad"
                                     ELSE IF InUse(w.node) # {} THEN "used" ELSE "checked"
              [] OTHER -> IF w.node \in alive THEN "checked" ELSE "bad"]
       /\ row' = [row EXCEPT ![k] = refs[w.node]]
    /\ UNCHANGED <<tables, canvas, kind, plan, reading, overtaken, shaky, bounds, history>>

\* A column is written when its value is not the one that was loaded; the
\* canvas sends the inputs or source_ids, a route's editor the sinks as well.
Column(C, was, now, put) == IF put \cap C = was \cap C THEN now \cap C ELSE put \cap C
\* Mutant: the list sent is added to the one that is there.
MergedRow(k) == refs[Now(k).node] \cup Now(k).put
NewRow(k) ==
    LET w == Now(k) IN
    Column(Upstream, row[k], refs[w.node], w.put)
      \cup IF kind[k] = "save" THEN Column(Sinks, row[k], refs[w.node], w.put)
           ELSE refs[w.node] \cap Sinks

\* What others are left with: loads that have started may miss it, pages do
\* not show it, writes computed before it do not know it.
Disturbs(k) ==
    /\ overtaken' = [j \in Ops |-> overtaken[j] \/ At(j, "list")]
    /\ behind' = [p \in Pages |-> behind[p] \/ p # PageOf[k]]
    /\ shaky' = [j \in Ops |-> shaky[j] \/ (j # k /\ st[j] \notin {"idle", "open", "list"})]

Apply(k) ==
    /\ At(k, "checked") /\ Now(k).req = "put" /\ Now(k).node \in alive
    /\ refs' = [refs EXCEPT ![Now(k).node] = NewRow(k)]
    /\ st' = [st EXCEPT ![k] = "ok"]
    /\ Disturbs(k)
    /\ drifted' = (drifted \/ shaky[k] \/ kind[k] \in {"save", "cuts"})
    /\ UNCHANGED <<alive, born, canvas, kind, plan, row, reading, bounds, forced, raced>>
\* The row was deleted since it was loaded: the UPDATE matches nothing.
ApplyFails(k) ==
    /\ At(k, "checked") /\ Now(k).req = "put" /\ Now(k).node \notin alive
    /\ st' = [st EXCEPT ![k] = "bad"]
    /\ UNCHANGED <<tables, canvas, kind, plan, row, reading, overtaken, shaky, bounds, history>>
Insert(k) ==
    /\ At(k, "checked") /\ Now(k).req = "create"
    /\ alive' = alive \cup {Now(k).node}
    /\ refs' = [refs EXCEPT ![Now(k).node] = Now(k).put]
    /\ born' = born \cup {Now(k).node}
    /\ st' = [st EXCEPT ![k] = "ok"]
    /\ Disturbs(k)
    /\ UNCHANGED << canvas, kind, plan, row, reading, bounds,
                   forced, raced, drifted>>
\* A write that names x and is past its check.
Naming(x) == {j \in Ops : At(j, "checked") /\ x \in Now(j).put}
Erase(k) ==
    /\ At(k, "checked") /\ Now(k).req \in {"delete", "force"}
    /\ LET x == Now(k).node IN
       /\ alive' = alive \ {x}
       /\ refs' = [refs EXCEPT ![x] = {}]
       /\ forced' = IF Now(k).req = "force" THEN forced \cup {x} ELSE forced
       /\ raced' = IF InUse(x) \cup Naming(x) # {} THEN raced \cup {x} ELSE raced
    /\ st' = [st EXCEPT ![k] = "ok"]
    /\ Disturbs(k)
    /\ UNCHANGED <<born, canvas, kind, plan, row, reading, bounds, drifted>>

\* A request fails on its way or in its handler, which then commits nothing,
\* or the answer to what it did is lost.
Lose(k) ==
    /\ st[k] \in {"sent", "ok"} /\ Fault
    /\ st' = [st EXCEPT ![k] = "bad"]
    /\ behind' = [behind EXCEPT ![PageOf[k]] =
                    @ \/ (At(k, "ok") /\ kind[k] \in {"add", "save", "delete"})]
    /\ UNCHANGED <<tables, canvas, kind, plan, row, reading, gestures,
                   forced, raced, overtaken, shaky, drifted>>

-----------------------------------------------------------------------------
(* The answers.                                                             *)

\* load(): the three lists are requested.
StartsLoad(k) ==
    LET p == PageOf[k] IN
    /\ st' = [st EXCEPT ![k] = "list"]
    /\ plan' = IF kind[k] = "save" THEN plan ELSE [plan EXCEPT ![k] = <<>>]
    /\ row' = [row EXCEPT ![k] = {}]
    /\ left' = [left EXCEPT ![k] = Tables]
    /\ loading' = [loading EXCEPT ![p] = TRUE]
    /\ failed' = [failed EXCEPT ![p] = FALSE]
    /\ UNCHANGED <<kind, got, gotRefs, overtaken, shaky>>
Sends(k, writes) ==
    /\ st' = [st EXCEPT ![k] = "sent"]
    /\ plan' = [plan EXCEPT ![k] = writes]
    /\ row' = [row EXCEPT ![k] = {}]
    /\ UNCHANGED <<kind, reading, loading, failed, overtaken, shaky>>
\* The operation is over: nothing of it is left, but an editor stays open with
\* what it has checked.
Clears(k) ==
    /\ st' = [st EXCEPT ![k] = IF kind[k] = "save" THEN "open" ELSE "idle"]
    /\ kind' = IF kind[k] = "save" THEN kind ELSE [kind EXCEPT ![k] = "load"]
    /\ plan' = IF kind[k] = "save" THEN plan ELSE [plan EXCEPT ![k] = <<>>]
    /\ row' = [row EXCEPT ![k] = {}]
    /\ left' = [left EXCEPT ![k] = {}] /\ got' = [got EXCEPT ![k] = {}]
    /\ gotRefs' = [gotRefs EXCEPT ![k] = Empty]
    /\ overtaken' = [overtaken EXCEPT ![k] = FALSE] /\ shaky' = [shaky EXCEPT ![k] = FALSE]
Ends(k) == Clears(k) /\ UNCHANGED <<loading, failed>>
\* Mutant: the last write is followed by one more.
GoesOnAnyway(k) == Sends(k, Tail(plan[k]))
GoesOn(k) == IF Len(plan[k]) > 1 THEN Sends(k, Tail(plan[k])) ELSE StartsLoad(k)

\* Connecting and cutting patch dataRef at once (editors start from the last
\* load; a click between the two writes of a deletion is left out).
Patched(k) ==
    LET p == PageOf[k]
        n == Now(k).node
    IN IF kind[k] \in {"connect", "cut", "cuts"} /\ n \in nodesAt[p]
       THEN [refsAt EXCEPT ![p][n] = Now(k).put \cup (@ \cap Sinks)]
       ELSE refsAt
Succeed(k) ==
    /\ At(k, "ok")
    /\ GoesOn(k)
    /\ refsAt' = Patched(k)
    /\ UNCHANGED <<tables, nodesAt, bounds, history>>
\* The user closes an editor.
Close(k) ==
    /\ At(k, "open")
    /\ st' = [st EXCEPT ![k] = "idle"]
    /\ kind' = [kind EXCEPT ![k] = "load"]
    /\ plan' = [plan EXCEPT ![k] = <<>>]
    /\ UNCHANGED <<tables, canvas, row, reading, overtaken, shaky, bounds, history>>

\* The canvas loads again after an error, an editor or a dialog shows it.
\* Mutant: the canvas does not load again either.
EndsQuietly(k) == Ends(k)
Recovers(k) ==
    CASE kind[k] \in {"connect", "splice"} -> StartsLoad(k)
      [] kind[k] \in {"cut", "cuts"} -> GoesOn(k)
      [] OTHER -> Ends(k)
Fail(k) ==
    /\ At(k, "bad")
    /\ Recovers(k)
    /\ UNCHANGED <<tables, nodesAt, refsAt, bounds, history>>
\* 409: the user is asked, and forces the delete or leaves it.
Confirm(k) ==
    /\ At(k, "used")
    /\ Sends(k, <<[Now(k) EXCEPT !.req = "force"]>>) \/ Ends(k)
    /\ UNCHANGED <<tables, nodesAt, refsAt, bounds, history>>

Read(k, T) ==
    /\ At(k, "list") /\ T \in left[k]
    /\ left' = [left EXCEPT ![k] = @ \ {T}]
    /\ got' = [got EXCEPT ![k] = @ \cup (alive \cap T)]
    /\ gotRefs' = [gotRefs EXCEPT ![k] = [n \in Nodes |-> IF n \in T THEN refs[n] ELSE @[n]]]
    /\ UNCHANGED <<tables, canvas, st, kind, plan, row, overtaken, shaky, bounds, history>>
Show(k) ==
    LET p == PageOf[k] IN
    /\ At(k, "list") /\ left[k] = {}
    /\ nodesAt' = [nodesAt EXCEPT ![p] = got[k]]
    /\ refsAt' = [refsAt EXCEPT ![p] = gotRefs[k]]
    /\ loading' = [loading EXCEPT ![p] = FALSE]
    /\ behind' = [behind EXCEPT ![p] = overtaken[k]]
    /\ Clears(k)
    /\ UNCHANGED <<tables, failed, bounds, forced, raced, drifted>>
\* Mutant: the spinner is only taken away by a load that succeeds.
StillLoading(p) == loading[p]
NotLoading(p) == FALSE
LoadFails(k) ==
    /\ At(k, "list") /\ Fault
    /\ loading' = [loading EXCEPT ![PageOf[k]] = NotLoading(PageOf[k])]
    /\ failed' = [failed EXCEPT ![PageOf[k]] = TRUE]
    /\ Clears(k)
    /\ UNCHANGED <<tables, nodesAt, refsAt, gestures, history>>
Retry(k) ==
    /\ At(k, "idle") /\ failed[PageOf[k]] /\ ~loading[PageOf[k]]
    /\ Acts(PageOf[k])
    /\ StartsLoad(k)
    /\ UNCHANGED <<tables, nodesAt, refsAt, faults, history>>

-----------------------------------------------------------------------------
Make(k) == \/ /\ At(k, "idle")
              /\ \/ \E s \in Upstream, t \in Nodes : Connect(k, s, t)
                 \/ \E e \in Upstream \X Nodes : Cut(k, e)
                 \/ \E d, e \in Upstream \X Nodes : CutTwo(k, d, e)
                 \/ \E s \in Upstream, t \in Nodes, n \in Stages : Splice(k, s, t, n)
                 \/ \E n \in Nodes : Add(k, n) \/ Remove(k, n)
                 \/ Retry(k)
           \/ \E n \in Nodes : Open(k, n)
           \/ Save(k) \/ RemoveOpen(k) \/ Close(k)
Handle(k) == Check(k) \/ Apply(k) \/ ApplyFails(k) \/ Insert(k) \/ Erase(k)
Settle(k) == \/ Succeed(k) \/ Fail(k) \/ Confirm(k)
             \/ \E T \in Tables : Read(k, T)
             \/ Show(k)
Next == \E k \in Ops : Make(k) \/ Handle(k) \/ Settle(k) \/ Lose(k) \/ LoadFails(k)

\* Handlers run to their end, answers arrive and dialogs are answered.
Fairness == \A k \in Ops : WF_vars(Handle(k) \/ Settle(k))
Spec == Init /\ [][Next]_vars
FairSpec == Spec /\ Fairness

-----------------------------------------------------------------------------
TypeOK ==
    /\ alive \subseteq Nodes /\ born \subseteq Nodes
    /\ refs \in [Nodes -> SUBSET Nodes]
    /\ nodesAt \in [Pages -> SUBSET Nodes]
    /\ refsAt \in [Pages -> [Nodes -> SUBSET Nodes]]
    /\ loading \in [Pages -> BOOLEAN] /\ failed \in [Pages -> BOOLEAN]
    /\ st \in [Ops -> Stations] /\ kind \in [Ops -> Kinds]
    /\ plan \in [Ops -> Seq(Write)] /\ row \in [Ops -> SUBSET Nodes]
    /\ \A k \in Ops : st[k] \notin {"idle", "list"} \/ kind[k] = "save" => plan[k] # <<>>
    /\ left \in [Ops -> SUBSET Tables] /\ got \in [Ops -> SUBSET Nodes]
    /\ gotRefs \in [Ops -> [Nodes -> SUBSET Nodes]]
    /\ gestures \in [Pages -> 0 .. MaxGestures] /\ faults \in 0 .. MaxFaults
    /\ forced \subseteq Nodes /\ raced \subseteq Nodes
    /\ behind \in [Pages -> BOOLEAN] /\ overtaken \in [Ops -> BOOLEAN]
    /\ shaky \in [Ops -> BOOLEAN] /\ drifted \in BOOLEAN

\* A row names a node that does not exist only when that node was deleted by
\* force, or became named between the check of its delete and its commit
\* (wiring.py: deletes "are refused instead of silently leaving a dangling
\* reference").
DanglingHasCause ==
    \A n \in alive : refs[n] \ alive \subseteq forced \cup raced

\* A page at rest shows the tables: whatever failed, the canvas has loaded
\* again, unless somebody else wrote since, loads overtook each other, or an
\* editor's or dialog's answer was lost (FleetTopologyCanvas.tsx, load).
FreshCanvas ==
    \A p \in Pages :
        (\A k \in Mine(p) : st[k] \in {"idle", "open"}) /\ ~behind[p] /\ ~failed[p]
        => nodesAt[p] = alive /\ refsAt[p] = refs

\* A write of the canvas changes the edge it is about and nothing else, when
\* nobody wrote since its page was up to date (dataRef: drags "don't
\* last-write-wins clobber").  Not so for the drawers, which save the inputs
\* they were opened with, and for two edges into one node deleted together.
Commits(k) == At(k, "checked") /\ Now(k).req = "put" /\ st'[k] = "ok"
Meant(k) == (refs[Now(k).node] \ (Now(k).base \ Now(k).put)) \cup (Now(k).put \ Now(k).base)
EditsStick ==
    [][\A k \in Ops : Commits(k) /\ ~shaky[k] /\ kind[k] \notin {"save", "cuts"}
                      => refs'[Now(k).node] = Meant(k)]_vars

\* Inserting a remap into an edge never interrupts a flow, wherever it stops.
Feeds(s, t) == \E n \in refs[t] : Reaches(n, s, refs)
SpliceKeepsFlow ==
    [][\A k \in Ops : kind[k] = "splice" /\ st'[k] # st[k] /\ ~shaky[k] =>
         \A s \in Upstream, t \in Nodes : Feeds(s, t) => Feeds(s, t)']_vars

\* Remaps read each other in a circle only after a blind write: the canvas
\* checks what it shows, the server does not check.
CyclesNeedBlindWrites == HasCycle(refs) => drifted

\* The canvas always comes back, though loads of one page cross - the first to
\* end takes the spinner away while another is still reading, and one may start
\* after it - or fail, and though gestures go on meanwhile.
CanvasComesBack == \A p \in Pages : loading[p] ~> ~loading[p]

\* What the comment on onEdgesDelete says: "Deleting an edge removes the
\* corresponding input"; it never puts one there.
CutsOnlyRemove ==
    [][\A k \in Ops : Commits(k) /\ ~shaky[k] /\ kind[k] \in {"cut", "cuts"}
                      => refs'[Now(k).node] \subseteq refs[Now(k).node]]_vars
===============================================================================
