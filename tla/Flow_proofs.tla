----------------------------- MODULE Flow_proofs -----------------------------
(***************************************************************************)
(* Proofs about Flow, for any fleet and any number of pages, operations,   *)
(* gestures and faults.                                                    *)
(***************************************************************************)
EXTENDS Flow, Wiring_proofs

-----------------------------------------------------------------------------
(* Types.                                                                   *)

TablesOK == /\ alive \subseteq Nodes /\ born \subseteq Nodes
            /\ refs \in [Nodes -> SUBSET Nodes]
CanvasOK == /\ nodesAt \in [Pages -> SUBSET Nodes]
            /\ refsAt \in [Pages -> [Nodes -> SUBSET Nodes]]
            /\ loading \in [Pages -> BOOLEAN] /\ failed \in [Pages -> BOOLEAN]
WorkOK == /\ st \in [Ops -> Stations] /\ kind \in [Ops -> Kinds]
          /\ plan \in [Ops -> Seq(Write)] /\ row \in [Ops -> SUBSET Nodes]
          /\ \A k \in Ops : (st[k] \notin {"idle", "list"} \/ kind[k] = "save") => plan[k] # <<>>
ReadingOK == /\ left \in [Ops -> SUBSET Tables] /\ got \in [Ops -> SUBSET Nodes]
             /\ gotRefs \in [Ops -> [Nodes -> SUBSET Nodes]]
RestOK == /\ gestures \in [Pages -> 0 .. MaxGestures] /\ faults \in 0 .. MaxFaults
          /\ forced \subseteq Nodes /\ raced \subseteq Nodes
          /\ behind \in [Pages -> BOOLEAN] /\ overtaken \in [Ops -> BOOLEAN]
          /\ shaky \in [Ops -> BOOLEAN] /\ drifted \in BOOLEAN

LEMMA TypeParts == TypeOK <=> TablesOK /\ CanvasOK /\ WorkOK /\ ReadingOK /\ RestOK
BY DEF TypeOK, TablesOK, CanvasOK, WorkOK, ReadingOK, RestOK
LEMMA TypePartsPrimed ==
    TypeOK' <=> TablesOK' /\ CanvasOK' /\ WorkOK' /\ ReadingOK' /\ RestOK'
BY DEF TypeOK, TablesOK, CanvasOK, WorkOK, ReadingOK, RestOK

LEMMA WriteTypes ==
    ASSUME NEW n \in Nodes, NEW b \in SUBSET Nodes, NEW s \in SUBSET Nodes
    PROVE  /\ Put(n, b, s) \in Write /\ Create(n, s) \in Write /\ Delete(n) \in Write
           /\ Put(n, b, s).node = n /\ Put(n, b, s).req = "put"
           /\ Put(n, b, s).put = s /\ Put(n, b, s).base = b
           /\ Create(n, s).node = n /\ Create(n, s).req = "create" /\ Create(n, s).put = s
           /\ Delete(n).node = n /\ Delete(n).req = "delete" /\ Delete(n).put = {}
BY DEF Put, Create, Delete, Write

LEMMA WriteParts ==
    ASSUME NEW w \in Write
    PROVE  /\ w.req \in {"put", "create", "delete", "force"}
           /\ w.node \in Nodes /\ w.base \subseteq Nodes /\ w.put \subseteq Nodes
BY DEF Write

\* An operation that is under way has a write to send.
LEMMA NowType ==
    ASSUME WorkOK, NEW k \in Ops, st[k] \notin {"idle", "list"}
    PROVE  Now(k) \in Write /\ plan[k] \in Seq(Write) /\ plan[k] # <<>>
BY DEF WorkOK, Now

LEMMA Kinships == Upstream \subseteq Nodes /\ Sources \subseteq Nodes
                  /\ Stages \subseteq Nodes /\ Sinks \subseteq Nodes /\ Routes \subseteq Nodes
BY DEF Upstream, Nodes

LEMMA TypeInit == Init => TypeOK
<1> SUFFICES ASSUME Init PROVE TypeOK OBVIOUS
<1>1. TablesOK BY ConstantsAssumption DEF Init, TablesOK
<1>2. CanvasOK BY ConstantsAssumption DEF Init, CanvasOK
<1>3. WorkOK BY DEF Init, WorkOK, Stations, Kinds
<1>4. ReadingOK BY DEF Init, ReadingOK, Empty
<1>5. RestOK
  <2>1. gestures \in [Pages -> 0 .. MaxGestures] /\ faults \in 0 .. MaxFaults
        BY ConstantsAssumption DEF Init
  <2>2. forced \subseteq Nodes /\ raced \subseteq Nodes BY DEF Init
  <2>3. behind \in [Pages -> BOOLEAN] /\ overtaken \in [Ops -> BOOLEAN] BY DEF Init
  <2>4. shaky \in [Ops -> BOOLEAN] /\ drifted \in BOOLEAN BY DEF Init
  <2> QED BY <2>1, <2>2, <2>3, <2>4 DEF RestOK
<1> QED BY <1>1, <1>2, <1>3, <1>4, <1>5, TypeParts

\* What a new plan needs to be one.
LEMMA GestureType ==
    ASSUME TypeOK, NEW k \in Ops, NEW what \in Kinds, NEW writes \in Seq(Write),
           writes # <<>>, Gesture(k, what, writes)
    PROVE  TypeOK'
<1> USE TypeParts DEF Gesture
<1>1. TablesOK' BY DEF TablesOK, tables
<1>2. CanvasOK' BY DEF CanvasOK, canvas
<1>3. WorkOK' BY DEF WorkOK, Stations, At
<1>4. ReadingOK' BY DEF ReadingOK, reading
<1>5. RestOK'
  <2>1. gestures' \in [Pages -> 0 .. MaxGestures]
        BY ConstantsAssumption DEF RestOK, Acts
  <2>2. shaky' \in [Ops -> BOOLEAN]
        BY ConstantsAssumption DEF RestOK
  <2> QED BY <2>1, <2>2 DEF RestOK, history
<1> QED BY <1>1, <1>2, <1>3, <1>4, <1>5, TypePartsPrimed

LEMMA OneWriteType ==
    ASSUME TypeOK, NEW k \in Ops, NEW what \in Kinds, NEW w \in Write,
           Gesture(k, what, <<w>>)
    PROVE  TypeOK'
<1>1. <<w>> \in Seq(Write) /\ <<w>> # <<>> OBVIOUS
<1> QED BY <1>1, GestureType

LEMMA ShownType ==
    ASSUME TypeOK, NEW p \in Pages, NEW n \in Nodes
    PROVE  Shown(p, n) \in SUBSET Nodes
BY TypeParts DEF CanvasOK, Shown

LEMMA EdgeType ==
    ASSUME TypeOK, NEW p \in Pages, NEW e \in Edges(p)
    PROVE  /\ e[1] \in Upstream /\ e[2] \in Nodes /\ Without(p, e) \in Write
           /\ e[1] \in Shown(p, e[2])
<1>1. e[1] \in Upstream /\ e[2] \in Nodes /\ e[1] \in refsAt[p][e[2]]
      BY TypeParts DEF Edges, CanvasOK
<1> QED BY <1>1, ShownType, WriteTypes DEF Without, Shown

LEMMA MakeType ==
    ASSUME TypeOK, NEW k \in Ops, Make(k)
    PROVE  TypeOK'
<1> DEFINE p == PageOf[k]
<1>0. p \in Pages BY ConstantsAssumption
<1>k. "connect" \in Kinds /\ "cut" \in Kinds /\ "add" \in Kinds /\ "delete" \in Kinds
      BY DEF Kinds
<1>1. ASSUME NEW s \in Upstream, NEW t \in Nodes, Connect(k, s, t) PROVE TypeOK'
  <2>1. Shown(p, t) \in SUBSET Nodes /\ (Shown(p, t) \cup {s}) \in SUBSET Nodes
        BY <1>0, ShownType, Kinships
  <2>2. Put(t, Shown(p, t), Shown(p, t) \cup {s}) \in Write
        BY <2>1, WriteTypes
  <2>3. Gesture(k, "connect", <<Put(t, Shown(p, t), Shown(p, t) \cup {s})>>)
        BY <1>1 DEF Connect
  <2> QED BY <1>k, <2>2, <2>3, OneWriteType
<1>2. ASSUME NEW e \in Upstream \X Nodes, Cut(k, e) PROVE TypeOK'
  <2>1. Without(p, e) \in Write
        BY <1>0, <1>2, EdgeType DEF Cut
  <2>2. Gesture(k, "cut", <<Without(p, e)>>) BY <1>2 DEF Cut
  <2> QED BY <1>k, <2>1, <2>2, OneWriteType
<1>3. ASSUME NEW d \in Upstream \X Nodes, NEW e \in Upstream \X Nodes, CutTwo(k, d, e)
      PROVE  TypeOK'
  <2>1. Without(p, d) \in Write /\ Without(p, e) \in Write
        BY <1>0, <1>3, EdgeType DEF CutTwo
  <2> DEFINE what == IF d[2] = e[2] THEN "cuts" ELSE "cut"
             writes == <<Without(p, d), Without(p, e)>>
  <2>2. what \in Kinds BY DEF Kinds
  <2>3. writes \in Seq(Write) /\ writes # <<>> BY <2>1
  <2>4. Gesture(k, what, writes) BY <1>3 DEF CutTwo
  <2> QED BY <2>2, <2>3, <2>4, GestureType
<1>4. ASSUME NEW s \in Upstream, NEW t \in Nodes, NEW n \in Stages, Splice(k, s, t, n)
      PROVE  TypeOK'
  <2>1. n \in Nodes /\ {s} \in SUBSET Nodes BY Kinships
  <2>2. Shown(p, t) \in SUBSET Nodes /\ Spliced(p, s, t, n) \in SUBSET Nodes
        BY <1>0, <2>1, ShownType DEF Spliced
  <2>3. Create(n, {s}) \in Write /\ Put(t, Shown(p, t), Spliced(p, s, t, n)) \in Write
        BY <2>1, <2>2, WriteTypes
  <2> DEFINE writes == <<Create(n, {s}), Put(t, Shown(p, t), Spliced(p, s, t, n))>>
  <2>4. writes \in Seq(Write) /\ writes # <<>> BY <2>3
  <2>5. Gesture(k, "splice", writes) BY <1>4 DEF Splice
  <2> QED BY <2>4, <2>5, GestureType DEF Kinds
<1>5. ASSUME NEW n \in Nodes, Add(k, n) PROVE TypeOK'
  <2>1. Create(n, {}) \in Write BY WriteTypes
  <2>2. Gesture(k, "add", <<Create(n, {})>>) BY <1>5 DEF Add
  <2> QED BY <1>k, <2>1, <2>2, OneWriteType
<1>6. ASSUME NEW n \in Nodes, Remove(k, n) PROVE TypeOK'
  <2>1. Delete(n) \in Write BY WriteTypes
  <2>2. Gesture(k, "delete", <<Delete(n)>>) BY <1>6 DEF Remove
  <2> QED BY <1>k, <2>1, <2>2, OneWriteType
<1>7. ASSUME NEW n \in Nodes, Open(k, n) PROVE TypeOK'
  <2> DEFINE seen == IF n \in Stages THEN refsAt[p][n] ELSE refs[n]
  <2>1. seen \in SUBSET Nodes BY <1>0, TypeParts DEF CanvasOK, TablesOK
  <2>2. Put(n, {}, seen) \in Write BY <2>1, WriteTypes
  <2>3. WorkOK' BY <1>7, <2>2, TypeParts DEF Open, WorkOK, Stations, Kinds
  <2>4. TablesOK' /\ CanvasOK' /\ ReadingOK' /\ RestOK'
        BY <1>7, TypeParts DEF Open, tables, canvas, reading, bounds, history,
                               TablesOK, CanvasOK, ReadingOK, RestOK
  <2> QED BY <2>3, <2>4, TypePartsPrimed
<1>8. ASSUME Save(k) PROVE TypeOK'
  <2>1. Now(k) \in Write
        BY <1>8, NowType, TypeParts DEF Save, At
  <2>2. PICK put \in {Now(k).put} \cup {Toggled(Now(k).put, x) : x \in Offered(p, Now(k).node)} :
             plan' = [plan EXCEPT ![k] = <<Put(Now(k).node, {}, put)>>]
        BY <1>8 DEF Save
  <2>3. put \in SUBSET Nodes
        BY <1>0, <2>1, WriteParts, TypeParts DEF Toggled, Offered, CanvasOK
  <2>4. Put(Now(k).node, {}, put) \in Write
        BY <2>1, <2>3, WriteTypes, WriteParts
  <2>5. WorkOK' BY <1>8, <2>2, <2>4, TypeParts DEF Save, WorkOK, Stations
  <2>6. gestures' \in [Pages -> 0 .. MaxGestures]
        BY <1>0, <1>8, ConstantsAssumption, TypeParts DEF Save, Acts, RestOK
  <2>7. TablesOK' /\ CanvasOK' /\ ReadingOK' /\ RestOK'
        BY <1>8, <2>6, TypeParts DEF Save, tables, canvas, reading, history,
                               TablesOK, CanvasOK, ReadingOK, RestOK
  <2> QED BY <2>5, <2>7, TypePartsPrimed
<1>9. ASSUME RemoveOpen(k) PROVE TypeOK'
  <2>1. Delete(Now(k).node) \in Write
        BY <1>9, NowType, WriteParts, WriteTypes, TypeParts DEF RemoveOpen, At
  <2>2. WorkOK' BY <1>9, <2>1, TypeParts DEF RemoveOpen, WorkOK, Stations, Kinds
  <2>3. gestures' \in [Pages -> 0 .. MaxGestures]
        BY <1>0, <1>9, ConstantsAssumption, TypeParts DEF RemoveOpen, Acts, RestOK
  <2>4. TablesOK' /\ CanvasOK' /\ ReadingOK' /\ RestOK'
        BY <1>9, <2>3, TypeParts DEF RemoveOpen, tables, canvas, reading, history,
                               TablesOK, CanvasOK, ReadingOK, RestOK
  <2> QED BY <2>2, <2>4, TypePartsPrimed
<1>10. ASSUME Close(k) PROVE TypeOK'
  <2>1. WorkOK' BY <1>10, TypeParts DEF Close, WorkOK, Stations, Kinds
  <2>2. TablesOK' /\ CanvasOK' /\ ReadingOK' /\ RestOK'
        BY <1>10, TypeParts DEF Close, tables, canvas, reading, bounds, history,
                               TablesOK, CanvasOK, ReadingOK, RestOK
  <2> QED BY <2>1, <2>2, TypePartsPrimed
<1>11. ASSUME Retry(k) PROVE TypeOK'
  <2>1. WorkOK' BY <1>11, TypeParts DEF Retry, StartsLoad, WorkOK, Stations
  <2>2. ReadingOK' BY <1>11, TypeParts DEF Retry, StartsLoad, ReadingOK
  <2>3. gestures' \in [Pages -> 0 .. MaxGestures]
        BY <1>0, <1>11, ConstantsAssumption, TypeParts DEF Retry, Acts, RestOK
  <2>4. TablesOK' /\ CanvasOK' /\ RestOK'
        BY <1>11, <2>3, TypeParts DEF Retry, StartsLoad, tables, history,
                               TablesOK, CanvasOK, RestOK
  <2> QED BY <2>1, <2>2, <2>4, TypePartsPrimed
<1> QED BY <1>1, <1>2, <1>3, <1>4, <1>5, <1>6, <1>7, <1>8, <1>9, <1>10, <1>11 DEF Make

LEMMA RowType ==
    ASSUME TypeOK, NEW k \in Ops, Now(k) \in Write
    PROVE  NewRow(k) \in SUBSET Nodes
<1>1. Now(k).put \subseteq Nodes /\ Now(k).node \in Nodes BY WriteParts
<1>2. row[k] \subseteq Nodes /\ refs[Now(k).node] \subseteq Nodes
      BY <1>1, TypeParts DEF WorkOK, TablesOK
<1> QED BY <1>1, <1>2, Kinships DEF NewRow, Column

LEMMA HandleType ==
    ASSUME TypeOK, NEW k \in Ops, Handle(k)
    PROVE  TypeOK'
<1> USE TypeParts
<1>1. Now(k) \in Write /\ Now(k).node \in Nodes /\ Now(k).put \subseteq Nodes
  <2>1. st[k] \notin {"idle", "list"}
        BY DEF Handle, Check, Apply, ApplyFails, Insert, Erase, At
  <2> QED BY <2>1, NowType, WriteParts
<1>2. ASSUME Check(k) PROVE TypeOK'
  <2>1. st'[k] \in {"checked", "bad", "used"} /\ st' \in [Ops -> Stations]
        BY <1>2 DEF Check, WorkOK, Stations
  <2>2. row' \in [Ops -> SUBSET Nodes]
        BY <1>1, <1>2 DEF Check, WorkOK, TablesOK
  <2>3. WorkOK' BY <1>2, <2>1, <2>2 DEF Check, WorkOK, At
  <2>4. TablesOK' /\ CanvasOK' /\ ReadingOK' /\ RestOK'
        BY <1>2 DEF Check, tables, canvas, reading, bounds, history,
                    TablesOK, CanvasOK, ReadingOK, RestOK
  <2> QED BY <2>3, <2>4, TypePartsPrimed
<1>3. ASSUME NEW s \in Stations, st' = [st EXCEPT ![k] = s], At(k, "checked"),
             UNCHANGED <<kind, plan, row>>
      PROVE  WorkOK'
      BY <1>3 DEF WorkOK, At
<1>4. ASSUME Disturbs(k)
      PROVE  /\ overtaken' \in [Ops -> BOOLEAN] /\ behind' \in [Pages -> BOOLEAN]
             /\ shaky' \in [Ops -> BOOLEAN]
      BY <1>4 DEF Disturbs, RestOK
<1>5. "ok" \in Stations /\ "bad" \in Stations BY DEF Stations
<1>6. ASSUME Apply(k) PROVE TypeOK'
  <2>1. TablesOK' BY <1>1, <1>6, RowType DEF Apply, TablesOK
  <2>2. WorkOK' BY <1>3, <1>5, <1>6 DEF Apply
  <2>3. CanvasOK' /\ ReadingOK' BY <1>6 DEF Apply, canvas, reading, CanvasOK, ReadingOK
  <2>4. drifted' \in BOOLEAN BY <1>6 DEF Apply, RestOK
  <2>5. RestOK' BY <1>4, <1>6, <2>4 DEF Apply, bounds, RestOK
  <2> QED BY <2>1, <2>2, <2>3, <2>5, TypePartsPrimed
<1>7. ASSUME ApplyFails(k) PROVE TypeOK'
  <2>1. WorkOK' BY <1>3, <1>5, <1>7 DEF ApplyFails
  <2>2. TablesOK' /\ CanvasOK' /\ ReadingOK' /\ RestOK'
        BY <1>7 DEF ApplyFails, tables, canvas, reading, bounds, history,
                    TablesOK, CanvasOK, ReadingOK, RestOK
  <2> QED BY <2>1, <2>2, TypePartsPrimed
<1>8. ASSUME Insert(k) PROVE TypeOK'
  <2>1. TablesOK' BY <1>1, <1>8 DEF Insert, TablesOK
  <2>2. WorkOK' BY <1>3, <1>5, <1>8 DEF Insert
  <2>3. CanvasOK' /\ ReadingOK' BY <1>8 DEF Insert, canvas, reading, CanvasOK, ReadingOK
  <2>4. RestOK' BY <1>4, <1>8 DEF Insert, bounds, RestOK
  <2> QED BY <2>1, <2>2, <2>3, <2>4, TypePartsPrimed
<1>9. ASSUME Erase(k) PROVE TypeOK'
  <2>1. TablesOK' BY <1>1, <1>9 DEF Erase, TablesOK
  <2>2. WorkOK' BY <1>3, <1>5, <1>9 DEF Erase
  <2>3. CanvasOK' /\ ReadingOK' BY <1>9 DEF Erase, canvas, reading, CanvasOK, ReadingOK
  <2>4. forced' \subseteq Nodes /\ raced' \subseteq Nodes BY <1>1, <1>9 DEF Erase, RestOK
  <2>5. RestOK' BY <1>4, <1>9, <2>4 DEF Erase, bounds, RestOK
  <2> QED BY <2>1, <2>2, <2>3, <2>5, TypePartsPrimed
<1> QED BY <1>2, <1>6, <1>7, <1>8, <1>9 DEF Handle

\* How an operation goes on.
AnswerOK == WorkOK /\ ReadingOK /\ overtaken \in [Ops -> BOOLEAN] /\ shaky \in [Ops -> BOOLEAN]
            /\ loading \in [Pages -> BOOLEAN] /\ failed \in [Pages -> BOOLEAN]

LEMMA AnswerTypes ==
    ASSUME TypeOK, NEW k \in Ops
    PROVE  /\ StartsLoad(k) => AnswerOK'
           /\ Ends(k) => AnswerOK'
           /\ Clears(k) => (/\ WorkOK' /\ ReadingOK' /\ overtaken' \in [Ops -> BOOLEAN]
                            /\ shaky' \in [Ops -> BOOLEAN])
           /\ \A w \in Seq(Write) : (Sends(k, w) /\ w # <<>>) => AnswerOK'
<1> USE TypeParts
<1>0. \A s \in {"list", "idle", "sent", "open"} : s \in Stations BY DEF Stations
<1>1. ASSUME StartsLoad(k) PROVE AnswerOK'
  <2>1. WorkOK' BY <1>0, <1>1 DEF StartsLoad, WorkOK
  <2>2. ReadingOK' BY <1>1 DEF StartsLoad, ReadingOK
  <2> QED BY <1>1, <2>1, <2>2 DEF StartsLoad, AnswerOK, CanvasOK, RestOK
<1>2. ASSUME Clears(k)
      PROVE  /\ WorkOK' /\ ReadingOK' /\ overtaken' \in [Ops -> BOOLEAN]
             /\ shaky' \in [Ops -> BOOLEAN]
  <2>1. ASSUME kind[k] = "save" PROVE WorkOK'
    <3>1. /\ st' = [st EXCEPT ![k] = "open"] /\ kind' = kind /\ plan' = plan
          /\ row' = [row EXCEPT ![k] = {}]
          BY <1>2, <2>1 DEF Clears
    <3> QED BY <1>0, <2>1, <3>1 DEF WorkOK
  <2>2. ASSUME kind[k] # "save" PROVE WorkOK'
    <3>1. /\ st' = [st EXCEPT ![k] = "idle"] /\ kind' = [kind EXCEPT ![k] = "load"]
          /\ plan' = [plan EXCEPT ![k] = <<>>] /\ row' = [row EXCEPT ![k] = {}]
          BY <1>2, <2>2 DEF Clears
    <3>2. "load" \in Kinds BY DEF Kinds
    <3> QED BY <1>0, <3>1, <3>2 DEF WorkOK
  <2>3. WorkOK' BY <2>1, <2>2
  <2>4. ReadingOK' BY <1>2 DEF Clears, ReadingOK, Empty
  <2> QED BY <1>2, <2>3, <2>4 DEF Clears, RestOK
<1>3. ASSUME Ends(k) PROVE AnswerOK'
      BY <1>2, <1>3 DEF Ends, AnswerOK, CanvasOK
<1>4. ASSUME NEW w \in Seq(Write), Sends(k, w), w # <<>> PROVE AnswerOK'
  <2>1. WorkOK' BY <1>0, <1>4 DEF Sends, WorkOK
  <2>2. ReadingOK' BY <1>4 DEF Sends, ReadingOK, reading
  <2> QED BY <1>4, <2>1, <2>2 DEF Sends, AnswerOK, CanvasOK, RestOK
<1> QED BY <1>1, <1>2, <1>3, <1>4

LEMMA TailType ==
    ASSUME NEW s \in Seq(Write), Len(s) > 1
    PROVE  Tail(s) \in Seq(Write) /\ Tail(s) # <<>> /\ Len(Tail(s)) = Len(s) - 1
<1>1. s # <<>> OBVIOUS
<1>2. Tail(s) \in Seq(Write) /\ Len(Tail(s)) = Len(s) - 1 BY <1>1
<1>3. Len(s) \in Nat OBVIOUS
<1>4. Len(Tail(s)) # 0 BY <1>2, <1>3
<1>5. Len(<<>>) = 0 OBVIOUS
<1>6. Tail(s) # <<>> BY <1>4, <1>5
<1> QED BY <1>2, <1>6

\* The rest of the answers leaves the tables, the bounds and the history.
LEMMA AfterAnswer ==
    ASSUME TypeOK, AnswerOK', UNCHANGED <<tables, nodesAt, bounds, history>>,
           refsAt' \in [Pages -> [Nodes -> SUBSET Nodes]]
    PROVE  TypeOK'
<1> USE TypeParts
<1>1. TablesOK' BY DEF tables, TablesOK
<1>2. CanvasOK' BY DEF CanvasOK, AnswerOK
<1>3. RestOK' BY DEF RestOK, AnswerOK, bounds, history
<1> QED BY <1>1, <1>2, <1>3, TypePartsPrimed DEF AnswerOK

LEMMA SettleType ==
    ASSUME TypeOK, NEW k \in Ops, Settle(k)
    PROVE  TypeOK'
<1> USE TypeParts
<1>0. PageOf[k] \in Pages BY ConstantsAssumption
<1>1. refsAt \in [Pages -> [Nodes -> SUBSET Nodes]] BY DEF CanvasOK
<1>2. ASSUME st[k] \notin {"idle", "list"}, GoesOn(k) PROVE AnswerOK'
  <2>1. plan[k] \in Seq(Write) /\ plan[k] # <<>> BY <1>2, NowType
  <2>2. CASE Len(plan[k]) > 1
    <3>1. Tail(plan[k]) \in Seq(Write) /\ Tail(plan[k]) # <<>> BY <2>1, <2>2, TailType
    <3> QED BY <1>2, <2>2, <3>1, AnswerTypes DEF GoesOn
  <2>3. CASE ~(Len(plan[k]) > 1)
        BY <1>2, <2>3, AnswerTypes DEF GoesOn
  <2> QED BY <2>2, <2>3
<1>3. ASSUME Succeed(k) PROVE TypeOK'
  <2>1. AnswerOK' BY <1>2, <1>3 DEF Succeed, At
  <2>2. Now(k) \in Write BY <1>3, NowType DEF Succeed, At
  <2>3. Now(k).node \in Nodes /\ Now(k).put \subseteq Nodes BY <2>2, WriteParts
  <2>4. Patched(k) \in [Pages -> [Nodes -> SUBSET Nodes]]
        BY <1>0, <1>1, <2>3 DEF Patched
  <2> QED BY <1>3, <2>1, <2>4, AfterAnswer DEF Succeed
<1>4. ASSUME Fail(k) PROVE TypeOK'
  <2>1. StartsLoad(k) \/ GoesOn(k) \/ Ends(k) BY <1>4 DEF Fail, Recovers
  <2>2. AnswerOK' BY <1>2, <1>4, <2>1, AnswerTypes DEF Fail, At
  <2> QED BY <1>1, <1>4, <2>2, AfterAnswer DEF Fail
<1>5. ASSUME Confirm(k) PROVE TypeOK'
  <2>1. Now(k) \in Write BY <1>5, NowType DEF Confirm, At
  <2>2. [Now(k) EXCEPT !.req = "force"] \in Write BY <2>1 DEF Write
  <2> DEFINE w == <<[Now(k) EXCEPT !.req = "force"]>>
  <2>3. w \in Seq(Write) /\ w # <<>> BY <2>2
  <2>4. Sends(k, w) \/ Ends(k) BY <1>5 DEF Confirm
  <2> HIDE DEF w
  <2>5. AnswerOK' BY <2>3, <2>4, AnswerTypes
  <2> QED BY <1>1, <1>5, <2>5, AfterAnswer DEF Confirm
<1>6. ASSUME NEW T \in Tables, Read(k, T) PROVE TypeOK'
  <2>1. ReadingOK' BY <1>6 DEF Read, ReadingOK, TablesOK
  <2>2. TablesOK' /\ CanvasOK' /\ WorkOK' /\ RestOK'
        BY <1>6 DEF Read, tables, canvas, bounds, history, TablesOK, CanvasOK, WorkOK, RestOK
  <2> QED BY <2>1, <2>2, TypePartsPrimed
<1>7. ASSUME Show(k) PROVE TypeOK'
  <2>1. /\ WorkOK' /\ ReadingOK' /\ overtaken' \in [Ops -> BOOLEAN]
        /\ shaky' \in [Ops -> BOOLEAN]
        BY <1>7, AnswerTypes DEF Show
  <2>2. CanvasOK' BY <1>0, <1>7 DEF Show, CanvasOK, ReadingOK
  <2>3. TablesOK' BY <1>7 DEF Show, tables, TablesOK
  <2>4. behind' \in [Pages -> BOOLEAN] BY <1>7 DEF Show, RestOK
  <2>5. RestOK' BY <1>7, <2>1, <2>4 DEF Show, bounds, RestOK
  <2> QED BY <2>1, <2>2, <2>3, <2>5, TypePartsPrimed
<1> QED BY <1>3, <1>4, <1>5, <1>6, <1>7 DEF Settle

LEMMA FaultType ==
    ASSUME TypeOK, NEW k \in Ops, Lose(k) \/ LoadFails(k)
    PROVE  TypeOK'
<1> USE TypeParts
<1>1. faults' \in 0 .. MaxFaults
      BY ConstantsAssumption DEF Lose, LoadFails, Fault, RestOK
<1>2. CASE Lose(k)
  <2>1. WorkOK' BY <1>2 DEF Lose, WorkOK, Stations
  <2>2. TablesOK' /\ CanvasOK' /\ ReadingOK'
        BY <1>2 DEF Lose, tables, canvas, reading, TablesOK, CanvasOK, ReadingOK
  <2>3. behind' \in [Pages -> BOOLEAN] BY <1>2 DEF Lose, RestOK
  <2>4. RestOK' BY <1>1, <1>2, <2>3 DEF Lose, RestOK
  <2> QED BY <2>1, <2>2, <2>4, TypePartsPrimed
<1>3. CASE LoadFails(k)
  <2>1. /\ WorkOK' /\ ReadingOK' /\ overtaken' \in [Ops -> BOOLEAN]
        /\ shaky' \in [Ops -> BOOLEAN]
        BY <1>3, AnswerTypes DEF LoadFails
  <2>2. CanvasOK' BY <1>3 DEF LoadFails, NotLoading, CanvasOK
  <2>3. TablesOK' BY <1>3 DEF LoadFails, tables, TablesOK
  <2>4. RestOK' BY <1>1, <1>3, <2>1 DEF LoadFails, RestOK, history
  <2> QED BY <2>1, <2>2, <2>3, <2>4, TypePartsPrimed
<1> QED BY <1>2, <1>3

LEMMA TypeStep == TypeOK /\ [Next]_vars => TypeOK'
<1> SUFFICES ASSUME TypeOK, [Next]_vars PROVE TypeOK' OBVIOUS
<1>1. CASE Next
  <2>1. PICK k \in Ops : Make(k) \/ Handle(k) \/ Settle(k) \/ Lose(k) \/ LoadFails(k)
        BY <1>1 DEF Next
  <2> QED BY <2>1, MakeType, HandleType, SettleType, FaultType
<1>2. CASE UNCHANGED vars
      BY <1>2, TypeParts, TypePartsPrimed
      DEF vars, tables, canvas, operation, reading, bounds, history,
          TablesOK, CanvasOK, WorkOK, ReadingOK, RestOK
<1> QED BY <1>1, <1>2

\* Every variable keeps its type, and an operation under way or an open editor
\* has a write to send (the gestures of FleetTopologyCanvas and the editors).
THEOREM TypeCorrect == Spec => []TypeOK
<1> QED BY TypeInit, TypeStep, PTL DEF Spec
-----------------------------------------------------------------------------
(* What a step leaves alone.                                                *)

OthersKept(k) ==
    \A j \in Ops \ {k} :
        /\ st'[j] = st[j] /\ kind'[j] = kind[j] /\ plan'[j] = plan[j]
        /\ row'[j] = row[j] /\ left'[j] = left[j]
        /\ got'[j] = got[j] /\ gotRefs'[j] = gotRefs[j]
\* A step that writes no table and checks nothing.
Quiet(k) == UNCHANGED <<alive, refs, born, forced, raced, drifted>> /\ st'[k] # "checked"

LEMMA GestureKeeps ==
    ASSUME TypeOK, NEW k \in Ops, NEW what, NEW writes, Gesture(k, what, writes)
    PROVE  OthersKept(k) /\ Quiet(k) /\ st'[k] = "sent"
BY TypeParts DEF Gesture, WorkOK, OthersKept, Quiet, tables, history, reading

LEMMA AnswerKeeps ==
    ASSUME TypeOK, NEW k \in Ops
    PROVE  /\ StartsLoad(k) => OthersKept(k) /\ st'[k] = "list"
           /\ Clears(k) => OthersKept(k) /\ st'[k] \in {"idle", "open"}
           /\ Ends(k) => OthersKept(k) /\ st'[k] \in {"idle", "open"}
           /\ \A w : Sends(k, w) => OthersKept(k) /\ st'[k] = "sent"
           /\ GoesOn(k) => OthersKept(k) /\ st'[k] \in {"list", "sent"}
<1> USE TypeParts DEF WorkOK, ReadingOK, OthersKept
<1>1. StartsLoad(k) => OthersKept(k) /\ st'[k] = "list" BY DEF StartsLoad
<1>2. Clears(k) => OthersKept(k) /\ st'[k] \in {"idle", "open"} BY DEF Clears
<1>3. Ends(k) => OthersKept(k) /\ st'[k] \in {"idle", "open"} BY <1>2 DEF Ends
<1>4. \A w : Sends(k, w) => OthersKept(k) /\ st'[k] = "sent" BY DEF Sends, reading
<1>5. GoesOn(k) => OthersKept(k) /\ st'[k] \in {"list", "sent"} BY <1>1, <1>4 DEF GoesOn
<1> QED BY <1>1, <1>2, <1>3, <1>4, <1>5

LEMMA MakeKeeps ==
    ASSUME TypeOK, NEW k \in Ops, Make(k)
    PROVE  OthersKept(k) /\ Quiet(k)
<1>1. ASSUME NEW what, NEW writes, Gesture(k, what, writes) PROVE OthersKept(k) /\ Quiet(k)
      BY <1>1, GestureKeeps
<1>2. ASSUME NEW n \in Nodes, Open(k, n) PROVE OthersKept(k) /\ Quiet(k)
      BY <1>2, TypeParts DEF Open, WorkOK, OthersKept, Quiet, tables, history, reading
<1>3. ASSUME Save(k) PROVE OthersKept(k) /\ Quiet(k)
      BY <1>3, TypeParts DEF Save, WorkOK, OthersKept, Quiet, tables, history, reading
<1>4. ASSUME RemoveOpen(k) PROVE OthersKept(k) /\ Quiet(k)
      BY <1>4, TypeParts DEF RemoveOpen, WorkOK, OthersKept, Quiet, tables, history, reading
<1>5. ASSUME Close(k) PROVE OthersKept(k) /\ Quiet(k)
      BY <1>5, TypeParts DEF Close, WorkOK, OthersKept, Quiet, tables, history, reading
<1>6. ASSUME Retry(k) PROVE OthersKept(k) /\ Quiet(k)
      BY <1>6, AnswerKeeps DEF Retry, Quiet, tables, history
<1> QED BY <1>1, <1>2, <1>3, <1>4, <1>5, <1>6
        DEF Make, Connect, Cut, CutTwo, Splice, Add, Remove

LEMMA SettleKeeps ==
    ASSUME TypeOK, NEW k \in Ops, Settle(k)
    PROVE  OthersKept(k) /\ Quiet(k)
<1>1. ASSUME Succeed(k) PROVE OthersKept(k) /\ Quiet(k)
      BY <1>1, AnswerKeeps DEF Succeed, Quiet, tables, history
<1>2. ASSUME Fail(k) PROVE OthersKept(k) /\ Quiet(k)
      BY <1>2, AnswerKeeps DEF Fail, Recovers, Quiet, tables, history
<1>3. ASSUME Confirm(k) PROVE OthersKept(k) /\ Quiet(k)
      BY <1>3, AnswerKeeps DEF Confirm, Quiet, tables, history
<1>4. ASSUME NEW T \in Tables, Read(k, T) PROVE OthersKept(k) /\ Quiet(k)
      BY <1>4, TypeParts DEF Read, At, ReadingOK, OthersKept, Quiet, tables, history
<1>5. ASSUME Show(k) PROVE OthersKept(k) /\ Quiet(k)
      BY <1>5, AnswerKeeps DEF Show, Quiet, tables
<1> QED BY <1>1, <1>2, <1>3, <1>4, <1>5 DEF Settle

LEMMA FaultKeeps ==
    ASSUME TypeOK, NEW k \in Ops, Lose(k) \/ LoadFails(k) \/ ApplyFails(k)
    PROVE  OthersKept(k) /\ Quiet(k)
<1>1. ASSUME Lose(k) PROVE OthersKept(k) /\ Quiet(k)
      BY <1>1, TypeParts DEF Lose, WorkOK, OthersKept, Quiet, tables, reading
<1>2. ASSUME LoadFails(k) PROVE OthersKept(k) /\ Quiet(k)
      BY <1>2, AnswerKeeps DEF LoadFails, Quiet, tables, history
<1>3. ASSUME ApplyFails(k) PROVE OthersKept(k) /\ Quiet(k)
      BY <1>3, TypeParts DEF ApplyFails, WorkOK, OthersKept, Quiet, tables, reading, history
<1> QED BY <1>1, <1>2, <1>3

LEMMA HandleKeeps ==
    ASSUME TypeOK, NEW k \in Ops, Handle(k)
    PROVE  OthersKept(k) /\ kind' = kind /\ plan' = plan
<1>1. ASSUME Check(k) PROVE OthersKept(k) /\ kind' = kind /\ plan' = plan
      BY <1>1, TypeParts DEF Check, WorkOK, OthersKept, reading
<1>2. ASSUME Apply(k) PROVE OthersKept(k) /\ kind' = kind /\ plan' = plan
      BY <1>2, TypeParts DEF Apply, WorkOK, OthersKept, reading
<1>3. ASSUME ApplyFails(k) PROVE OthersKept(k) /\ kind' = kind /\ plan' = plan
      BY <1>3, TypeParts DEF ApplyFails, WorkOK, OthersKept, reading
<1>4. ASSUME Insert(k) PROVE OthersKept(k) /\ kind' = kind /\ plan' = plan
      BY <1>4, TypeParts DEF Insert, WorkOK, OthersKept, reading
<1>5. ASSUME Erase(k) PROVE OthersKept(k) /\ kind' = kind /\ plan' = plan
      BY <1>5, TypeParts DEF Erase, WorkOK, OthersKept, reading
<1> QED BY <1>1, <1>2, <1>3, <1>4, <1>5 DEF Handle

-----------------------------------------------------------------------------
(* Dangling references.                                                     *)

\* A write past its check names only what existed then: what of it is gone
\* since was deleted by force or in a race.
CheckedNames ==
    \A k \in Ops : (At(k, "checked") /\ Now(k).req \in {"put", "create"})
                   => (Now(k).put \ alive \subseteq forced \cup raced)
DInv == DanglingHasCause /\ CheckedNames

LEMMA DanglingInit == Init => DInv
<1> SUFFICES ASSUME Init PROVE DInv OBVIOUS
<1>1. ASSUME NEW n \in alive PROVE refs[n] \subseteq alive
  <2>1. n \in Nodes /\ refs[n] = Wired[n] /\ alive = Existing
        BY ConstantsAssumption DEF Init
  <2>2. Wired[n] # {} => Valid(n, Wired[n], Existing)
        BY <2>1, ConstantsAssumption
  <2> QED BY <2>1, <2>2 DEF Valid
<1>2. CheckedNames BY DEF Init, CheckedNames, At
<1> QED BY <1>1, <1>2 DEF DInv, DanglingHasCause

LEMMA DanglingQuiet ==
    ASSUME TypeOK, DInv, NEW k \in Ops, OthersKept(k), Quiet(k)
    PROVE  DInv'
<1>1. DanglingHasCause' BY DEF DInv, DanglingHasCause, Quiet
<1>2. CheckedNames' BY DEF DInv, CheckedNames, Quiet, OthersKept, At, Now
<1> QED BY <1>1, <1>2 DEF DInv

LEMMA DanglingStep == TypeOK /\ DInv /\ [Next]_vars => DInv'
<1> SUFFICES ASSUME TypeOK, DInv, [Next]_vars PROVE DInv' OBVIOUS
<1>1. ASSUME NEW k \in Ops, Check(k) PROVE DInv'
  <2>1. UNCHANGED <<alive, refs, forced, raced, plan>>
        BY <1>1 DEF Check, tables, history
  <2>2. DanglingHasCause' BY <2>1 DEF DInv, DanglingHasCause
  <2>3. (st'[k] = "checked" /\ Now(k).req \in {"put", "create"}) => (Now(k).put \subseteq alive)
        BY <1>1, TypeParts DEF Check, WorkOK, Valid
  <2>4. OthersKept(k) BY <1>1, HandleKeeps DEF Handle
  <2>5. CheckedNames'
        BY <2>1, <2>3, <2>4 DEF DInv, CheckedNames, OthersKept, At, Now
  <2> QED BY <2>2, <2>5 DEF DInv
<1>2. ASSUME NEW k \in Ops, Apply(k) PROVE DInv'
  <2>1. UNCHANGED <<alive, forced, raced, plan>> /\ OthersKept(k) /\ st'[k] = "ok"
        BY <1>2, HandleKeeps, TypeParts DEF Apply, Handle, WorkOK
  <2>2. Now(k) \in Write BY <1>2, NowType, TypeParts DEF Apply, At
  <2>3. Now(k).node \in alive /\ Now(k).node \in Nodes
        BY <1>2, <2>2, WriteParts DEF Apply
  <2>4. Now(k).put \ alive \subseteq forced \cup raced
        BY <1>2 DEF Apply, DInv, CheckedNames
  <2>5. refs[Now(k).node] \ alive \subseteq forced \cup raced
        BY <2>3 DEF DInv, DanglingHasCause
  <2>6. NewRow(k) \ alive \subseteq forced \cup raced
        BY <2>4, <2>5 DEF NewRow, Column
  <2>7. refs' = [refs EXCEPT ![Now(k).node] = NewRow(k)] BY <1>2 DEF Apply
  <2>8. DanglingHasCause'
        BY <2>1, <2>6, <2>7, TypeParts DEF DInv, DanglingHasCause, TablesOK
  <2>9. CheckedNames' BY <2>1 DEF DInv, CheckedNames, OthersKept, At, Now
  <2> QED BY <2>8, <2>9 DEF DInv
<1>3. ASSUME NEW k \in Ops, Insert(k) PROVE DInv'
  <2>1. UNCHANGED <<forced, raced, plan>> /\ OthersKept(k) /\ st'[k] = "ok"
        BY <1>3, HandleKeeps, TypeParts DEF Insert, Handle, WorkOK
  <2>2. alive' = alive \cup {Now(k).node} BY <1>3 DEF Insert
  <2>3. Now(k).put \ alive \subseteq forced \cup raced
        BY <1>3 DEF Insert, DInv, CheckedNames
  <2>4. refs' = [refs EXCEPT ![Now(k).node] = Now(k).put] BY <1>3 DEF Insert
  <2>5. ASSUME NEW n \in alive' PROVE refs'[n] \ alive' \subseteq forced' \cup raced'
    <3>1. Now(k).node \in Nodes /\ alive \subseteq Nodes
          BY <1>3, NowType, TypeParts, WriteParts DEF Insert, At, TablesOK
    <3>2. CASE n = Now(k).node
          BY <2>1, <2>2, <2>3, <2>4, <3>1, <3>2, TypeParts DEF TablesOK
    <3>3. CASE n # Now(k).node
          BY <2>1, <2>2, <2>4, <2>5, <3>1, <3>3, TypeParts
          DEF TablesOK, DInv, DanglingHasCause
    <3> QED BY <3>2, <3>3
  <2>6. CheckedNames' BY <2>1, <2>2 DEF DInv, CheckedNames, OthersKept, At, Now
  <2> QED BY <2>5, <2>6 DEF DInv, DanglingHasCause
<1>4. ASSUME NEW k \in Ops, Erase(k) PROVE DInv'
  <2> DEFINE x == Now(k).node
  <2>1. UNCHANGED plan /\ OthersKept(k) /\ st'[k] = "ok"
        BY <1>4, HandleKeeps, TypeParts DEF Erase, Handle, WorkOK
  <2>2. alive' = alive \ {x} /\ refs' = [refs EXCEPT ![x] = {}]
        BY <1>4 DEF Erase
  <2>3. /\ forced \subseteq forced' /\ raced \subseteq raced'
        /\ InUse(x) \cup Naming(x) # {} => x \in raced'
        BY <1>4 DEF Erase
  <2>4. ASSUME NEW n \in alive' PROVE refs'[n] \ alive' \subseteq forced' \cup raced'
    <3>1. n \in alive /\ n # x /\ n \in Nodes /\ refs'[n] = refs[n]
          BY <2>2, <2>4, TypeParts DEF TablesOK
    <3>2. x \in refs[n] => x \in raced'
          BY <2>3, <3>1 DEF InUse, References
    <3> QED BY <2>2, <2>3, <3>1, <3>2 DEF DInv, DanglingHasCause
  <2>5. ASSUME NEW j \in Ops, At(j, "checked")', Now(j)'.req \in {"put", "create"}
        PROVE  Now(j)'.put \ alive' \subseteq forced' \cup raced'
    <3>1. j # k /\ At(j, "checked") /\ Now(j)' = Now(j)
          BY <2>1, <2>5 DEF OthersKept, At, Now
    <3>2. x \in Now(j).put => x \in raced'
          BY <2>3, <3>1 DEF Naming
    <3> QED BY <2>2, <2>3, <2>5, <3>1, <3>2 DEF DInv, CheckedNames
  <2> QED BY <2>4, <2>5 DEF DInv, DanglingHasCause, CheckedNames
<1>5. ASSUME NEW k \in Ops, Make(k) \/ Settle(k) \/ Lose(k) \/ LoadFails(k) \/ ApplyFails(k)
      PROVE  DInv'
      BY <1>5, MakeKeeps, SettleKeeps, FaultKeeps, DanglingQuiet
<1>6. CASE UNCHANGED vars
      BY <1>6 DEF vars, tables, operation, history, DInv, DanglingHasCause, CheckedNames, At, Now
<1> QED BY <1>1, <1>2, <1>3, <1>4, <1>5, <1>6 DEF Next, Handle

\* A row names what does not exist only when that was deleted by force, or came
\* to be named between the check of its delete and its commit (find_references,
\* ensure_deletable and the delete handlers).
THEOREM DanglingExplained == Spec => []DanglingHasCause
<1>1. Init => TypeOK /\ DInv BY TypeInit, DanglingInit
<1>2. TypeOK /\ DInv /\ [Next]_vars => (TypeOK /\ DInv)' BY TypeStep, DanglingStep
<1>3. DInv => DanglingHasCause BY DEF DInv
<1> QED BY <1>1, <1>2, <1>3, PTL DEF Spec

-----------------------------------------------------------------------------
(* What a page at rest shows.                                               *)

\* The gestures that draw on the canvas, which ends them with a load whatever
\* happens; only they send more than one write, and they delete no node.
Drawn == {"connect", "cut", "cuts", "splice"}
PlanFit(what, w) ==
    /\ (Len(w) > 1 => what \in Drawn)
    /\ (what \in Drawn => \A i \in 1 .. Len(w) : w[i].req \in {"put", "create"})
PlansFit == \A j \in Ops : /\ PlanFit(kind[j], plan[j])
                           /\ (kind[j] = "load" => st[j] \in {"idle", "list"})
                           /\ (st[j] = "used" => kind[j] \notin Drawn)

\* Unless somebody wrote meanwhile, a load has the tables it has read as they are.
HasRead(j, n) == \E T \in Tables \ left[j] : n \in T
ReadingFit(j) ==
    /\ (st[j] # "list" => (~overtaken[j] /\ got[j] = {}))
    /\ (st[j] = "list" => \A n \in got[j] : HasRead(j, n))
    /\ ((st[j] = "list" /\ ~overtaken[j]) =>
          \A n \in Nodes : HasRead(j, n) =>
             ((n \in got[j]) = (n \in alive) /\ gotRefs[j][n] = refs[n]))
ReadingsFit == \A j \in Ops : ReadingFit(j)

\* A page that does not show the tables loads again, or was told that others
\* wrote, or shows an error.
Fresh(p) == nodesAt[p] = alive /\ refsAt[p] = refs
Reloads(j) == \/ st[j] \in {"list", "ok"}
              \/ st[j] \in {"sent", "checked", "bad"} /\ kind[j] \in Drawn
FreshOrReloading ==
    \A p \in Pages : Fresh(p) \/ behind[p] \/ failed[p] \/ \E j \in Mine(p) : Reloads(j)
FInv == PlansFit /\ ReadingsFit /\ FreshOrReloading

LEMMA OnePlan ==
    ASSUME NEW what, NEW w, what \notin Drawn \/ w.req \in {"put", "create"}
    PROVE  PlanFit(what, <<w>>)
BY DEF PlanFit

LEMMA GesturePlan ==
    ASSUME TypeOK, PlansFit, NEW k \in Ops, NEW what \in Kinds \ {"load"}, NEW w,
           PlanFit(what, w), Gesture(k, what, w)
    PROVE  PlansFit'
<1>1. /\ kind'[k] = what /\ plan'[k] = w /\ st'[k] = "sent"
      /\ \A j \in Ops \ {k} : kind'[j] = kind[j] /\ plan'[j] = plan[j] /\ st'[j] = st[j]
      BY TypeParts DEF Gesture, WorkOK
<1> QED BY <1>1 DEF PlansFit, PlanFit

LEMMA PlanStep ==
    ASSUME TypeOK, PlansFit, NEW k \in Ops,
           Make(k) \/ Handle(k) \/ Settle(k) \/ Lose(k) \/ LoadFails(k)
    PROVE  PlansFit'
<1>k. {"connect", "cut", "cuts", "splice", "add", "save", "delete"} \subseteq Kinds \ {"load"}
      BY DEF Kinds
<1>d. Drawn = {"connect", "cut", "cuts", "splice"} BY DEF Drawn
<1>w. WorkOK BY TypeParts
<1>p. \A n, b, s : /\ Put(n, b, s).req = "put" /\ Create(n, s).req = "create"
      BY DEF Put, Create
<1>1. ASSUME OthersKept(k), kind'[k] = kind[k], plan'[k] = plan[k],
             kind[k] = "load" => st'[k] \in {"idle", "list"}, st'[k] # "used"
      PROVE  PlansFit'
      BY <1>1 DEF PlansFit, PlanFit, OthersKept
<1>2. ASSUME OthersKept(k), PlanFit(kind'[k], plan'[k]),
             kind'[k] = "load" => st'[k] \in {"idle", "list"}, st'[k] # "used"
      PROVE  PlansFit'
      BY <1>2 DEF PlansFit, PlanFit, OthersKept
<1>3. /\ PlanFit(kind[k], plan[k]) /\ (kind[k] = "load" => st[k] \in {"idle", "list"})
      /\ (st[k] = "used" => kind[k] \notin Drawn)
      BY DEF PlansFit
<1>e. \A what : PlanFit(what, <<>>) BY DEF PlanFit
\* Gestures.
<1>4. ASSUME NEW s \in Upstream, NEW t \in Nodes, Connect(k, s, t) PROVE PlansFit'
  <2> DEFINE w == Put(t, Shown(PageOf[k], t), Shown(PageOf[k], t) \cup {s})
  <2>1. Gesture(k, "connect", <<w>>) BY <1>4 DEF Connect
  <2>2. w.req = "put" BY <1>p
  <2> HIDE DEF w
  <2> QED BY <1>k, <2>1, <2>2, OnePlan, GesturePlan
<1>5. ASSUME NEW e \in Upstream \X Nodes, Cut(k, e) PROVE PlansFit'
  <2>1. Gesture(k, "cut", <<Without(PageOf[k], e)>>) BY <1>5 DEF Cut
  <2>2. Without(PageOf[k], e).req = "put" BY <1>p DEF Without
  <2> QED BY <1>k, <2>1, <2>2, OnePlan, GesturePlan
<1>6. ASSUME NEW d \in Upstream \X Nodes, NEW e \in Upstream \X Nodes, CutTwo(k, d, e)
      PROVE  PlansFit'
  <2> DEFINE what == IF d[2] = e[2] THEN "cuts" ELSE "cut"
             v == Without(PageOf[k], d)
             w == Without(PageOf[k], e)
  <2>1. Gesture(k, what, <<v, w>>) BY <1>6 DEF CutTwo
  <2>2. v.req = "put" /\ w.req = "put" BY <1>p DEF Without
  <2>3. what \in {"cut", "cuts"} OBVIOUS
  <2> HIDE DEF what, v, w
  <2>4. PlanFit(what, <<v, w>>) BY <2>2, <2>3, <1>d DEF PlanFit
  <2> QED BY <1>k, <2>1, <2>3, <2>4, GesturePlan
<1>7. ASSUME NEW s \in Upstream, NEW t \in Nodes, NEW n \in Stages, Splice(k, s, t, n)
      PROVE  PlansFit'
  <2> DEFINE v == Create(n, {s})
             w == Put(t, Shown(PageOf[k], t), Spliced(PageOf[k], s, t, n))
  <2>1. Gesture(k, "splice", <<v, w>>) BY <1>7 DEF Splice
  <2>2. v.req = "create" /\ w.req = "put" BY <1>p
  <2> HIDE DEF v, w
  <2>3. PlanFit("splice", <<v, w>>) BY <2>2, <1>d DEF PlanFit
  <2> QED BY <1>k, <2>1, <2>3, GesturePlan
<1>8. ASSUME NEW n \in Nodes, Add(k, n) \/ Remove(k, n) PROVE PlansFit'
  <2>1. \A what \in {"add", "delete"} : \A w : Gesture(k, what, <<w>>) => PlansFit'
        BY <1>k, <1>d, OnePlan, GesturePlan
  <2>2. CASE Add(k, n)
    <3>1. Gesture(k, "add", <<Create(n, {})>>) BY <2>2 DEF Add
    <3> QED BY <2>1, <3>1
  <2>3. CASE Remove(k, n)
    <3>1. Gesture(k, "delete", <<Delete(n)>>) BY <2>3 DEF Remove
    <3> QED BY <2>1, <3>1
  <2> QED BY <1>8, <2>2, <2>3
<1>9. ASSUME NEW n \in Nodes, Open(k, n) PROVE PlansFit'
  <2>1. OthersKept(k) BY <1>9, MakeKeeps DEF Make
  <2>2. PICK w : kind'[k] = "save" /\ plan'[k] = <<w>> /\ st'[k] = "open"
        BY <1>9, <1>w DEF Open, WorkOK
  <2>3. PlanFit("save", <<w>>) BY <1>d, OnePlan
  <2> QED BY <1>2, <2>1, <2>2, <2>3
<1>10. ASSUME Save(k) PROVE PlansFit'
  <2>1. OthersKept(k) /\ kind' = kind /\ st[k] = "open"
        BY <1>10, MakeKeeps DEF Make, Save, At
  <2>2. PICK w : plan'[k] = <<w>> /\ w.req = "put" /\ st'[k] = "sent"
        BY <1>10, <1>w, <1>p DEF Save, WorkOK
  <2>3. PlanFit(kind[k], <<w>>) BY <2>2, OnePlan
  <2> QED BY <1>2, <1>3, <2>1, <2>2, <2>3
<1>11. ASSUME RemoveOpen(k) PROVE PlansFit'
  <2>1. OthersKept(k) BY <1>11, MakeKeeps DEF Make
  <2>2. PICK w : kind'[k] = "delete" /\ plan'[k] = <<w>> /\ st'[k] = "sent"
        BY <1>11, <1>w DEF RemoveOpen, WorkOK
  <2>3. PlanFit("delete", <<w>>) BY <1>d, OnePlan
  <2> QED BY <1>2, <2>1, <2>2, <2>3
<1>12. ASSUME Close(k) PROVE PlansFit'
  <2>1. OthersKept(k) BY <1>12, MakeKeeps DEF Make
  <2>2. plan'[k] = <<>> /\ st'[k] = "idle" BY <1>12, <1>w DEF Close, WorkOK
  <2> QED BY <1>2, <1>e, <2>1, <2>2
\* Answers.
<1>13. ASSUME StartsLoad(k) PROVE PlansFit'
  <2>1. OthersKept(k) /\ st'[k] = "list" BY <1>13, AnswerKeeps
  <2>2. kind' = kind /\ plan'[k] \in {plan[k], <<>>} BY <1>13, <1>w DEF StartsLoad, WorkOK
  <2> QED BY <1>2, <1>3, <1>e, <2>1, <2>2
<1>14. ASSUME Clears(k) PROVE PlansFit'
  <2>1. OthersKept(k) /\ st'[k] \in {"idle", "open"} BY <1>14, AnswerKeeps
  <2>2. CASE kind[k] = "save"
    <3>1. kind' = kind /\ plan' = plan /\ kind[k] # "load" BY <1>14, <2>2 DEF Clears
    <3> QED BY <1>1, <2>1, <2>2, <3>1
  <2>3. CASE kind[k] # "save"
    <3>1. plan'[k] = <<>> /\ st'[k] = "idle" BY <1>14, <1>w, <2>3 DEF Clears, WorkOK
    <3> QED BY <1>2, <1>e, <2>1, <3>1
  <2> QED BY <2>2, <2>3
<1>15. ASSUME Len(plan[k]) > 1, Sends(k, Tail(plan[k])) PROVE PlansFit'
  <2>1. OthersKept(k) /\ st'[k] = "sent" BY <1>15, AnswerKeeps
  <2>2. kind' = kind /\ plan'[k] = Tail(plan[k]) BY <1>15, <1>w DEF Sends, WorkOK
  <2>3. plan[k] \in Seq(Write) BY <1>w DEF WorkOK
  <2>4. Len(Tail(plan[k])) = Len(plan[k]) - 1 BY <1>15, <2>3, TailType
  <2>5. \A i \in 1 .. Len(Tail(plan[k])) :
           i + 1 \in 1 .. Len(plan[k]) /\ Tail(plan[k])[i] = plan[k][i + 1]
        BY <1>15, <2>3, <2>4
  <2>6. kind[k] \in Drawn BY <1>3, <1>15 DEF PlanFit
  <2>7. PlanFit(kind[k], Tail(plan[k])) BY <1>3, <2>5, <2>6 DEF PlanFit
  <2>8. kind[k] # "load" BY <1>d, <2>6
  <2> QED BY <1>2, <2>1, <2>2, <2>7, <2>8
<1>16. ASSUME GoesOn(k) PROVE PlansFit'
       BY <1>13, <1>15, <1>16 DEF GoesOn
<1>17. ASSUME Succeed(k) \/ Fail(k) PROVE PlansFit'
       BY <1>13, <1>14, <1>16, <1>17 DEF Succeed, Fail, Recovers, Ends
<1>18. ASSUME Confirm(k) PROVE PlansFit'
  <2>1. CASE Ends(k) BY <1>14, <2>1 DEF Ends
  <2>2. CASE Sends(k, <<[Now(k) EXCEPT !.req = "force"]>>)
    <3> DEFINE w == [Now(k) EXCEPT !.req = "force"]
    <3>1. OthersKept(k) /\ st'[k] = "sent" BY <2>2, AnswerKeeps
    <3>2. kind' = kind /\ plan'[k] = <<w>> BY <2>2, <1>w DEF Sends, WorkOK
    <3>3. st[k] = "used" BY <1>18 DEF Confirm, At
    <3> HIDE DEF w
    <3>4. PlanFit(kind[k], <<w>>) BY <1>3, <3>3, OnePlan
    <3> QED BY <1>2, <1>3, <3>1, <3>2, <3>3, <3>4
  <2> QED BY <1>18, <2>1, <2>2 DEF Confirm
<1>19. ASSUME Check(k) PROVE PlansFit'
  <2>1. OthersKept(k) /\ kind' = kind /\ plan' = plan BY <1>19, HandleKeeps DEF Handle
  <2>2. st[k] = "sent" BY <1>19 DEF Check, At
  <2>3. kind[k] # "load" BY <1>3, <2>2
  <2>4. ASSUME st'[k] = "used" PROVE kind[k] \notin Drawn
    <3>1. Now(k).req = "delete" BY <1>19, <1>w, <2>4 DEF Check, WorkOK
    <3>2. plan[k] \in Seq(Write) /\ plan[k] # <<>> BY <1>w, <2>2, NowType
    <3>3. 1 \in 1 .. Len(plan[k]) /\ Now(k) = plan[k][1] BY <3>2 DEF Now
    <3> QED BY <1>3, <3>1, <3>3 DEF PlanFit
  <2> QED BY <1>3, <2>1, <2>3, <2>4 DEF PlansFit, PlanFit, OthersKept
<1>20. ASSUME Apply(k) \/ ApplyFails(k) \/ Insert(k) \/ Erase(k) PROVE PlansFit'
  <2>1. OthersKept(k) /\ kind' = kind /\ plan' = plan BY <1>20, HandleKeeps DEF Handle
  <2>2. st[k] = "checked" /\ st'[k] \in {"ok", "bad"}
        BY <1>20, <1>w DEF Apply, ApplyFails, Insert, Erase, At, WorkOK
  <2> QED BY <1>1, <1>3, <2>1, <2>2
<1>21. ASSUME Lose(k) PROVE PlansFit'
  <2>1. OthersKept(k) /\ kind' = kind /\ plan' = plan BY <1>21, FaultKeeps DEF Lose
  <2>2. st[k] \in {"sent", "ok"} /\ st'[k] = "bad" BY <1>21, <1>w DEF Lose, WorkOK
  <2> QED BY <1>1, <1>3, <2>1, <2>2
<1>22. ASSUME NEW T \in Tables, Read(k, T) PROVE PlansFit'
  <2>1. OthersKept(k) /\ kind' = kind /\ plan' = plan /\ st' = st /\ st[k] = "list"
        BY <1>22, SettleKeeps DEF Settle, Read, At
  <2> QED BY <1>1, <1>3, <2>1
<1> QED
    BY <1>4, <1>5, <1>6, <1>7, <1>8, <1>9, <1>10, <1>11, <1>12, <1>13, <1>14, <1>17, <1>18,
       <1>19, <1>20, <1>21, <1>22 DEF Make, Handle, Settle, Retry, Show, LoadFails

\* What the steps do to the marks of the other operations.
OthersCalm(k) == \A j \in Ops \ {k} : overtaken'[j] = overtaken[j] /\ shaky'[j] = shaky[j]

LEMMA CalmSteps ==
    ASSUME TypeOK, NEW k \in Ops,
           Make(k) \/ Check(k) \/ ApplyFails(k) \/ Settle(k) \/ Lose(k) \/ LoadFails(k)
    PROVE  OthersCalm(k)
<1> USE TypeParts DEF RestOK, OthersCalm
<1>1. ASSUME StartsLoad(k) \/ Clears(k) \/ (\E w : Sends(k, w)) \/ GoesOn(k) PROVE OthersCalm(k)
      BY <1>1 DEF StartsLoad, Clears, Sends, GoesOn
<1>2. ASSUME NEW what, NEW w, Gesture(k, what, w) PROVE OthersCalm(k)
      BY <1>2 DEF Gesture
<1>3. ASSUME Make(k) PROVE OthersCalm(k)
      BY <1>1, <1>2, <1>3 DEF Make, Connect, Cut, CutTwo, Splice, Add, Remove, Open, Save,
         RemoveOpen, Close, Retry
<1>4. ASSUME Settle(k) PROVE OthersCalm(k)
      BY <1>1, <1>4 DEF Settle, Succeed, Fail, Confirm, Recovers, Ends, Read, Show
<1>5. ASSUME Check(k) \/ ApplyFails(k) \/ Lose(k) \/ LoadFails(k) PROVE OthersCalm(k)
      BY <1>1, <1>5 DEF Check, ApplyFails, Lose, LoadFails
<1> QED BY <1>3, <1>4, <1>5


LEMMA ReadingStep ==
    ASSUME TypeOK, ReadingsFit, NEW k \in Ops,
           Make(k) \/ Handle(k) \/ Settle(k) \/ Lose(k) \/ LoadFails(k)
    PROVE  ReadingsFit'
<1>w. /\ WorkOK /\ ReadingOK /\ overtaken \in [Ops -> BOOLEAN]
      BY TypeParts DEF RestOK
\* Steps that leave the tables alone.
<1>1. ASSUME OthersKept(k), OthersCalm(k), UNCHANGED <<alive, refs>>, ReadingFit(k)'
      PROVE  ReadingsFit'
  <2> SUFFICES ASSUME NEW j \in Ops, j # k PROVE ReadingFit(j)'
      BY <1>1 DEF ReadingsFit
  <2>1. /\ st'[j] = st[j] /\ left'[j] = left[j] /\ got'[j] = got[j]
        /\ gotRefs'[j] = gotRefs[j] /\ overtaken'[j] = overtaken[j]
        BY <1>1 DEF OthersKept, OthersCalm
  <2>2. \A n : HasRead(j, n)' <=> HasRead(j, n) BY <2>1 DEF HasRead
  <2>3. ReadingFit(j) BY DEF ReadingsFit
  <2> QED BY <1>1, <2>1, <2>2, <2>3 DEF ReadingFit
<1>2. ASSUME st[k] # "list", st'[k] # "list", overtaken'[k] = overtaken[k], got'[k] = got[k]
      PROVE  ReadingFit(k)'
      BY <1>2 DEF ReadingsFit, ReadingFit
<1>3. ASSUME StartsLoad(k), st[k] # "list" PROVE ReadingFit(k)'
  <2>1. /\ left'[k] = Tables /\ got'[k] = {} /\ ~overtaken'[k] /\ st'[k] = "list"
        BY <1>3, <1>w DEF StartsLoad, ReadingsFit, ReadingFit, WorkOK, ReadingOK
  <2>2. \A n : ~HasRead(k, n)' BY <2>1 DEF HasRead
  <2> QED BY <2>1, <2>2 DEF ReadingFit
<1>4. ASSUME Clears(k) PROVE ReadingFit(k)'
  <2>1. /\ st'[k] # "list" /\ got'[k] = {} /\ ~overtaken'[k]
    <3>1. st'[k] \in {"idle", "open"} BY <1>4, AnswerKeeps
    <3>2. got'[k] = {} /\ ~overtaken'[k] BY <1>4, <1>w DEF Clears, ReadingOK
    <3> QED BY <3>1, <3>2
  <2> QED BY <2>1 DEF ReadingFit
<1>5. ASSUME NEW w, Sends(k, w), st[k] # "list" PROVE ReadingFit(k)'
  <2>1. st'[k] = "sent" BY <1>5, AnswerKeeps
  <2> QED BY <1>2, <1>5, <2>1 DEF Sends, reading
<1>6. ASSUME GoesOn(k), st[k] # "list" PROVE ReadingFit(k)'
      BY <1>3, <1>5, <1>6 DEF GoesOn
<1>7. ASSUME Make(k) PROVE ReadingFit(k)'
  <2>1. ASSUME NEW what, NEW w, Gesture(k, what, w) PROVE ReadingFit(k)'
    <3>1. st[k] = "idle" /\ st'[k] = "sent" /\ UNCHANGED <<overtaken, got>>
          BY <2>1, <1>w DEF Gesture, At, reading, WorkOK
    <3> QED BY <1>2, <3>1
  <2>2. ASSUME NEW n \in Nodes, Open(k, n) PROVE ReadingFit(k)'
    <3>1. st[k] # "list" /\ UNCHANGED <<overtaken, got>> BY <2>2 DEF Open, reading
    <3>2. st'[k] = "open" BY <2>2, <1>w DEF Open, WorkOK
    <3> QED BY <1>2, <3>1, <3>2
  <2>3. ASSUME Save(k) \/ RemoveOpen(k) \/ Close(k) PROVE ReadingFit(k)'
    <3>1. st[k] = "open" /\ st'[k] \in {"sent", "idle"} /\ UNCHANGED <<overtaken, got>>
          BY <2>3, <1>w DEF Save, RemoveOpen, Close, At, reading, WorkOK
    <3> QED BY <1>2, <3>1
  <2>4. ASSUME Retry(k) PROVE ReadingFit(k)'
        BY <1>3, <2>4 DEF Retry, At
  <2> QED BY <1>7, <2>1, <2>2, <2>3, <2>4 DEF Make, Connect, Cut, CutTwo, Splice, Add, Remove
<1>8. ASSUME Check(k) \/ ApplyFails(k) \/ Lose(k) PROVE ReadingFit(k)'
  <2>1. /\ st[k] \in {"sent", "checked", "ok"} /\ st'[k] \in {"checked", "bad", "used"}
        /\ UNCHANGED <<overtaken, got>>
        BY <1>8, <1>w DEF Check, ApplyFails, Lose, At, reading, WorkOK
  <2> QED BY <1>2, <2>1
<1>9. ASSUME NEW T \in Tables, Read(k, T) PROVE ReadingFit(k)'
  <2>1. /\ st[k] = "list" /\ T \in left[k] /\ UNCHANGED <<st, overtaken, alive, refs>>
        /\ left'[k] = left[k] \ {T} /\ got'[k] = got[k] \cup (alive \cap T)
        /\ \A n \in Nodes : gotRefs'[k][n] = IF n \in T THEN refs[n] ELSE gotRefs[k][n]
        BY <1>9, <1>w DEF Read, At, tables, ReadingOK
  <2>2. \A n : HasRead(k, n)' <=> (HasRead(k, n) \/ n \in T)
        BY <2>1 DEF HasRead
  <2>3. ReadingFit(k) BY DEF ReadingsFit
  <2>4. \A n \in got'[k] : HasRead(k, n)' BY <2>1, <2>2, <2>3 DEF ReadingFit
  <2>5. ASSUME ~overtaken[k], NEW n \in Nodes, HasRead(k, n) \/ n \in T
        PROVE  (n \in got'[k]) = (n \in alive) /\ gotRefs'[k][n] = refs[n]
    <3>1. HasRead(k, n) => ((n \in got[k]) = (n \in alive) /\ gotRefs[k][n] = refs[n])
          BY <2>1, <2>3, <2>5 DEF ReadingFit
    <3>2. n \in got[k] => HasRead(k, n) BY <2>1, <2>3 DEF ReadingFit
    <3>3. gotRefs'[k][n] = refs[n] BY <2>1, <2>5, <3>1
    <3>4. (n \in got'[k]) = (n \in alive) BY <2>1, <2>5, <3>1, <3>2
    <3> QED BY <3>3, <3>4
  <2> QED BY <2>1, <2>2, <2>4, <2>5 DEF ReadingFit
<1>10. ASSUME Settle(k) \/ LoadFails(k) PROVE ReadingFit(k)'
       BY <1>3, <1>4, <1>5, <1>6, <1>9, <1>10
       DEF Settle, Succeed, Fail, Confirm, Recovers, Ends, Show, LoadFails, At
<1>11. ASSUME Make(k) \/ Check(k) \/ ApplyFails(k) \/ Settle(k) \/ Lose(k) \/ LoadFails(k)
       PROVE  ReadingsFit'
  <2>1. OthersKept(k)
        BY <1>11, MakeKeeps, SettleKeeps, FaultKeeps, HandleKeeps DEF Handle
  <2>2. OthersCalm(k) BY <1>11, CalmSteps
  <2>3. UNCHANGED <<alive, refs>>
    <3>1. CASE Check(k) BY <3>1 DEF Check, tables
    <3> QED BY <1>11, <3>1, MakeKeeps, SettleKeeps, FaultKeeps DEF Quiet
  <2>4. ReadingFit(k)' BY <1>7, <1>8, <1>10, <1>11
  <2> QED BY <1>1, <2>1, <2>2, <2>3, <2>4
\* A write overtakes every load that has started.
<1>12. ASSUME Apply(k) \/ Insert(k) \/ Erase(k) PROVE ReadingsFit'
  <2>1. /\ OthersKept(k) /\ Disturbs(k) /\ st[k] = "checked" /\ st'[k] = "ok" /\ UNCHANGED got
    <3>1. OthersKept(k) BY <1>12, HandleKeeps DEF Handle
    <3>2. Disturbs(k) /\ st[k] = "checked" /\ st'[k] = "ok" /\ UNCHANGED got
          BY <1>12, <1>w DEF Apply, Insert, Erase, At, reading, WorkOK
    <3> QED BY <3>1, <3>2
  <2>2. \A j \in Ops : overtaken'[j] = (overtaken[j] \/ st[j] = "list")
        BY <2>1 DEF Disturbs, At
  <2>3. \A j \in Ops : ReadingFit(j) BY DEF ReadingsFit
  <2>4. ReadingFit(k)'
    <3>1. ~overtaken[k] /\ got[k] = {} BY <2>1, <2>3 DEF ReadingFit
    <3>2. ~overtaken'[k] BY <2>1, <2>2, <3>1
    <3> QED BY <2>1, <3>1, <3>2 DEF ReadingFit
  <2>5. ASSUME NEW j \in Ops, j # k PROVE ReadingFit(j)'
    <3>1. /\ st'[j] = st[j] /\ left'[j] = left[j] /\ got'[j] = got[j]
          BY <2>1, <2>5 DEF OthersKept
    <3>2. \A n : HasRead(j, n)' <=> HasRead(j, n) BY <3>1 DEF HasRead
    <3> QED BY <2>2, <2>3, <3>1, <3>2 DEF ReadingFit
  <2> QED BY <2>4, <2>5 DEF ReadingsFit
<1> QED BY <1>11, <1>12 DEF Handle

\* Nothing happens to the other pages, and operation k's page gets what it
\* shows, or is going to load again, or keeps what it has.
LEMMA FreshKept ==
    ASSUME FreshOrReloading, NEW k \in Ops, OthersKept(k), UNCHANGED <<alive, refs>>,
           \A p \in Pages \ {PageOf[k]} :
              /\ nodesAt'[p] = nodesAt[p] /\ refsAt'[p] = refsAt[p]
              /\ (behind[p] => behind'[p]) /\ (failed[p] => failed'[p]),
           \/ Reloads(k)' \/ behind'[PageOf[k]] \/ failed'[PageOf[k]] \/ Fresh(PageOf[k])'
           \/ /\ ~Reloads(k) /\ UNCHANGED <<nodesAt, refsAt>>
              /\ (behind[PageOf[k]] => behind'[PageOf[k]])
              /\ (failed[PageOf[k]] => failed'[PageOf[k]])
    PROVE  FreshOrReloading'
<1> SUFFICES ASSUME NEW p \in Pages
             PROVE  \/ Fresh(p)' \/ behind'[p] \/ failed'[p] \/ \E j \in Mine(p) : Reloads(j)'
    BY DEF FreshOrReloading, Mine
<1>1. Fresh(p) \/ behind[p] \/ failed[p] \/ \E j \in Mine(p) : Reloads(j)
      BY DEF FreshOrReloading
<1>2. \A j \in Ops \ {k} : Reloads(j)' <=> Reloads(j)
      BY DEF OthersKept, Reloads
<1>3. k \in Mine(PageOf[k]) BY DEF Mine
<1>4. CASE p # PageOf[k]
  <2>1. \A j \in Mine(p) : Reloads(j)' <=> Reloads(j) BY <1>2, <1>4 DEF Mine
  <2>2. Fresh(p) => Fresh(p)' BY <1>4 DEF Fresh
  <2> QED BY <1>1, <1>4, <2>1, <2>2
<1>5. CASE p = PageOf[k]
  <2>1. CASE Reloads(k)' BY <1>3, <1>5, <2>1
  <2>2. CASE /\ ~Reloads(k) /\ UNCHANGED <<nodesAt, refsAt>>
             /\ (behind[p] => behind'[p]) /\ (failed[p] => failed'[p])
    <3>1. \A j \in Mine(p) : Reloads(j) => Reloads(j)' BY <1>2, <2>2 DEF Mine
    <3>2. Fresh(p) => Fresh(p)' BY <2>2 DEF Fresh
    <3> QED BY <1>1, <2>2, <3>1, <3>2
  <2> QED BY <1>5, <2>1, <2>2
<1> QED BY <1>4, <1>5

LEMMA FreshStep ==
    ASSUME TypeOK, TypeOK', FInv, NEW k \in Ops,
           Make(k) \/ Handle(k) \/ Settle(k) \/ Lose(k) \/ LoadFails(k)
    PROVE  FreshOrReloading'
<1> DEFINE p == PageOf[k]
<1>t. p \in Pages BY ConstantsAssumption
<1>w. /\ WorkOK /\ ReadingOK /\ CanvasOK
      BY TypeParts
<1>f. FreshOrReloading BY DEF FInv
<1>d. Drawn = {"connect", "cut", "cuts", "splice"} BY DEF Drawn
<1>g. /\ PlanFit(kind[k], plan[k]) /\ (kind[k] = "load" => st[k] \in {"idle", "list"})
      /\ (st[k] = "used" => kind[k] \notin Drawn)
      BY DEF FInv, PlansFit
\* What the answers do: the operation loads again, or did not have to.
<1>1. ASSUME StartsLoad(k) PROVE Reloads(k)' /\ OthersKept(k)
             /\ \A q \in Pages \ {p} : failed'[q] = failed[q]
  <2>1. OthersKept(k) /\ st'[k] = "list" BY <1>1, AnswerKeeps
  <2>2. \A q \in Pages \ {p} : failed'[q] = failed[q] BY <1>1, <1>w DEF StartsLoad, CanvasOK
  <2> QED BY <2>1, <2>2 DEF Reloads
<1>2. ASSUME GoesOn(k) PROVE Reloads(k)' /\ OthersKept(k)
             /\ \A q \in Pages \ {p} : failed'[q] = failed[q]
  <2>1. CASE StartsLoad(k) BY <1>1, <2>1
  <2>2. CASE Len(plan[k]) > 1 /\ Sends(k, Tail(plan[k]))
    <3>1. OthersKept(k) /\ st'[k] = "sent" BY <2>2, AnswerKeeps
    <3>2. kind' = kind /\ failed' = failed BY <2>2 DEF Sends
    <3>3. kind[k] \in Drawn BY <1>g, <2>2 DEF PlanFit
    <3> QED BY <3>1, <3>2, <3>3 DEF Reloads
  <2> QED BY <1>2, <2>1, <2>2 DEF GoesOn
<1>3. ASSUME Make(k) PROVE FreshOrReloading'
  <2>1. OthersKept(k) /\ UNCHANGED <<alive, refs>> BY <1>3, MakeKeeps DEF Quiet
  <2>2. UNCHANGED <<nodesAt, refsAt, behind>>
    <3>1. ASSUME NEW what, NEW w, Gesture(k, what, w) PROVE UNCHANGED <<nodesAt, refsAt, behind>>
          BY <3>1 DEF Gesture, canvas, history
    <3> QED BY <1>3, <3>1 DEF Make, Connect, Cut, CutTwo, Splice, Add, Remove, Open, Save,
            RemoveOpen, Close, Retry, canvas, history
  <2>3. CASE Retry(k)
    <3>1. StartsLoad(k) BY <2>3 DEF Retry
    <3> QED BY <1>1, <1>f, <2>1, <2>2, <3>1, FreshKept
  <2>4. CASE ~Retry(k)
    <3>1. ASSUME NEW what, NEW w, Gesture(k, what, w) PROVE failed' = failed /\ st[k] = "idle"
          BY <3>1 DEF Gesture, canvas, At
    <3>2. failed' = failed /\ st[k] \in {"idle", "open"}
          BY <1>3, <2>4, <3>1 DEF Make, Connect, Cut, CutTwo, Splice, Add, Remove, Open, Save,
             RemoveOpen, Close, canvas, At
    <3>3. ~Reloads(k) BY <3>2 DEF Reloads
    <3> QED BY <1>f, <2>1, <2>2, <3>2, <3>3, FreshKept
  <2> QED BY <2>3, <2>4
<1>4. ASSUME Check(k) \/ ApplyFails(k) PROVE FreshOrReloading'
  <2>1. /\ OthersKept(k) /\ kind' = kind BY <1>4, HandleKeeps DEF Handle
  <2>2. /\ UNCHANGED <<alive, refs, nodesAt, refsAt, behind, failed>>
        BY <1>4 DEF Check, ApplyFails, tables, canvas, history
  <2>3. st[k] \in {"sent", "checked"} /\ st'[k] \in {"checked", "bad", "used"}
        BY <1>4, <1>w DEF Check, ApplyFails, At, WorkOK
  <2>4. PlansFit' BY <1>4, PlanStep DEF FInv, Handle
  <2>5. st'[k] = "used" => kind[k] \notin Drawn BY <2>1, <2>4 DEF PlansFit
  <2>6. Reloads(k)' \/ ~Reloads(k) BY <2>1, <2>3, <2>5 DEF Reloads
  <2> QED BY <1>f, <2>1, <2>2, <2>6, FreshKept
<1>5. ASSUME Apply(k) \/ Insert(k) \/ Erase(k) PROVE FreshOrReloading'
  <2>1. st'[k] = "ok" /\ Disturbs(k)
        BY <1>5, <1>w DEF Apply, Insert, Erase, At, WorkOK
  <2>2. Reloads(k)' /\ k \in Mine(p) BY <2>1 DEF Reloads, Mine
  <2>3. \A q \in Pages \ {p} : behind'[q] BY <2>1 DEF Disturbs
  <2> QED BY <2>2, <2>3 DEF FreshOrReloading, Mine
<1>6. ASSUME Lose(k) PROVE FreshOrReloading'
  <2>1. OthersKept(k) /\ UNCHANGED <<alive, refs>> BY <1>6, FaultKeeps DEF Quiet
  <2>2. /\ UNCHANGED <<nodesAt, refsAt, failed, kind>> /\ st[k] \in {"sent", "ok"} /\ st'[k] = "bad"
        /\ behind' = [behind EXCEPT ![p] =
              @ \/ (st[k] = "ok" /\ kind[k] \in {"add", "save", "delete"})]
        BY <1>6, <1>w DEF Lose, canvas, At, WorkOK
  <2>3. behind \in [Pages -> BOOLEAN] BY TypeParts DEF RestOK
  <2>4. /\ \A q \in Pages : behind[q] => behind'[q]
        /\ (st[k] = "ok" /\ kind[k] \in {"add", "save", "delete"}) => behind'[p]
        BY <1>t, <2>2, <2>3
  <2>5. kind[k] \in {"connect", "cut", "cuts", "splice", "add", "save", "delete"}
        BY <1>g, <1>w, <2>2 DEF WorkOK, Kinds
  <2>6. Reloads(k)' \/ behind'[p] \/ ~Reloads(k)
        BY <1>d, <2>2, <2>4, <2>5 DEF Reloads
  <2>7. \A q \in Pages \ {p} :
           /\ nodesAt'[q] = nodesAt[q] /\ refsAt'[q] = refsAt[q]
           /\ (behind[q] => behind'[q]) /\ (failed[q] => failed'[q])
        BY <2>2, <2>4
  <2>8. (behind[p] => behind'[p]) /\ (failed[p] => failed'[p]) BY <1>t, <2>2, <2>4
  <2>9. \/ Reloads(k)' \/ behind'[p] \/ failed'[p] \/ Fresh(p)'
        \/ /\ ~Reloads(k) /\ UNCHANGED <<nodesAt, refsAt>>
           /\ (behind[p] => behind'[p]) /\ (failed[p] => failed'[p])
        BY <2>2, <2>6, <2>8
  <2> QED BY <1>f, <2>1, <2>7, <2>9, FreshKept
<1>7. ASSUME Succeed(k) PROVE FreshOrReloading'
  <2>1. UNCHANGED <<alive, refs, nodesAt, behind>> /\ GoesOn(k) /\ refsAt' = Patched(k)
        BY <1>7 DEF Succeed, tables, history
  <2>2. \A q \in Pages \ {p} : refsAt'[q] = refsAt[q]
        BY <1>w, <2>1 DEF Patched, CanvasOK
  <2> QED BY <1>2, <1>f, <2>1, <2>2, FreshKept
<1>8. ASSUME Fail(k) PROVE FreshOrReloading'
  <2>1. UNCHANGED <<alive, refs, nodesAt, refsAt, behind>> /\ st[k] = "bad"
        BY <1>8 DEF Fail, tables, history, At
  <2>2. CASE kind[k] \in Drawn
    <3>1. StartsLoad(k) \/ GoesOn(k) BY <1>8, <1>d, <2>2 DEF Fail, Recovers
    <3> QED BY <1>1, <1>2, <1>f, <2>1, <3>1, FreshKept
  <2>3. CASE kind[k] \notin Drawn
    <3>1. Ends(k) BY <1>8, <1>d, <2>3 DEF Fail, Recovers
    <3>2. OthersKept(k) /\ failed' = failed BY <3>1, AnswerKeeps DEF Ends
    <3>3. ~Reloads(k) BY <2>1, <2>3 DEF Reloads
    <3> QED BY <1>f, <2>1, <3>2, <3>3, FreshKept
  <2> QED BY <2>2, <2>3
<1>9. ASSUME Confirm(k) PROVE FreshOrReloading'
  <2>1. UNCHANGED <<alive, refs, nodesAt, refsAt, behind>> /\ st[k] = "used"
        BY <1>9 DEF Confirm, tables, history, At
  <2>2. OthersKept(k) /\ failed' = failed
        BY <1>9, AnswerKeeps DEF Confirm, Ends, Sends
  <2>3. ~Reloads(k) BY <2>1 DEF Reloads
  <2> QED BY <1>f, <2>1, <2>2, <2>3, FreshKept
<1>10. ASSUME NEW T \in Tables, Read(k, T) PROVE FreshOrReloading'
  <2>1. /\ UNCHANGED <<alive, refs, nodesAt, refsAt, behind, failed>> /\ st' = st
        /\ st[k] = "list"
        BY <1>10 DEF Read, tables, canvas, history, At
  <2>2. OthersKept(k) BY <1>10, SettleKeeps DEF Settle
  <2>3. Reloads(k)' BY <2>1 DEF Reloads
  <2> QED BY <1>f, <2>1, <2>2, <2>3, FreshKept
<1>11. ASSUME Show(k) PROVE FreshOrReloading'
  <2>1. /\ UNCHANGED <<alive, refs, failed>> /\ st[k] = "list" /\ left[k] = {}
        /\ nodesAt' = [nodesAt EXCEPT ![p] = got[k]]
        /\ refsAt' = [refsAt EXCEPT ![p] = gotRefs[k]]
        /\ behind' = [behind EXCEPT ![p] = overtaken[k]]
        BY <1>11 DEF Show, tables, At
  <2>2. OthersKept(k) BY <1>11, SettleKeeps DEF Settle
  <2>3. behind \in [Pages -> BOOLEAN] BY TypeParts DEF RestOK
  <2>4. /\ nodesAt'[p] = got[k] /\ refsAt'[p] = gotRefs[k] /\ behind'[p] = overtaken[k]
        /\ \A q \in Pages \ {p} : /\ nodesAt'[q] = nodesAt[q] /\ refsAt'[q] = refsAt[q]
                                  /\ behind'[q] = behind[q]
        BY <1>t, <1>w, <2>1, <2>3 DEF CanvasOK
  <2>5. ASSUME ~overtaken[k] PROVE Fresh(p)'
    <3>1. \A n \in Nodes : HasRead(k, n)
          BY <2>1 DEF HasRead, Tables, Nodes, Upstream
    <3>2. \A n \in Nodes : (n \in got[k]) = (n \in alive) /\ gotRefs[k][n] = refs[n]
          BY <2>1, <2>5, <3>1 DEF FInv, ReadingsFit, ReadingFit
    <3>3. got[k] = alive BY <1>w, <3>2, TypeParts DEF ReadingOK, TablesOK
    <3>4. gotRefs[k] = refs BY <1>w, <3>2, TypeParts DEF ReadingOK, TablesOK
    <3> QED BY <2>1, <2>4, <3>3, <3>4 DEF Fresh
  <2>6. Fresh(p)' \/ behind'[p] BY <2>4, <2>5
  <2> QED BY <1>f, <2>1, <2>2, <2>4, <2>6, FreshKept
<1>12. ASSUME LoadFails(k) PROVE FreshOrReloading'
  <2>1. OthersKept(k) /\ UNCHANGED <<alive, refs>> BY <1>12, FaultKeeps DEF Quiet
  <2>2. /\ UNCHANGED <<nodesAt, refsAt, behind>> /\ failed' = [failed EXCEPT ![p] = TRUE]
        BY <1>12 DEF LoadFails, history
  <2>3. failed'[p] /\ \A q \in Pages \ {p} : failed'[q] = failed[q]
        BY <1>t, <1>w, <2>2 DEF CanvasOK
  <2> QED BY <1>f, <2>1, <2>2, <2>3, FreshKept
<1> QED BY <1>3, <1>4, <1>5, <1>6, <1>7, <1>8, <1>9, <1>10, <1>11, <1>12 DEF Handle, Settle

LEMMA FInit == Init => FInv
<1> SUFFICES ASSUME Init PROVE FInv OBVIOUS
<1>1. PlansFit BY DEF Init, PlansFit, PlanFit, Drawn
<1>2. ReadingsFit BY DEF Init, ReadingsFit, ReadingFit
<1>3. FreshOrReloading BY DEF Init, FreshOrReloading, Fresh
<1> QED BY <1>1, <1>2, <1>3 DEF FInv

LEMMA FStep == TypeOK /\ TypeOK' /\ FInv /\ [Next]_vars => FInv'
<1> SUFFICES ASSUME TypeOK, TypeOK', FInv, [Next]_vars PROVE FInv' OBVIOUS
<1>1. CASE Next
  <2>1. PICK k \in Ops : Make(k) \/ Handle(k) \/ Settle(k) \/ Lose(k) \/ LoadFails(k)
        BY <1>1 DEF Next
  <2>2. PlansFit' BY <2>1, PlanStep DEF FInv
  <2>3. ReadingsFit' BY <2>1, ReadingStep DEF FInv
  <2>4. FreshOrReloading' BY <2>1, FreshStep
  <2> QED BY <2>2, <2>3, <2>4 DEF FInv
<1>2. CASE UNCHANGED vars
  <2>1. UNCHANGED <<st, kind, plan, alive, refs, nodesAt, refsAt, failed, behind,
                    left, got, gotRefs, overtaken>>
        BY <1>2 DEF vars, tables, canvas, operation, reading, history
  <2>2. PlansFit' BY <2>1 DEF FInv, PlansFit, PlanFit
  <2>3. ReadingsFit' BY <2>1 DEF FInv, ReadingsFit, ReadingFit, HasRead
  <2>4. FreshOrReloading' BY <2>1 DEF FInv, FreshOrReloading, Fresh, Mine, Reloads
  <2> QED BY <2>2, <2>3, <2>4 DEF FInv
<1> QED BY <1>1, <1>2

LEMMA FreshAtRest == FInv => FreshCanvas
<1> SUFFICES ASSUME FInv, NEW p \in Pages, \A j \in Mine(p) : st[j] \in {"idle", "open"},
                    ~behind[p], ~failed[p]
             PROVE  nodesAt[p] = alive /\ refsAt[p] = refs
    BY DEF FreshCanvas
<1>1. \A j \in Mine(p) : ~Reloads(j) BY DEF Reloads
<1> QED BY <1>1 DEF FInv, FreshOrReloading, Fresh

\* For any fleet, pages and gestures: a page at rest shows the tables, unless
\* others wrote since, loads overtook each other, or an editor's or dialog's
\* answer was lost (FleetTopologyCanvas.tsx, load).
THEOREM CanvasIsFresh == Spec => []FreshCanvas
<1>1. Init => TypeOK /\ FInv BY TypeInit, FInit
<1>2. TypeOK /\ FInv /\ [Next]_vars => (TypeOK /\ FInv)' BY TypeStep, FStep
<1>3. FInv => FreshCanvas BY FreshAtRest
<1> QED BY <1>1, <1>2, <1>3, PTL DEF Spec

-----------------------------------------------------------------------------
(* What the writes of the canvas do to the rows.                            *)

Named == Upstream \cup Sinks
\* Rows name what has existed, and so do the writes past their check; who does
\* not exist names nothing.
TablesFit ==
    /\ alive \subseteq born
    /\ \A n \in Nodes : refs[n] \subseteq born \cap Named /\ (n \notin alive => refs[n] = {})
ChecksFit ==
    \A j \in Ops : (st[j] = "checked" /\ Now(j).req \in {"put", "create"})
                   => Now(j).put \subseteq born \cap Named
\* Nodes to be created are new, every one for its own operation.
Underway(j) == st[j] \in {"sent", "checked"}
Creating(j) == Underway(j) /\ Now(j).req = "create"
NewFit ==
    \A j \in Ops : Creating(j) =>
       /\ Now(j).node \notin born
       /\ \A h \in Ops \ {j} : Creating(h) => Now(h).node # Now(j).node
\* Only the first of at most two writes may be a create.
ShapeFit(j) ==
    /\ (Len(plan[j]) > 1 => (Len(plan[j]) = 2 /\ plan[j][2].req = "put"))
    /\ ((Underway(j) /\ Now(j).req = "put") => kind[j] \in Drawn \cup {"save"})
    /\ (st[j] = "open" => kind[j] = "save")
RowsFit == TablesFit /\ ChecksFit /\ NewFit /\ \A j \in Ops : ShapeFit(j)

LEMMA RowsKept ==
    ASSUME RowsFit, NEW k \in Ops, OthersKept(k), UNCHANGED <<alive, refs, born>>,
           (st'[k] = "checked" /\ Now(k)'.req \in {"put", "create"})
              => Now(k)'.put \subseteq born \cap Named,
           Creating(k)' => (/\ Now(k)'.node \notin born
                            /\ \A h \in Ops \ {k} : Creating(h) => Now(h).node # Now(k)'.node),
           ShapeFit(k)'
    PROVE  RowsFit'
<1>1. \A j \in Ops \ {k} : Now(j)' = Now(j) /\ (Creating(j)' <=> Creating(j))
      BY DEF OthersKept, Now, Creating, Underway
<1>2. TablesFit' BY DEF RowsFit, TablesFit
<1>3. ChecksFit'
  <2> SUFFICES ASSUME NEW j \in Ops, st'[j] = "checked", Now(j)'.req \in {"put", "create"}
               PROVE  Now(j)'.put \subseteq born \cap Named
      BY DEF ChecksFit
  <2>1. CASE j = k BY <2>1
  <2>2. CASE j # k BY <1>1, <2>2 DEF RowsFit, ChecksFit, OthersKept
  <2> QED BY <2>1, <2>2
<1>4. NewFit'
  <2> SUFFICES ASSUME NEW j \in Ops, Creating(j)'
               PROVE  /\ Now(j)'.node \notin born
                      /\ \A h \in Ops \ {j} : Creating(h)' => Now(h)'.node # Now(j)'.node
      BY DEF NewFit
  <2>1. CASE j = k BY <1>1, <2>1
  <2>2. CASE j # k
    <3>1. Creating(j) /\ Now(j)' = Now(j) BY <1>1, <2>2
    <3>2. Now(j).node \notin born BY <3>1 DEF RowsFit, NewFit
    <3>3. ASSUME NEW h \in Ops \ {j}, Creating(h)' PROVE Now(h)'.node # Now(j).node
      <4>1. CASE h = k BY <2>2, <3>1, <3>3, <4>1
      <4>2. CASE h # k BY <1>1, <3>1, <3>3, <4>2 DEF RowsFit, NewFit
      <4> QED BY <4>1, <4>2
    <3> QED BY <3>1, <3>2, <3>3
  <2> QED BY <2>1, <2>2
<1>5. ASSUME NEW j \in Ops, j # k PROVE ShapeFit(j)'
  <2>1. st'[j] = st[j] /\ kind'[j] = kind[j] /\ plan'[j] = plan[j] /\ Now(j)' = Now(j)
        BY <1>1, <1>5 DEF OthersKept
  <2> QED BY <2>1 DEF RowsFit, ShapeFit, Underway
<1> QED BY <1>2, <1>3, <1>4, <1>5 DEF RowsFit

\* The node of a create is nobody else's.
LEMMA UnusedIsNew ==
    ASSUME TypeOK, NEW n, Unused(n)
    PROVE  n \notin born /\ \A h \in Ops : Creating(h) => Now(h).node # n
<1>1. ASSUME NEW h \in Ops, Creating(h) PROVE Now(h).node # n
  <2>1. plan[h] \in Seq(Write) /\ plan[h] # <<>>
        BY <1>1, NowType, TypeParts DEF Creating, Underway
  <2>2. 1 \in 1 .. Len(plan[h]) /\ Now(h) = plan[h][1] BY <2>1 DEF Now
  <2> QED BY <1>1, <2>2 DEF Unused, Creates, Creating
<1> QED BY <1>1 DEF Unused

LEMMA GestureRows ==
    ASSUME TypeOK, RowsFit, NEW k \in Ops, NEW what \in Kinds, NEW w, Gesture(k, what, w),
           Len(w) > 1 => (Len(w) = 2 /\ w[2].req = "put"),
           Head(w).req = "put" => what \in Drawn,
           Head(w).req = "create" => Unused(Head(w).node)
    PROVE  RowsFit'
<1>1. OthersKept(k) /\ UNCHANGED <<alive, refs, born>> /\ st'[k] = "sent"
      BY GestureKeeps DEF Quiet
<1>2. kind'[k] = what /\ plan'[k] = w BY TypeParts DEF Gesture, WorkOK
<1>3. Now(k)' = Head(w) BY <1>2 DEF Now
<1>4. ShapeFit(k)' BY <1>1, <1>2, <1>3 DEF ShapeFit
<1>5. Creating(k)' => (/\ Now(k)'.node \notin born
                       /\ \A h \in Ops \ {k} : Creating(h) => Now(h).node # Now(k)'.node)
      BY <1>3, UnusedIsNew DEF Creating
<1> QED BY <1>1, <1>4, <1>5, RowsKept

LEMMA OneWriteRows ==
    ASSUME TypeOK, RowsFit, NEW k \in Ops, NEW what \in Kinds, NEW w, Gesture(k, what, <<w>>),
           w.req = "put" => what \in Drawn, w.req = "create" => Unused(w.node)
    PROVE  RowsFit'
<1>1. Head(<<w>>) = w /\ ~(Len(<<w>>) > 1) OBVIOUS
<1> QED BY <1>1, GestureRows

LEMMA MakeRows ==
    ASSUME TypeOK, RowsFit, NEW k \in Ops, Make(k)
    PROVE  RowsFit'
<1>k. {"connect", "cut", "cuts", "splice", "add", "save", "delete"} \subseteq Kinds
      BY DEF Kinds
<1>d. Drawn = {"connect", "cut", "cuts", "splice"} BY DEF Drawn
<1>w. WorkOK BY TypeParts
<1>p. \A n, b, s : /\ Put(n, b, s).req = "put" /\ Create(n, s).req = "create"
                   /\ Create(n, s).node = n /\ Delete(n).req = "delete"
      BY DEF Put, Create, Delete
<1>m. OthersKept(k) /\ UNCHANGED <<alive, refs, born>> /\ st'[k] # "checked"
      BY MakeKeeps DEF Quiet
<1>1. ASSUME NEW s \in Upstream, NEW t \in Nodes, Connect(k, s, t) PROVE RowsFit'
  <2> DEFINE w == Put(t, Shown(PageOf[k], t), Shown(PageOf[k], t) \cup {s})
  <2>1. Gesture(k, "connect", <<w>>) BY <1>1 DEF Connect
  <2>2. w.req = "put" BY <1>p
  <2> HIDE DEF w
  <2> QED BY <1>k, <1>d, <2>1, <2>2, OneWriteRows
<1>2. ASSUME NEW e \in Upstream \X Nodes, Cut(k, e) PROVE RowsFit'
  <2>1. Gesture(k, "cut", <<Without(PageOf[k], e)>>) BY <1>2 DEF Cut
  <2>2. Without(PageOf[k], e).req = "put" BY <1>p DEF Without
  <2> QED BY <1>k, <1>d, <2>1, <2>2, OneWriteRows
<1>3. ASSUME NEW d \in Upstream \X Nodes, NEW e \in Upstream \X Nodes, CutTwo(k, d, e)
      PROVE  RowsFit'
  <2> DEFINE what == IF d[2] = e[2] THEN "cuts" ELSE "cut"
             v == Without(PageOf[k], d)
             w == Without(PageOf[k], e)
  <2>1. Gesture(k, what, <<v, w>>) BY <1>3 DEF CutTwo
  <2>2. v.req = "put" /\ w.req = "put" BY <1>p DEF Without
  <2>3. what \in {"cut", "cuts"} OBVIOUS
  <2> HIDE DEF what, v, w
  <2>4. Len(<<v, w>>) = 2 /\ <<v, w>>[2] = w /\ Head(<<v, w>>) = v OBVIOUS
  <2> QED BY <1>k, <1>d, <2>1, <2>2, <2>3, <2>4, GestureRows
<1>4. ASSUME NEW s \in Upstream, NEW t \in Nodes, NEW n \in Stages, Splice(k, s, t, n)
      PROVE  RowsFit'
  <2> DEFINE v == Create(n, {s})
             w == Put(t, Shown(PageOf[k], t), Spliced(PageOf[k], s, t, n))
  <2>1. Gesture(k, "splice", <<v, w>>) /\ Unused(n) BY <1>4 DEF Splice
  <2>2. v.req = "create" /\ v.node = n /\ w.req = "put" BY <1>p
  <2> HIDE DEF v, w
  <2>4. Len(<<v, w>>) = 2 /\ <<v, w>>[2] = w /\ Head(<<v, w>>) = v OBVIOUS
  <2> QED BY <1>k, <2>1, <2>2, <2>4, GestureRows
<1>5. ASSUME NEW n \in Nodes, Add(k, n) PROVE RowsFit'
  <2>1. Gesture(k, "add", <<Create(n, {})>>) /\ Unused(n) BY <1>5 DEF Add
  <2> QED BY <1>k, <1>p, <2>1, OneWriteRows
<1>6. ASSUME NEW n \in Nodes, Remove(k, n) PROVE RowsFit'
  <2>1. Gesture(k, "delete", <<Delete(n)>>) BY <1>6 DEF Remove
  <2> QED BY <1>k, <1>p, <2>1, OneWriteRows
\* An operation that has no write under way afterwards, or one put of a form.
<1>7. ASSUME ~Underway(k)', st'[k] # "open", Len(plan'[k]) <= 1 PROVE RowsFit'
  <2>1. ~(Len(plan'[k]) > 1)
    <3>1. CASE Len(plan'[k]) = 0 BY <3>1
    <3>2. CASE Len(plan'[k]) # 0 BY <1>7
    <3> QED BY <3>1, <3>2
  <2>2. ShapeFit(k)' BY <1>7, <2>1 DEF ShapeFit
  <2>3. ~Creating(k)' BY <1>7 DEF Creating
  <2> QED BY <1>m, <2>2, <2>3, RowsKept
<1>8. ASSUME NEW w, plan'[k] = <<w>>, w.req = "put" => kind'[k] = "save", w.req # "create",
             st'[k] = "open" => kind'[k] = "save"
      PROVE  RowsFit'
  <2>1. Now(k)' = w /\ ~(Len(plan'[k]) > 1) BY <1>8 DEF Now
  <2>2. ShapeFit(k)' BY <1>8, <2>1 DEF ShapeFit
  <2>3. ~Creating(k)' BY <1>8, <2>1 DEF Creating
  <2> QED BY <1>m, <2>2, <2>3, RowsKept
<1>9. ASSUME NEW n \in Nodes, Open(k, n) PROVE RowsFit'
  <2>1. PICK w : kind'[k] = "save" /\ plan'[k] = <<w>> /\ w.req = "put"
        BY <1>9, <1>w, <1>p DEF Open, WorkOK
  <2> QED BY <1>8, <2>1
<1>10. ASSUME Save(k) PROVE RowsFit'
  <2>1. PICK w : plan'[k] = <<w>> /\ w.req = "put"
        BY <1>10, <1>w, <1>p DEF Save, WorkOK
  <2>2. kind'[k] = "save" BY <1>10 DEF Save, At, RowsFit, ShapeFit
  <2> QED BY <1>8, <2>1, <2>2
<1>11. ASSUME RemoveOpen(k) PROVE RowsFit'
  <2>1. plan'[k] = <<Delete(Now(k).node)>> /\ st'[k] = "sent"
        BY <1>11, <1>w DEF RemoveOpen, WorkOK
  <2> QED BY <1>8, <1>p, <2>1
<1>12. ASSUME Close(k) PROVE RowsFit'
  <2>1. plan'[k] = <<>> /\ st'[k] = "idle" BY <1>12, <1>w DEF Close, WorkOK
  <2> QED BY <1>7, <2>1 DEF Underway
<1>13. ASSUME Retry(k) PROVE RowsFit'
  <2>1. /\ st'[k] = "list"
        /\ plan' = IF kind[k] = "save" THEN plan ELSE [plan EXCEPT ![k] = <<>>]
        BY <1>13, <1>w DEF Retry, StartsLoad, WorkOK
  <2>2. kind' = kind BY <1>13 DEF Retry, StartsLoad
  <2>3. ~Underway(k)' BY <2>1 DEF Underway
  <2>4. Len(plan'[k]) > 1 => Len(plan[k]) > 1 /\ plan'[k] = plan[k]
    <3>1. CASE kind[k] = "save" BY <2>1, <3>1
    <3>2. CASE kind[k] # "save"
      <4>1. plan'[k] = <<>> BY <1>w, <2>1, <3>2 DEF WorkOK
      <4> QED BY <4>1
    <3> QED BY <3>1, <3>2
  <2>5. ShapeFit(k)' BY <2>1, <2>3, <2>4 DEF RowsFit, ShapeFit
  <2>6. ~Creating(k)' BY <2>3 DEF Creating
  <2> QED BY <1>m, <2>5, <2>6, RowsKept
<1> QED BY <1>1, <1>2, <1>3, <1>4, <1>5, <1>6, <1>9, <1>10, <1>11, <1>12, <1>13 DEF Make

LEMMA HandleRows ==
    ASSUME TypeOK, RowsFit, NEW k \in Ops, Handle(k)
    PROVE  RowsFit'
<1>w. WorkOK BY TypeParts
<1>t. TablesOK BY TypeParts
<1>k. OthersKept(k) /\ kind' = kind /\ plan' = plan BY HandleKeeps
<1>n. Now(k)' = Now(k) /\ ShapeFit(k) BY <1>k DEF Now, RowsFit
<1>1. ASSUME Check(k) PROVE RowsFit'
  <2>1. /\ UNCHANGED <<alive, refs, born>> /\ st[k] = "sent"
        /\ st'[k] \in {"checked", "bad", "used"}
        BY <1>1, <1>w DEF Check, tables, At, WorkOK
  <2>2. ASSUME st'[k] = "checked", Now(k).req \in {"put", "create"}
        PROVE  Now(k).put \subseteq born \cap Named
    <3>1. Valid(Now(k).node, Now(k).put, alive)
          BY <1>1, <1>w, <2>2 DEF Check, WorkOK
    <3>2. Now(k).put \subseteq Nameable(Now(k).node) \cap alive BY <3>1 DEF Valid
    <3>3. Nameable(Now(k).node) \subseteq Named BY DEF Nameable, Named
    <3> QED BY <3>2, <3>3 DEF RowsFit, TablesFit
  <2>3. ShapeFit(k)' BY <1>k, <1>n, <2>1 DEF ShapeFit, Underway
  <2>4. Creating(k)' => Creating(k) BY <1>n, <2>1 DEF Creating, Underway
  <2>5. Creating(k) => (/\ Now(k).node \notin born
                        /\ \A h \in Ops \ {k} : Creating(h) => Now(h).node # Now(k).node)
        BY DEF RowsFit, NewFit
  <2> QED BY <1>k, <1>n, <2>1, <2>2, <2>3, <2>4, <2>5, RowsKept
<1>2. ASSUME ApplyFails(k) PROVE RowsFit'
  <2>1. /\ UNCHANGED <<alive, refs, born>> /\ st'[k] = "bad"
        BY <1>2, <1>w DEF ApplyFails, tables, WorkOK
  <2>2. ShapeFit(k)' BY <1>k, <1>n, <2>1 DEF ShapeFit, Underway
  <2>3. ~Creating(k)' BY <2>1 DEF Creating, Underway
  <2> QED BY <1>k, <2>1, <2>2, <2>3, RowsKept
\* A step that writes: the operation is not under way any more.
<1>3. ASSUME Apply(k) \/ Insert(k) \/ Erase(k) PROVE RowsFit'
  <2>1. st[k] = "checked" /\ st'[k] = "ok" BY <1>3, <1>w DEF Apply, Insert, Erase, At, WorkOK
  <2>2. Now(k).node \in Nodes /\ Now(k).put \subseteq Nodes
        BY <1>w, <2>1, NowType, WriteParts
  <2>3. born \subseteq born' /\ TablesFit'
    <3>1. CASE Apply(k)
      <4>1. /\ UNCHANGED <<alive, born>> /\ refs' = [refs EXCEPT ![Now(k).node] = NewRow(k)]
            /\ Now(k).req = "put" /\ Now(k).node \in alive
            BY <3>1 DEF Apply
      <4>2. Now(k).put \subseteq born \cap Named
            BY <2>1, <4>1 DEF RowsFit, ChecksFit
      <4>3. refs[Now(k).node] \subseteq born \cap Named
            BY <2>2 DEF RowsFit, TablesFit
      <4>4. NewRow(k) \subseteq born \cap Named
            BY <4>2, <4>3 DEF NewRow, Column
      <4> QED BY <1>t, <2>2, <4>1, <4>4 DEF RowsFit, TablesFit, TablesOK
    <3>2. CASE Insert(k)
      <4>1. /\ alive' = alive \cup {Now(k).node} /\ born' = born \cup {Now(k).node}
            /\ refs' = [refs EXCEPT ![Now(k).node] = Now(k).put] /\ Now(k).req = "create"
            BY <3>2 DEF Insert
      <4>2. Now(k).put \subseteq born \cap Named
            BY <2>1, <4>1 DEF RowsFit, ChecksFit
      <4> QED BY <1>t, <2>2, <4>1, <4>2 DEF RowsFit, TablesFit, TablesOK
    <3>3. CASE Erase(k)
      <4>1. /\ alive' = alive \ {Now(k).node} /\ born' = born
            /\ refs' = [refs EXCEPT ![Now(k).node] = {}]
            BY <3>3 DEF Erase
      <4> QED BY <1>t, <2>2, <4>1 DEF RowsFit, TablesFit, TablesOK
    <3> QED BY <1>3, <3>1, <3>2, <3>3
  <2>4. \A j \in Ops \ {k} : Now(j)' = Now(j) /\ st'[j] = st[j] /\ (Creating(j)' <=> Creating(j))
        BY <1>k DEF OthersKept, Now, Creating, Underway
  <2>5. ~Creating(k)' BY <2>1 DEF Creating, Underway
  <2>6. ChecksFit'
    <3> SUFFICES ASSUME NEW j \in Ops, st'[j] = "checked", Now(j)'.req \in {"put", "create"}
                 PROVE  Now(j)'.put \subseteq born' \cap Named
        BY DEF ChecksFit
    <3>1. j # k BY <2>1
    <3>2. Now(j).put \subseteq born \cap Named BY <2>4, <3>1 DEF RowsFit, ChecksFit
    <3> QED BY <2>3, <2>4, <3>1, <3>2
  <2>7. born' \subseteq born \cup {Now(k).node} /\ (~Creating(k) => born' = born)
        BY <1>3, <2>1 DEF Apply, Insert, Erase, Creating, Underway
  <2>8. NewFit'
    <3> SUFFICES ASSUME NEW j \in Ops, Creating(j)'
                 PROVE  /\ Now(j)'.node \notin born'
                        /\ \A h \in Ops \ {j} : Creating(h)' => Now(h)'.node # Now(j)'.node
        BY DEF NewFit
    <3>1. j # k /\ Creating(j) /\ Now(j)' = Now(j) BY <2>4, <2>5
    <3>2. Now(j).node \notin born /\ (Creating(k) => Now(k).node # Now(j).node)
          BY <3>1 DEF RowsFit, NewFit
    <3>3. Now(j).node \notin born' BY <2>7, <3>2
    <3>4. ASSUME NEW h \in Ops \ {j}, Creating(h)' PROVE Now(h)'.node # Now(j).node
      <4>1. h # k /\ Creating(h) /\ Now(h)' = Now(h) BY <2>4, <2>5, <3>4
      <4> QED BY <3>1, <3>4, <4>1 DEF RowsFit, NewFit
    <3> QED BY <3>1, <3>3, <3>4
  <2>9. ASSUME NEW j \in Ops PROVE ShapeFit(j)'
    <3>1. ShapeFit(j) BY DEF RowsFit
    <3>2. plan'[j] = plan[j] /\ kind'[j] = kind[j] /\ Now(j)' = Now(j) BY <1>k DEF Now
    <3>3. CASE j = k BY <2>1, <3>1, <3>2, <3>3 DEF ShapeFit, Underway
    <3>4. CASE j # k BY <2>4, <3>1, <3>2, <3>4 DEF ShapeFit, Underway
    <3> QED BY <3>3, <3>4
  <2> QED BY <2>3, <2>6, <2>8, <2>9 DEF RowsFit
<1> QED BY <1>1, <1>2, <1>3 DEF Handle

LEMMA AnswerRows ==
    ASSUME TypeOK, FInv, RowsFit, NEW k \in Ops, Settle(k) \/ Lose(k) \/ LoadFails(k)
    PROVE  RowsFit'
<1>w. WorkOK BY TypeParts
<1>m. OthersKept(k) /\ UNCHANGED <<alive, refs, born>> /\ st'[k] # "checked"
      BY SettleKeeps, FaultKeeps DEF Quiet
<1>s. ShapeFit(k) BY DEF RowsFit
<1>1. ASSUME ~Underway(k)', plan'[k] = plan[k] \/ plan'[k] = <<>>,
             st'[k] = "open" => kind'[k] = "save"
      PROVE  RowsFit'
  <2>1. ShapeFit(k)' BY <1>1, <1>s DEF ShapeFit
  <2>2. ~Creating(k)' BY <1>1 DEF Creating
  <2> QED BY <1>m, <2>1, <2>2, RowsKept
<1>2. ASSUME StartsLoad(k) PROVE RowsFit'
  <2>1. st'[k] = "list" /\ (plan'[k] = plan[k] \/ plan'[k] = <<>>)
        BY <1>2, <1>w DEF StartsLoad, WorkOK
  <2> QED BY <1>1, <2>1 DEF Underway
<1>3. ASSUME Clears(k) PROVE RowsFit'
  <2>1. st'[k] \in {"idle", "open"} /\ (plan'[k] = plan[k] \/ plan'[k] = <<>>)
        BY <1>3, <1>w DEF Clears, WorkOK
  <2>2. st'[k] = "open" => kind'[k] = "save" BY <1>3, <1>w DEF Clears, WorkOK
  <2> QED BY <1>1, <2>1, <2>2 DEF Underway
<1>4. ASSUME Len(plan[k]) > 1, Sends(k, Tail(plan[k])) PROVE RowsFit'
  <2>1. plan'[k] = Tail(plan[k]) /\ kind' = kind /\ st'[k] = "sent"
        BY <1>4, <1>w DEF Sends, WorkOK
  <2>2. plan[k] \in Seq(Write) /\ Len(plan[k]) = 2 /\ plan[k][2].req = "put"
        BY <1>4, <1>s, <1>w DEF ShapeFit, WorkOK
  <2>3. Len(Tail(plan[k])) = 1 /\ Head(Tail(plan[k])) = plan[k][2]
        BY <1>4, <2>2, TailType
  <2>4. Now(k)'.req = "put" /\ ~(Len(plan'[k]) > 1)
    <3>1. Now(k)' = plan[k][2] BY <2>1, <2>3 DEF Now
    <3>2. Len(plan'[k]) = 1 BY <2>1, <2>3
    <3> QED BY <2>2, <3>1, <3>2
  <2>5. kind[k] \in Drawn BY <1>4 DEF FInv, PlansFit, PlanFit
  <2>6. ShapeFit(k)' BY <2>1, <2>4, <2>5 DEF ShapeFit
  <2>7. ~Creating(k)' BY <2>4 DEF Creating
  <2> QED BY <1>m, <2>6, <2>7, RowsKept
<1>5. ASSUME GoesOn(k) PROVE RowsFit' BY <1>2, <1>4, <1>5 DEF GoesOn
<1>6. ASSUME Succeed(k) \/ Fail(k) PROVE RowsFit'
      BY <1>2, <1>3, <1>5, <1>6 DEF Succeed, Fail, Recovers, Ends
<1>7. ASSUME Confirm(k) PROVE RowsFit'
  <2>1. CASE Ends(k) BY <1>3, <2>1 DEF Ends
  <2>2. CASE Sends(k, <<[Now(k) EXCEPT !.req = "force"]>>)
    <3> DEFINE w == [Now(k) EXCEPT !.req = "force"]
    <3>1. plan'[k] = <<w>> /\ st'[k] = "sent" BY <2>2, <1>w DEF Sends, WorkOK
    <3>2. Now(k) \in Write
      <4>1. st[k] = "used" BY <1>7 DEF Confirm, At
      <4> QED BY <4>1, <1>w, NowType
    <3>3. w.req = "force" BY <3>2 DEF Write
    <3> HIDE DEF w
    <3>4. Now(k)' = w /\ ~(Len(plan'[k]) > 1) BY <3>1 DEF Now
    <3>5. ShapeFit(k)' BY <3>1, <3>3, <3>4 DEF ShapeFit
    <3>6. ~Creating(k)' BY <3>3, <3>4 DEF Creating
    <3> QED BY <1>m, <3>5, <3>6, RowsKept
  <2> QED BY <1>7, <2>1, <2>2 DEF Confirm
<1>8. ASSUME NEW T \in Tables, Read(k, T) PROVE RowsFit'
  <2>1. st' = st /\ plan' = plan /\ kind' = kind /\ st[k] = "list" BY <1>8 DEF Read, At
  <2> QED BY <1>1, <2>1 DEF Underway
<1>9. ASSUME Lose(k) PROVE RowsFit'
  <2>1. st'[k] = "bad" /\ plan' = plan /\ kind' = kind BY <1>9, <1>w DEF Lose, WorkOK
  <2> QED BY <1>1, <2>1 DEF Underway
<1> QED BY <1>3, <1>6, <1>7, <1>8, <1>9 DEF Settle, Show, LoadFails

\* A node that nobody names and that names none but others closes no circle.
LEMMA NewNode ==
    ASSUME NEW r, NEW new, NEW B, NEW n, ~HasCycle(r), n \notin B,
           \A m \in Stages : r[m] \subseteq B,
           \A m \in Stages \ {n} : new[m] = r[m], new[n] \subseteq B
    PROVE  ~HasCycle(new)
<1>1. SUFFICES ASSUME NEW S \in SUBSET Stages, Loops(S, new) PROVE FALSE
      BY DEF HasCycle
<1> DEFINE T == S \ {n}
<1>2. T # {} BY <1>1 DEF Loops
<1>3. ASSUME NEW m \in T PROVE r[m] \cap T # {}
  <2>1. new[m] \cap S # {} /\ new[m] = r[m] /\ r[m] \subseteq B BY <1>1 DEF Loops
  <2> QED BY <2>1
<1>4. Loops(T, r) BY <1>2, <1>3 DEF Loops
<1> QED BY <1>4 DEF HasCycle

\* Rows that only grow interrupt no flow.
LEMMA GrownFlow ==
    ASSUME NEW r, NEW new, NEW a, NEW b, Reaches(a, b, r),
           \A m \in Stages : r[m] \subseteq new[m]
    PROVE  Reaches(a, b, new)
<1> SUFFICES ASSUME NEW S \in SUBSET Nodes, a \in S, Closed(S, new) PROVE b \in S
    BY DEF Reaches
<1>1. Closed(S, r) BY DEF Closed
<1> QED BY <1>1 DEF Reaches

\* Neither does putting n, which reads s, into the edge from s to t.
LEMMA SplicedFlow ==
    ASSUME NEW r, NEW new, NEW s, NEW t, NEW n \in Stages, NEW a, NEW b, Reaches(a, b, r),
           r[n] = {s}, n # t, r[t] \subseteq new[t] \cup {s}, n \in new[t],
           \A m \in Stages \ {t} : new[m] = r[m]
    PROVE  Reaches(a, b, new)
<1> SUFFICES ASSUME NEW S \in SUBSET Nodes, a \in S, Closed(S, new) PROVE b \in S
    BY DEF Reaches
<1>1. ASSUME NEW m \in S \cap Stages PROVE r[m] \subseteq S
  <2>1. CASE m # t BY <2>1 DEF Closed
  <2>2. CASE m = t
    <3>1. new[t] \subseteq S BY <2>2 DEF Closed
    <3>2. new[n] \subseteq S BY <3>1 DEF Closed
    <3> QED BY <2>2, <3>1, <3>2
  <2> QED BY <2>1, <2>2
<1>2. Closed(S, r) BY <1>1 DEF Closed
<1> QED BY <1>2 DEF Reaches

-----------------------------------------------------------------------------
(* What the gestures of a canvas that is up to date aim at, as long as      *)
(* nobody else writes: their writes start from the rows as they are.        *)

Calm(j) == ~shaky[j] /\ st[j] \in {"sent", "checked", "ok", "bad"}
Aims(w) == w.req = "put" /\ w.base = refs[w.node] \cap Upstream /\ w.put \subseteq Upstream
Joining(w) == \E s \in Upstream : w.put = w.base \cup {s} /\ ~Reaches(s, w.node, refs)
Taking(w) == Aims(w) /\ w.put \subseteq w.base
Splicing(w, s, n) ==
    /\ Aims(w) /\ s \in w.base /\ w.put = (w.base \ {s}) \cup {n}
    /\ n # s /\ n # w.node
Ready(s, n) == refs[n] = {s} /\ \A m \in Nodes : n \notin refs[m]

ConnectAimed(j) ==
    Len(plan[j]) = 1 /\ (Underway(j) => (Aims(Now(j)) /\ Joining(Now(j))))
CutAimed(j) ==
    /\ (Underway(j) => Taking(Now(j)))
    /\ (Len(plan[j]) = 2 => (Taking(plan[j][2]) /\ plan[j][2].node # Now(j).node))
Inserts(j) ==
    /\ Len(plan[j]) = 2
    /\ \E s \in Upstream, n \in Stages :
          /\ Now(j) = Create(n, {s})
          /\ (st[j] # "bad" => Splicing(plan[j][2], s, n))
          /\ (st[j] = "ok" => Ready(s, n))
Rewires(j) ==
    /\ Len(plan[j]) = 1 /\ Now(j).req = "put"
    /\ (Underway(j) =>
          \E s \in Upstream, n \in Stages : Splicing(Now(j), s, n) /\ Ready(s, n))
RowRead(j) == (st[j] = "checked" /\ Now(j).req = "put") => row[j] = refs[Now(j).node]
Aimed(j) ==
    /\ (kind[j] = "connect" => ConnectAimed(j))
    /\ (kind[j] = "cut" => CutAimed(j))
    /\ (kind[j] = "splice" => (Inserts(j) \/ Rewires(j)))
    /\ RowRead(j)
AllAimed == \A j \in Ops : Calm(j) => Aimed(j)

\* Operations that k leaves alone stay aimed while the tables stay.
LEMMA OthersAimed ==
    ASSUME AllAimed, NEW k \in Ops, OthersKept(k), OthersCalm(k), UNCHANGED <<alive, refs>>,
           Calm(k)' => Aimed(k)'
    PROVE  AllAimed'
<1> SUFFICES ASSUME NEW j \in Ops, j # k, Calm(j)' PROVE Aimed(j)'
    BY DEF AllAimed
<1>1. /\ st'[j] = st[j] /\ kind'[j] = kind[j] /\ plan'[j] = plan[j] /\ row'[j] = row[j]
      /\ shaky'[j] = shaky[j] /\ refs' = refs
      BY DEF OthersKept, OthersCalm
<1>2. Now(j)' = Now(j) BY <1>1 DEF Now
<1>3. Calm(j) BY <1>1 DEF Calm
<1>4. Aimed(j) BY <1>3 DEF AllAimed
<1>5. \A w, s, n : /\ (Aims(w)' <=> Aims(w)) /\ (Joining(w)' <=> Joining(w))
                   /\ (Taking(w)' <=> Taking(w)) /\ (Splicing(w, s, n)' <=> Splicing(w, s, n))
                   /\ (Ready(s, n)' <=> Ready(s, n))
      BY <1>1 DEF Aims, Joining, Taking, Splicing, Ready
<1>6. Underway(j)' <=> Underway(j) BY <1>1 DEF Underway
<1>7. ConnectAimed(j) => ConnectAimed(j)' BY <1>1, <1>2, <1>5, <1>6 DEF ConnectAimed
<1>8. CutAimed(j) => CutAimed(j)' BY <1>1, <1>2, <1>5, <1>6 DEF CutAimed
<1>9. Inserts(j) => Inserts(j)' BY <1>1, <1>2, <1>5 DEF Inserts
<1>10. Rewires(j) => Rewires(j)' BY <1>1, <1>2, <1>5, <1>6 DEF Rewires
<1>11. RowRead(j)' BY <1>1, <1>2, <1>4 DEF Aimed, RowRead
<1> QED BY <1>1, <1>4, <1>7, <1>8, <1>9, <1>10, <1>11 DEF Aimed

\* A gesture that is not shaky is made on a page that shows the tables.
LEMMA UpToDate ==
    ASSUME TypeOK, FInv, NEW k \in Ops, NEW what, NEW w, Gesture(k, what, w),
           Visible(PageOf[k]), ~shaky'[k]
    PROVE  nodesAt[PageOf[k]] = alive /\ refsAt[PageOf[k]] = refs
<1>1. PageOf[k] \in Pages BY ConstantsAssumption
<1>2. ~behind[PageOf[k]] /\ \A j \in Ops : st[j] \in {"idle", "open"}
      BY TypeParts DEF Gesture, RestOK
<1>3. ~failed[PageOf[k]] BY DEF Visible
<1>4. \A j \in Mine(PageOf[k]) : st[j] \in {"idle", "open"} BY <1>2 DEF Mine
<1> QED BY <1>1, <1>2, <1>3, <1>4, FreshAtRest DEF FreshCanvas

LEMMA GestureAimed ==
    ASSUME TypeOK, FInv, AllAimed, NEW k \in Ops, NEW what \in Kinds, NEW w, Gesture(k, what, w),
           (~shaky'[k] /\ what = "connect") => (Len(w) = 1 /\ Aims(Head(w)) /\ Joining(Head(w))),
           (~shaky'[k] /\ what = "cut") =>
              (Taking(Head(w)) /\ (Len(w) = 2 => (Taking(w[2]) /\ w[2].node # Head(w).node))),
           (~shaky'[k] /\ what = "splice") =>
              (Len(w) = 2 /\ \E s \in Upstream, n \in Stages :
                                Head(w) = Create(n, {s}) /\ Splicing(w[2], s, n))
    PROVE  AllAimed'
<1>1. OthersKept(k) /\ UNCHANGED <<alive, refs>> /\ st'[k] = "sent"
      BY GestureKeeps DEF Quiet
<1>2. OthersCalm(k) BY TypeParts DEF Gesture, OthersCalm, RestOK
<1>3. kind'[k] = what /\ plan'[k] = w BY TypeParts DEF Gesture, WorkOK
<1>4. Now(k)' = Head(w) BY <1>3 DEF Now
<1>5. ASSUME Calm(k)' PROVE Aimed(k)'
  <2>1. ~shaky'[k] BY <1>5 DEF Calm
  <2>2. \A v, s, n : /\ (Aims(v)' <=> Aims(v)) /\ (Joining(v)' <=> Joining(v))
                     /\ (Taking(v)' <=> Taking(v)) /\ (Splicing(v, s, n)' <=> Splicing(v, s, n))
        BY <1>1 DEF Aims, Joining, Taking, Splicing
  <2>3. what = "connect" => ConnectAimed(k)' BY <1>3, <1>4, <2>1, <2>2 DEF ConnectAimed
  <2>4. what = "cut" => CutAimed(k)' BY <1>3, <1>4, <2>1, <2>2 DEF CutAimed
  <2>5. what = "splice" => Inserts(k)' BY <1>1, <1>3, <1>4, <2>1, <2>2 DEF Inserts
  <2>6. RowRead(k)' BY <1>1 DEF RowRead
  <2> QED BY <1>3, <2>3, <2>4, <2>5, <2>6 DEF Aimed
<1> QED BY <1>1, <1>2, <1>5, OthersAimed

LEMMA MakeAimed ==
    ASSUME TypeOK, FInv, RowsFit, AllAimed, NEW k \in Ops, Make(k)
    PROVE  AllAimed'
<1> DEFINE p == PageOf[k]
<1>k. {"connect", "cut", "cuts", "splice", "add", "save", "delete"} \subseteq Kinds
      BY DEF Kinds
<1>w. WorkOK /\ TablesOK BY TypeParts
<1>p. \A n, b, s : /\ Put(n, b, s).req = "put" /\ Put(n, b, s).node = n
                   /\ Put(n, b, s).base = b /\ Put(n, b, s).put = s
      BY DEF Put
<1>m. OthersKept(k) /\ OthersCalm(k) /\ UNCHANGED <<alive, refs>>
      BY MakeKeeps, CalmSteps DEF Quiet
<1>1. ASSUME NEW s \in Upstream, NEW t \in Nodes, Connect(k, s, t) PROVE AllAimed'
  <2> DEFINE w == Put(t, Shown(p, t), Shown(p, t) \cup {s})
  <2>1. Gesture(k, "connect", <<w>>) /\ Visible(p) /\ Drawable(p, s, t)
        BY <1>1 DEF Connect
  <2>2. ASSUME ~shaky'[k] PROVE Aims(w) /\ Joining(w)
    <3>1. refsAt[p] = refs BY <2>1, <2>2, UpToDate
    <3>2. Shown(p, t) = refs[t] \cap Upstream /\ ~Reaches(s, t, refs)
          BY <2>1, <3>1 DEF Shown, Drawable
    <3>3. w.req = "put" /\ w.node = t /\ w.base = Shown(p, t) /\ w.put = Shown(p, t) \cup {s}
          BY <1>p
    <3> HIDE DEF w
    <3>4. Aims(w) BY <3>2, <3>3 DEF Aims
    <3>5. Joining(w) BY <3>2, <3>3 DEF Joining
    <3> QED BY <3>4, <3>5
  <2> HIDE DEF w
  <2>3. Len(<<w>>) = 1 /\ Head(<<w>>) = w OBVIOUS
  <2> QED BY <1>k, <2>1, <2>2, <2>3, GestureAimed
<1>2. ASSUME NEW e \in Upstream \X Nodes, NEW what, NEW w, Gesture(k, what, w),
             Visible(p), e \in Edges(p), ~shaky'[k]
      PROVE  Taking(Without(p, e)) /\ Without(p, e).node = e[2]
  <2>1. refsAt[p] = refs BY <1>2, UpToDate
  <2>2. Shown(p, e[2]) = refs[e[2]] \cap Upstream BY <2>1 DEF Shown
  <2>3. /\ Without(p, e).req = "put" /\ Without(p, e).node = e[2]
        /\ Without(p, e).base = Shown(p, e[2])
        /\ Without(p, e).put = Shown(p, e[2]) \ {e[1]}
        BY <1>p DEF Without
  <2> QED BY <2>2, <2>3 DEF Taking, Aims
<1>3. ASSUME NEW e \in Upstream \X Nodes, Cut(k, e) PROVE AllAimed'
  <2> DEFINE w == Without(p, e)
  <2>1. Gesture(k, "cut", <<w>>) /\ Visible(p) /\ e \in Edges(p) BY <1>3 DEF Cut
  <2>2. ~shaky'[k] => Taking(w) BY <1>2, <2>1
  <2> HIDE DEF w
  <2>3. Len(<<w>>) = 1 /\ Head(<<w>>) = w OBVIOUS
  <2> QED BY <1>k, <2>1, <2>2, <2>3, GestureAimed
<1>4. ASSUME NEW d \in Upstream \X Nodes, NEW e \in Upstream \X Nodes, CutTwo(k, d, e)
      PROVE  AllAimed'
  <2> DEFINE what == IF d[2] = e[2] THEN "cuts" ELSE "cut"
             v == Without(p, d)
             w == Without(p, e)
  <2>1. Gesture(k, what, <<v, w>>) /\ Visible(p) /\ d \in Edges(p) /\ e \in Edges(p)
        BY <1>4 DEF CutTwo
  <2>2. ~shaky'[k] => (Taking(v) /\ Taking(w) /\ v.node = d[2] /\ w.node = e[2])
        BY <1>2, <2>1
  <2>3. what \in {"cut", "cuts"} /\ (what = "cut" => d[2] # e[2]) OBVIOUS
  <2> HIDE DEF what, v, w
  <2>4. Head(<<v, w>>) = v /\ <<v, w>>[2] = w OBVIOUS
  <2> QED BY <1>k, <2>1, <2>2, <2>3, <2>4, GestureAimed
<1>5. ASSUME NEW s \in Upstream, NEW t \in Nodes, NEW n \in Stages, Splice(k, s, t, n)
      PROVE  AllAimed'
  <2> DEFINE v == Create(n, {s})
             w == Put(t, Shown(p, t), Spliced(p, s, t, n))
  <2>1. Gesture(k, "splice", <<v, w>>) /\ Visible(p) /\ <<s, t>> \in Edges(p) /\ Unused(n)
        BY <1>5 DEF Splice
  <2>2. ASSUME ~shaky'[k] PROVE Splicing(w, s, n)
    <3>1. refsAt[p] = refs /\ nodesAt[p] = alive BY <2>1, <2>2, UpToDate
    <3>2. Shown(p, t) = refs[t] \cap Upstream BY <3>1 DEF Shown
    <3>3. s \in alive /\ t \in alive /\ s \in refs[t] BY <2>1, <3>1 DEF Edges
    <3>4. n # s /\ n # t BY <2>1, <3>3 DEF Unused, RowsFit, TablesFit
    <3>5. n \in Upstream BY DEF Upstream
    <3>6. /\ w.req = "put" /\ w.node = t /\ w.base = Shown(p, t)
          /\ w.put = (Shown(p, t) \ {s}) \cup {n}
          BY <1>p DEF Spliced
    <3> HIDE DEF w
    <3>7. Aims(w) BY <3>2, <3>5, <3>6 DEF Aims
    <3> QED BY <3>2, <3>3, <3>4, <3>6, <3>7 DEF Splicing
  <2>3. v = Create(n, {s}) OBVIOUS
  <2> HIDE DEF v, w
  <2>4. Len(<<v, w>>) = 2 /\ <<v, w>>[2] = w /\ Head(<<v, w>>) = v OBVIOUS
  <2> QED BY <1>k, <2>1, <2>2, <2>3, <2>4, GestureAimed
<1>6. ASSUME NEW n \in Nodes, Add(k, n) \/ Remove(k, n) PROVE AllAimed'
  <2>1. \A what \in {"add", "delete"} : \A w : Gesture(k, what, w) => AllAimed'
        BY <1>k, GestureAimed
  <2>2. CASE Add(k, n)
    <3>1. Gesture(k, "add", <<Create(n, {})>>) BY <2>2 DEF Add
    <3> QED BY <2>1, <3>1
  <2>3. CASE Remove(k, n)
    <3>1. Gesture(k, "delete", <<Delete(n)>>) BY <2>3 DEF Remove
    <3> QED BY <2>1, <3>1
  <2> QED BY <1>6, <2>2, <2>3
\* Editors aim at nothing.
<1>7. ASSUME st'[k] \in {"idle", "open", "list"} PROVE AllAimed'
      BY <1>7, <1>m, OthersAimed DEF Calm
<1>8. ASSUME kind'[k] \in {"save", "delete"}, st'[k] = "sent" PROVE AllAimed'
      BY <1>8, <1>m, OthersAimed DEF Aimed, RowRead
<1>9. ASSUME NEW n \in Nodes, Open(k, n) PROVE AllAimed'
      BY <1>7, <1>9, <1>w DEF Open, WorkOK
<1>10. ASSUME Save(k) PROVE AllAimed'
  <2>1. kind' = kind /\ kind[k] = "save" /\ st'[k] = "sent"
        BY <1>10, <1>w DEF Save, At, RowsFit, ShapeFit, WorkOK
  <2> QED BY <1>8, <2>1
<1>11. ASSUME RemoveOpen(k) PROVE AllAimed'
  <2>1. kind'[k] = "delete" /\ st'[k] = "sent" BY <1>11, <1>w DEF RemoveOpen, WorkOK
  <2> QED BY <1>8, <2>1
<1>12. ASSUME Close(k) \/ Retry(k) PROVE AllAimed'
  <2>1. st'[k] \in {"idle", "list"} BY <1>12, <1>w DEF Close, Retry, StartsLoad, WorkOK
  <2> QED BY <1>7, <2>1
<1> QED BY <1>1, <1>3, <1>4, <1>5, <1>6, <1>9, <1>10, <1>11, <1>12 DEF Make

LEMMA AnswerAimed ==
    ASSUME TypeOK, FInv, RowsFit, AllAimed, NEW k \in Ops,
           Settle(k) \/ Lose(k) \/ LoadFails(k) \/ Check(k) \/ ApplyFails(k)
    PROVE  AllAimed'
<1>w. WorkOK /\ TablesOK /\ shaky \in [Ops -> BOOLEAN] BY TypeParts DEF RestOK
<1>m. OthersKept(k) /\ OthersCalm(k) /\ UNCHANGED <<alive, refs>>
  <2>1. OthersCalm(k) BY CalmSteps
  <2>2. CASE Check(k) BY <2>1, <2>2, HandleKeeps DEF Handle, Check, tables
  <2> QED BY <2>1, <2>2, SettleKeeps, FaultKeeps DEF Quiet
<1>a. \A v, s, n : /\ (Aims(v)' <=> Aims(v)) /\ (Joining(v)' <=> Joining(v))
                   /\ (Taking(v)' <=> Taking(v)) /\ (Splicing(v, s, n)' <=> Splicing(v, s, n))
                   /\ (Ready(s, n)' <=> Ready(s, n))
      BY <1>m DEF Aims, Joining, Taking, Splicing, Ready
<1>1. ASSUME st'[k] \in {"idle", "open", "list", "used"} PROVE AllAimed'
      BY <1>1, <1>m, OthersAimed DEF Calm
<1>2. ASSUME StartsLoad(k) \/ Clears(k) PROVE AllAimed'
      BY <1>1, <1>2, AnswerKeeps
\* A check that passes, or a request that fails.
<1>3. ASSUME kind' = kind, plan' = plan, shaky' = shaky,
             \/ st[k] = "sent" /\ st'[k] = "checked" /\ row'[k] = refs[Now(k).node]
             \/ st[k] \in {"sent", "checked", "ok"} /\ st'[k] = "bad"
      PROVE  AllAimed'
  <2> SUFFICES ASSUME Calm(k)' PROVE Aimed(k)' BY <1>m, OthersAimed
  <2>1. Now(k)' = Now(k) BY <1>3 DEF Now
  <2>2. Calm(k) BY <1>3 DEF Calm
  <2>3. Aimed(k) BY <2>2 DEF AllAimed
  <2>4. Underway(k)' => Underway(k) BY <1>3 DEF Underway
  <2>5. ConnectAimed(k) => ConnectAimed(k)' BY <1>3, <1>a, <2>1, <2>4 DEF ConnectAimed
  <2>6. CutAimed(k) => CutAimed(k)' BY <1>3, <1>a, <2>1, <2>4 DEF CutAimed
  <2>7. Inserts(k) => Inserts(k)'
    <3>1. st'[k] # "ok" /\ (st'[k] # "bad" => st[k] # "bad") BY <1>3
    <3> QED BY <1>3, <1>a, <2>1, <3>1 DEF Inserts
  <2>8. Rewires(k) => Rewires(k)' BY <1>3, <1>a, <2>1, <2>4 DEF Rewires
  <2>9. RowRead(k)' BY <1>3, <1>m, <2>1 DEF RowRead
  <2> QED BY <1>3, <2>3, <2>5, <2>6, <2>7, <2>8, <2>9 DEF Aimed
<1>4. ASSUME Check(k) PROVE AllAimed'
  <2>1. /\ st[k] = "sent" /\ st'[k] \in {"checked", "bad", "used"}
        /\ row'[k] = refs[Now(k).node]
        BY <1>4, <1>w DEF Check, At, WorkOK
  <2>2. UNCHANGED <<kind, plan, shaky>> BY <1>4 DEF Check
  <2> QED BY <1>1, <1>3, <2>1, <2>2
<1>5. ASSUME ApplyFails(k) \/ Lose(k) PROVE AllAimed'
  <2>1. /\ st[k] \in {"sent", "checked", "ok"} /\ st'[k] = "bad"
        BY <1>5, <1>w DEF ApplyFails, Lose, At, WorkOK
  <2>2. UNCHANGED <<kind, plan, shaky>> BY <1>5 DEF ApplyFails, Lose
  <2> QED BY <1>3, <2>1, <2>2
\* The second write of two.
<1>6. ASSUME Len(plan[k]) > 1, Sends(k, Tail(plan[k])),
             st[k] = "ok" \/ (st[k] = "bad" /\ kind[k] \in {"cut", "cuts"})
      PROVE  AllAimed'
  <2> SUFFICES ASSUME Calm(k)' PROVE Aimed(k)' BY <1>m, OthersAimed
  <2>1. plan'[k] = Tail(plan[k]) /\ kind' = kind /\ st'[k] = "sent" /\ shaky' = shaky
        BY <1>6, <1>w DEF Sends, WorkOK
  <2>2. plan[k] \in Seq(Write) /\ Len(plan[k]) = 2 /\ plan[k][2].req = "put"
        BY <1>6, <1>w DEF RowsFit, ShapeFit, WorkOK
  <2>3. Len(Tail(plan[k])) = 1 /\ Head(Tail(plan[k])) = plan[k][2]
        BY <1>6, <2>2, TailType
  <2>4. Now(k)' = plan[k][2] BY <2>1, <2>3 DEF Now
  <2>5. Len(plan'[k]) = 1 BY <2>1, <2>3
  <2>6. Calm(k) BY <1>6, <2>1 DEF Calm
  <2>7. Aimed(k) BY <2>6 DEF AllAimed
  <2>8. kind[k] # "connect" BY <2>2, <2>7 DEF Aimed, ConnectAimed
  <2>9. kind[k] = "cut" => CutAimed(k)' BY <1>a, <2>2, <2>4, <2>5, <2>7 DEF Aimed, CutAimed
  <2>10. ASSUME kind[k] = "splice" PROVE Rewires(k)'
    <3>1. st[k] = "ok" BY <1>6, <2>10
    <3>2. Inserts(k) BY <2>2, <2>7, <2>10 DEF Aimed, Rewires
    <3>3. \E s \in Upstream, n \in Stages : Splicing(plan[k][2], s, n) /\ Ready(s, n)
          BY <3>1, <3>2 DEF Inserts
    <3> QED BY <1>a, <2>2, <2>4, <2>5, <3>3 DEF Rewires
  <2>11. RowRead(k)' BY <2>1 DEF RowRead
  <2> QED BY <2>1, <2>8, <2>9, <2>10, <2>11 DEF Aimed
<1>7. ASSUME Succeed(k) PROVE AllAimed'
      BY <1>2, <1>6, <1>7 DEF Succeed, GoesOn, At
<1>8. ASSUME Fail(k) PROVE AllAimed'
      BY <1>2, <1>6, <1>8 DEF Fail, Recovers, GoesOn, Ends, At
<1>9. ASSUME Confirm(k) PROVE AllAimed'
  <2>1. CASE Ends(k) BY <1>2, <2>1 DEF Ends
  <2>2. CASE Sends(k, <<[Now(k) EXCEPT !.req = "force"]>>)
    <3>1. kind' = kind /\ st'[k] = "sent" BY <2>2, <1>w DEF Sends, WorkOK
    <3>2. kind[k] \notin {"connect", "cut", "splice"}
          BY <1>9 DEF Confirm, At, FInv, PlansFit, Drawn
    <3> QED BY <1>m, <3>1, <3>2, OthersAimed DEF Aimed, RowRead
  <2> QED BY <1>9, <2>1, <2>2 DEF Confirm
<1>10. ASSUME NEW T \in Tables, Read(k, T) PROVE AllAimed'
  <2>1. st'[k] = "list" BY <1>10 DEF Read, At
  <2> QED BY <1>1, <2>1
<1> QED BY <1>2, <1>4, <1>5, <1>7, <1>8, <1>9, <1>10 DEF Settle, Show, LoadFails

\* What an update that is aimed makes of the row.
LEMMA AimedRow ==
    ASSUME TypeOK, RowsFit, NEW k \in Ops, Apply(k), kind[k] # "save", Aims(Now(k)), RowRead(k)
    PROVE  LET w == Now(k) IN
           /\ refs' = [refs EXCEPT ![w.node] = w.put \cup (refs[w.node] \cap Sinks)]
           /\ w.node \in Nodes
           /\ w.put \cup (refs[w.node] \cap Sinks) = Meant(k)
<1> DEFINE w == Now(k)
<1>1. st[k] = "checked" /\ w.req = "put" /\ refs' = [refs EXCEPT ![w.node] = NewRow(k)]
      BY DEF Apply, At
<1>2. w.node \in Nodes BY <1>1, NowType, WriteParts, TypeParts
<1>3. row[k] = refs[w.node] BY <1>1 DEF RowRead
<1>4. w.base = refs[w.node] \cap Upstream /\ w.put \subseteq Upstream BY DEF Aims
<1>5. refs[w.node] \subseteq Upstream \cup Sinks BY <1>2 DEF RowsFit, TablesFit, Named
<1>6. Column(Upstream, row[k], refs[w.node], w.put) = w.put BY <1>3, <1>4 DEF Column
<1>7. NewRow(k) = w.put \cup (refs[w.node] \cap Sinks) BY <1>6 DEF NewRow
<1>8. Upstream \cap Sinks = {} BY NodeKindsAreDisjoint
<1>9. w.put \cup (refs[w.node] \cap Sinks) = Meant(k) BY <1>4, <1>5, <1>8 DEF Meant
<1> QED BY <1>1, <1>2, <1>7, <1>9

LEMMA WriteAimed ==
    ASSUME TypeOK, FInv, RowsFit, AllAimed, NEW k \in Ops, Apply(k) \/ Insert(k) \/ Erase(k)
    PROVE  AllAimed'
<1>w. WorkOK /\ TablesOK /\ shaky \in [Ops -> BOOLEAN] BY TypeParts DEF RestOK
<1>m. OthersKept(k) /\ kind' = kind /\ plan' = plan BY HandleKeeps DEF Handle
<1>d. Disturbs(k) /\ st[k] = "checked" /\ st'[k] = "ok"
      BY <1>w DEF Apply, Insert, Erase, At, WorkOK
\* Everybody else's writes are shaky from now on.
<1>1. ASSUME NEW j \in Ops, j # k PROVE ~Calm(j)'
  <2>1. st'[j] = st[j] BY <1>m, <1>1 DEF OthersKept
  <2>2. st[j] \notin {"idle", "open", "list"} => shaky'[j] BY <1>1, <1>d DEF Disturbs
  <2> QED BY <2>1, <2>2 DEF Calm
<1> SUFFICES ASSUME Calm(k)' PROVE Aimed(k)' BY <1>1 DEF AllAimed
<1>2. shaky'[k] = shaky[k] BY <1>d, <1>w DEF Disturbs
<1>3. Aimed(k) /\ Now(k)' = Now(k) BY <1>d, <1>m, <1>2 DEF Calm, AllAimed, Now
<1>4. Underway(k) /\ ~Underway(k)' BY <1>d DEF Underway
<1>n. Now(k) \in Write /\ Now(k).node \in Nodes /\ plan[k] \in Seq(Write)
      BY <1>d, <1>w, NowType, WriteParts
\* The second write is about another row.
<1>5. ASSUME NEW v \in Write, v.node # Now(k).node, Aims(v) PROVE Aims(v)'
  <2>1. refs'[v.node] = refs[v.node]
        BY <1>5, <1>n, <1>w, WriteParts DEF Apply, Insert, Erase, TablesOK
  <2> QED BY <1>5, <2>1 DEF Aims
<1>6. Len(plan[k]) = 2 => plan[k][2] \in Write BY <1>n
<1>7. kind[k] = "connect" => ConnectAimed(k)' BY <1>3, <1>4, <1>m DEF Aimed, ConnectAimed
<1>8. ASSUME kind[k] = "cut" PROVE CutAimed(k)'
  <2>1. CutAimed(k) BY <1>3, <1>8 DEF Aimed
  <2>2. ASSUME Len(plan[k]) = 2 PROVE Taking(plan[k][2])'
    <3>1. PICK v \in Write : v = plan[k][2] BY <1>6, <2>2
    <3>2. Aims(v)' /\ v.put \subseteq v.base BY <1>5, <2>1, <2>2, <3>1 DEF CutAimed, Taking
    <3>3. plan'[k][2] = v BY <1>m, <3>1
    <3> QED BY <3>2, <3>3 DEF Taking, Aims
  <2> QED BY <1>3, <1>4, <1>m, <2>1, <2>2 DEF CutAimed
<1>9. ASSUME kind[k] = "splice" PROVE Inserts(k)' \/ Rewires(k)'
  <2>1. CASE Rewires(k) BY <1>3, <1>4, <1>m, <2>1 DEF Rewires
  <2>2. CASE Inserts(k)
    <3>1. PICK s \in Upstream, n \in Stages :
             Len(plan[k]) = 2 /\ Now(k) = Create(n, {s}) /\ Splicing(plan[k][2], s, n)
          BY <1>d, <2>2 DEF Inserts
    <3>2. Now(k).req = "create" /\ Now(k).node = n /\ Now(k).put = {s}
          BY <3>1 DEF Create
    <3>3. Insert(k) BY <3>2 DEF Apply, Erase
    <3>4. refs' = [refs EXCEPT ![n] = {s}] /\ n \in Nodes BY <1>n, <3>2, <3>3 DEF Insert
    <3>5. n \notin born BY <1>4, <3>2 DEF RowsFit, NewFit, Creating
    <3>6. Ready(s, n)'
      <4>1. refs'[n] = {s} BY <3>4, <1>w DEF TablesOK
      <4>2. ASSUME NEW m \in Nodes PROVE n \notin refs'[m]
        <5>1. n # s BY <3>1 DEF Splicing
        <5>2. CASE m = n BY <4>1, <5>1, <5>2
        <5>3. CASE m # n BY <1>w, <3>4, <3>5, <5>3 DEF TablesOK, RowsFit, TablesFit
        <5> QED BY <5>2, <5>3
      <4> QED BY <4>1, <4>2 DEF Ready
    <3>7. Splicing(plan[k][2], s, n)'
      <4>1. PICK v \in Write : v = plan[k][2] BY <1>6, <3>1
      <4>2. Aims(v)' BY <1>5, <3>1, <3>2, <4>1 DEF Splicing
      <4>3. plan'[k][2] = v BY <1>m, <4>1
      <4>4. Splicing(v, s, n)' BY <3>1, <4>1, <4>2 DEF Splicing
      <4> QED BY <4>3, <4>4 DEF Splicing, Aims
    <3>8. plan'[k] = plan[k] BY <1>m
    <3> QED BY <1>3, <3>1, <3>6, <3>7, <3>8 DEF Inserts
  <2> QED BY <1>3, <1>9, <2>1, <2>2 DEF Aimed
<1>10. RowRead(k)' BY <1>d DEF RowRead
<1> QED BY <1>7, <1>8, <1>9, <1>10, <1>m DEF Aimed

\* Only blind writes close circles.
LEMMA CycleStep ==
    ASSUME TypeOK, FInv, RowsFit, AllAimed, CyclesNeedBlindWrites, NEW k \in Ops,
           Make(k) \/ Handle(k) \/ Settle(k) \/ Lose(k) \/ LoadFails(k)
    PROVE  CyclesNeedBlindWrites'
<1>w. WorkOK /\ TablesOK BY TypeParts
<1>s. Stages \subseteq Nodes BY Kinships
<1>1. ASSUME UNCHANGED refs, drifted => drifted' PROVE CyclesNeedBlindWrites'
      BY <1>1 DEF CyclesNeedBlindWrites, HasCycle, Loops
<1>2. ASSUME ~HasCycle(refs) => ~HasCycle(refs'), drifted => drifted'
      PROVE  CyclesNeedBlindWrites'
      BY <1>2 DEF CyclesNeedBlindWrites, HasCycle, Loops
<1>3. CASE Make(k) \/ Settle(k) \/ Lose(k) \/ LoadFails(k) \/ ApplyFails(k)
  <2>1. UNCHANGED <<refs, drifted>> BY <1>3, MakeKeeps, SettleKeeps, FaultKeeps DEF Quiet
  <2> QED BY <1>1, <2>1
<1>4. CASE Check(k) BY <1>1, <1>4 DEF Check, tables, history
<1>5. CASE Erase(k)
  <2>1. refs' = [refs EXCEPT ![Now(k).node] = {}] /\ drifted' = drifted BY <1>5 DEF Erase
  <2>2. \A n \in Stages : refs'[n] \cap Stages \subseteq refs[n]
        BY <1>s, <1>w, <2>1 DEF TablesOK
  <2>3. ~HasCycle(refs) => ~HasCycle(refs') BY <2>2, FewerEdges
  <2> QED BY <1>2, <2>1, <2>3
<1>6. CASE Insert(k)
  <2> DEFINE n == Now(k).node
  <2>1. /\ refs' = [refs EXCEPT ![n] = Now(k).put] /\ drifted' = drifted
        /\ st[k] = "checked" /\ Now(k).req = "create"
        BY <1>6 DEF Insert, At
  <2>2. n \in Nodes BY <1>w, <2>1, NowType, WriteParts
  <2>3. n \notin born BY <2>1 DEF RowsFit, NewFit, Creating, Underway
  <2>4. Now(k).put \subseteq born BY <2>1 DEF RowsFit, ChecksFit
  <2>5. \A m \in Stages : refs[m] \subseteq born BY <1>s DEF RowsFit, TablesFit
  <2>6. refs'[n] \subseteq born /\ \A m \in Stages \ {n} : refs'[m] = refs[m]
        BY <1>s, <1>w, <2>1, <2>2, <2>4 DEF TablesOK
  <2> HIDE DEF n
  <2>7. ~HasCycle(refs) => ~HasCycle(refs') BY <2>3, <2>5, <2>6, NewNode
  <2> QED BY <1>2, <2>1, <2>7
<1>7. CASE Apply(k)
  <2> DEFINE w == Now(k)
             t == Now(k).node
  <2>1. /\ drifted' = (drifted \/ shaky[k] \/ kind[k] \in {"save", "cuts"})
        /\ st[k] = "checked" /\ w.req = "put"
        BY <1>7 DEF Apply, At
  <2>2. CASE drifted' BY <2>2 DEF CyclesNeedBlindWrites
  <2>3. CASE ~drifted'
    <3>1. ~drifted /\ ~shaky[k] /\ kind[k] \notin {"save", "cuts"} BY <2>1, <2>3
    <3>2. Underway(k) /\ Calm(k) BY <2>1, <3>1 DEF Underway, Calm
    <3>3. kind[k] \in {"connect", "cut", "splice"}
          BY <2>1, <3>1, <3>2 DEF RowsFit, ShapeFit, Drawn
    <3>4. Aimed(k) BY <3>2 DEF AllAimed
    <3>5. ~HasCycle(refs) BY <3>1 DEF CyclesNeedBlindWrites
    <3>6. Aims(w)
      <4>1. CASE kind[k] = "connect" BY <3>2, <3>4, <4>1 DEF Aimed, ConnectAimed
      <4>2. CASE kind[k] = "cut" BY <3>2, <3>4, <4>2 DEF Aimed, CutAimed, Taking
      <4>3. CASE kind[k] = "splice"
        <5>1. ~Inserts(k) BY <2>1 DEF Inserts, Create
        <5> QED BY <3>2, <3>4, <4>3, <5>1 DEF Aimed, Rewires, Splicing
      <4> QED BY <3>3, <4>1, <4>2, <4>3
    <3>7. /\ refs' = [refs EXCEPT ![t] = w.put \cup (refs[t] \cap Sinks)] /\ t \in Nodes
          BY <1>7, <3>1, <3>4, <3>6, AimedRow DEF Aimed
    <3>8. /\ \A m \in Nodes \ {t} : refs'[m] = refs[m]
          /\ refs'[t] = w.put \cup (refs[t] \cap Sinks)
          BY <1>w, <3>7 DEF TablesOK
    <3>9. Sinks \cap Stages = {} BY NodeKindsAreDisjoint DEF Upstream
    <3>10. w.base = refs[t] \cap Upstream BY <3>6 DEF Aims
    <3>11. ~HasCycle(refs')
      <4>1. CASE kind[k] = "connect"
        <5>1. PICK s \in Upstream : w.put = w.base \cup {s} /\ ~Reaches(s, t, refs)
              BY <3>2, <3>4, <4>1 DEF Aimed, ConnectAimed, Joining
        <5>2. /\ \A n \in Stages \ {t} : refs'[n] \cap Stages \subseteq refs[n]
              /\ refs'[t] \cap Stages \subseteq refs[t] \cup {s}
              BY <1>s, <3>8, <3>9, <3>10, <5>1
        <5> QED BY <3>5, <5>1, <5>2, AllowedEdge
      <4>2. CASE kind[k] = "cut"
        <5>1. w.put \subseteq w.base BY <3>2, <3>4, <4>2 DEF Aimed, CutAimed, Taking
        <5>2. \A n \in Stages : refs'[n] \cap Stages \subseteq refs[n]
              BY <1>s, <3>8, <3>9, <3>10, <5>1
        <5> QED BY <3>5, <5>2, FewerEdges
      <4>3. CASE kind[k] = "splice"
        <5>1. ~Inserts(k) BY <2>1 DEF Inserts, Create
        <5>2. PICK s \in Upstream, n \in Stages : Splicing(w, s, n) /\ Ready(s, n)
              BY <3>2, <3>4, <4>3, <5>1 DEF Aimed, Rewires
        <5>3. refs[n] = {s} /\ n # s /\ n # t /\ s \in refs[t]
              BY <3>10, <5>2 DEF Splicing, Ready
        <5>5. \A m \in Stages : n \notin refs[m]
              BY <1>s, <3>10, <5>2 DEF Splicing, Ready
        <5>4. \A m \in Stages \ {t} : refs'[m] \cap Stages \subseteq refs[m]
              BY <1>s, <3>8
        <5>6. refs'[t] \cap Stages \subseteq (refs[t] \ {s}) \cup {n}
              BY <3>8, <3>9, <3>10, <5>2 DEF Splicing
        <5> HIDE DEF t
        <5> QED BY <3>5, <5>3, <5>4, <5>5, <5>6, SplicedEdge
      <4> QED BY <3>3, <4>1, <4>2, <4>3
    <3> QED BY <3>11 DEF CyclesNeedBlindWrites, HasCycle, Loops
  <2> QED BY <2>2, <2>3
<1> QED BY <1>3, <1>4, <1>5, <1>6, <1>7 DEF Handle

EInv == FInv /\ RowsFit /\ AllAimed /\ CyclesNeedBlindWrites

LEMMA EInit == Init => EInv
<1> SUFFICES ASSUME Init PROVE EInv OBVIOUS
<1>1. TablesFit
  <2>1. ASSUME NEW n \in Nodes
        PROVE  Wired[n] \subseteq Existing \cap Named /\ (n \notin Existing => Wired[n] = {})
    <3>1. CASE Wired[n] = {} BY <3>1
    <3>2. CASE Wired[n] # {}
      <4>1. n \in Existing /\ Valid(n, Wired[n], Existing) BY <3>2, ConstantsAssumption
      <4>2. Nameable(n) \subseteq Named BY DEF Nameable, Named
      <4> QED BY <4>1, <4>2 DEF Valid
    <3> QED BY <3>1, <3>2
  <2> QED BY <2>1 DEF Init, TablesFit
<1>2. \A j \in Ops : st[j] = "idle" /\ kind[j] = "load" /\ plan[j] = <<>> BY DEF Init
<1>3. ChecksFit /\ NewFit BY <1>2 DEF ChecksFit, NewFit, Creating, Underway
<1>4. \A j \in Ops : ShapeFit(j) BY <1>2 DEF ShapeFit, Underway
<1>5. AllAimed BY <1>2 DEF AllAimed, Calm
<1>6. CyclesNeedBlindWrites BY ConstantsAssumption DEF CyclesNeedBlindWrites, Init
<1> QED BY <1>1, <1>3, <1>4, <1>5, <1>6, FInit DEF EInv, RowsFit

LEMMA EStep == TypeOK /\ TypeOK' /\ EInv /\ [Next]_vars => EInv'
<1> SUFFICES ASSUME TypeOK, TypeOK', EInv, [Next]_vars PROVE EInv' OBVIOUS
<1>1. FInv' BY FStep DEF EInv
<1>2. CASE Next
  <2>1. PICK k \in Ops : Make(k) \/ Handle(k) \/ Settle(k) \/ Lose(k) \/ LoadFails(k)
        BY <1>2 DEF Next
  <2>2. RowsFit' BY <2>1, MakeRows, HandleRows, AnswerRows DEF EInv
  <2>3. AllAimed' BY <2>1, MakeAimed, AnswerAimed, WriteAimed DEF EInv, Handle
  <2>4. CyclesNeedBlindWrites' BY <2>1, CycleStep DEF EInv
  <2> QED BY <1>1, <2>2, <2>3, <2>4 DEF EInv
<1>3. CASE UNCHANGED vars
  <2>1. UNCHANGED <<st, kind, plan, row, alive, refs, born, shaky, drifted>>
        BY <1>3 DEF vars, tables, operation, history
  <2>2. RowsFit'
        BY <2>1 DEF EInv, RowsFit, TablesFit, ChecksFit, NewFit, Creating, Underway, ShapeFit, Now
  <2>3. AllAimed'
    <3>1. \A w, s, n : /\ (Aims(w)' <=> Aims(w)) /\ (Joining(w)' <=> Joining(w))
                       /\ (Taking(w)' <=> Taking(w)) /\ (Splicing(w, s, n)' <=> Splicing(w, s, n))
                       /\ (Ready(s, n)' <=> Ready(s, n))
          BY <2>1 DEF Aims, Joining, Taking, Splicing, Ready
    <3>2. \A j : Now(j)' = Now(j) /\ (Underway(j)' <=> Underway(j)) /\ (Calm(j)' <=> Calm(j))
          BY <2>1 DEF Now, Underway, Calm
    <3>3. \A j : /\ (ConnectAimed(j) => ConnectAimed(j)') /\ (CutAimed(j) => CutAimed(j)')
                 /\ (RowRead(j) => RowRead(j)')
          BY <2>1, <3>1, <3>2 DEF ConnectAimed, CutAimed, RowRead
    <3>4. \A j : (Inserts(j) => Inserts(j)') /\ (Rewires(j) => Rewires(j)')
          BY <2>1, <3>1, <3>2 DEF Inserts, Rewires
    <3> QED BY <2>1, <3>2, <3>3, <3>4 DEF EInv, AllAimed, Aimed
  <2>4. CyclesNeedBlindWrites' BY <2>1 DEF EInv, CyclesNeedBlindWrites, HasCycle, Loops
  <2> QED BY <1>1, <2>2, <2>3, <2>4 DEF EInv
<1> QED BY <1>2, <1>3

\* The steps of a write that commits, and of a gesture.
LEMMA CommitSteps ==
    ASSUME TypeOK, NEW k \in Ops, Commits(k), Next
    PROVE  Apply(k)
<1>w. WorkOK BY TypeParts
<1>1. st[k] = "checked" /\ Now(k).req = "put" /\ st'[k] = "ok" BY DEF Commits, At
<1>2. PICK j \in Ops : Make(j) \/ Handle(j) \/ Settle(j) \/ Lose(j) \/ LoadFails(j)
      BY DEF Next
<1>3. OthersKept(j) BY <1>2, MakeKeeps, HandleKeeps, SettleKeeps, FaultKeeps
<1>4. j = k BY <1>1, <1>3 DEF OthersKept
<1>5. ~Make(k)
  <2>1. \A what, w : ~Gesture(k, what, w) BY <1>1 DEF Gesture, At
  <2> QED BY <1>1, <2>1 DEF Make, Connect, Cut, CutTwo, Splice, Add, Remove, Open, Save,
          RemoveOpen, Close, Retry, At
<1>6. ~Settle(k) /\ ~Lose(k) /\ ~LoadFails(k)
      BY <1>1 DEF Settle, Succeed, Fail, Confirm, Read, Show, Lose, LoadFails, At
<1>7. ~Check(k) /\ ~ApplyFails(k) BY <1>1, <1>w DEF Check, ApplyFails, At, WorkOK
<1>8. ~Insert(k) /\ ~Erase(k) BY <1>1 DEF Insert, Erase
<1> QED BY <1>2, <1>4, <1>5, <1>6, <1>7, <1>8 DEF Handle

LEMMA PutAims ==
    ASSUME AllAimed, RowsFit, NEW k \in Ops, st[k] = "checked", Now(k).req = "put",
           ~shaky[k], kind[k] \notin {"save", "cuts"}
    PROVE  Aims(Now(k)) /\ RowRead(k)
<1>1. Underway(k) /\ Calm(k) BY DEF Underway, Calm
<1>2. kind[k] \in {"connect", "cut", "splice"} BY <1>1 DEF RowsFit, ShapeFit, Drawn
<1>3. Aimed(k) BY <1>1 DEF AllAimed
<1>4. ~Inserts(k) BY DEF Inserts, Create
<1>5. kind[k] = "connect" => Aims(Now(k)) BY <1>1, <1>3 DEF Aimed, ConnectAimed
<1>6. kind[k] = "cut" => Aims(Now(k)) BY <1>1, <1>3 DEF Aimed, CutAimed, Taking
<1>7. kind[k] = "splice" => Aims(Now(k)) BY <1>1, <1>3, <1>4 DEF Aimed, Rewires, Splicing
<1> QED BY <1>2, <1>3, <1>5, <1>6, <1>7 DEF Aimed

LEMMA EditStep ==
    ASSUME TypeOK, EInv, Next, NEW k \in Ops, Commits(k), ~shaky[k],
           kind[k] \notin {"save", "cuts"}
    PROVE  refs'[Now(k).node] = Meant(k)
<1>1. Apply(k) BY CommitSteps
<1>2. Aims(Now(k)) /\ RowRead(k) BY PutAims DEF EInv, Commits, At
<1>3. /\ refs' = [refs EXCEPT ![Now(k).node] = Now(k).put \cup (refs[Now(k).node] \cap Sinks)]
      /\ Now(k).node \in Nodes
      /\ Now(k).put \cup (refs[Now(k).node] \cap Sinks) = Meant(k)
      BY <1>1, <1>2, AimedRow DEF EInv
<1> QED BY <1>3, TypeParts DEF TablesOK

LEMMA FlowStep ==
    ASSUME TypeOK, EInv, Next, NEW k \in Ops, kind[k] = "splice", st'[k] # st[k], ~shaky[k],
           NEW s \in Upstream, NEW t \in Nodes, Feeds(s, t)
    PROVE  Feeds(s, t)'
<1>w. WorkOK /\ TablesOK BY TypeParts
<1>s. Stages \subseteq Nodes BY Kinships
<1>1. PICK j \in Ops : Make(j) \/ Handle(j) \/ Settle(j) \/ Lose(j) \/ LoadFails(j)
      BY DEF Next
<1>2. OthersKept(j) BY <1>1, MakeKeeps, HandleKeeps, SettleKeeps, FaultKeeps
<1>3. j = k BY <1>2 DEF OthersKept
<1>4. CASE UNCHANGED refs BY <1>4 DEF Feeds, Reaches, Closed
<1>5. CASE Erase(k)
  <2>1. st[k] = "checked" /\ Now(k).req \in {"delete", "force"} BY <1>5 DEF Erase, At
  <2>2. plan[k] \in Seq(Write) /\ plan[k] # <<>> BY <1>w, <2>1, NowType
  <2>3. 1 \in 1 .. Len(plan[k]) /\ Now(k) = plan[k][1] BY <2>2 DEF Now
  <2>4. Now(k).req \in {"put", "create"} BY <2>3 DEF EInv, FInv, PlansFit, PlanFit, Drawn
  <2> QED BY <2>1, <2>4
<1>6. PICK n \in refs[t] : Reaches(n, s, refs) BY DEF Feeds
<1>7. CASE Insert(k)
  <2>1. /\ refs' = [refs EXCEPT ![Now(k).node] = Now(k).put]
        /\ st[k] = "checked" /\ Now(k).req = "create"
        BY <1>7 DEF Insert, At
  <2>2. Now(k).node \in Nodes BY <1>w, <2>1, NowType, WriteParts
  <2>3. Now(k).node \notin born BY <2>1 DEF EInv, RowsFit, NewFit, Creating, Underway
  <2>4. refs[Now(k).node] = {} BY <2>2, <2>3 DEF EInv, RowsFit, TablesFit
  <2>5. \A m \in Nodes : refs[m] \subseteq refs'[m] BY <1>w, <2>1, <2>4 DEF TablesOK
  <2>6. Reaches(n, s, refs') BY <1>6, <1>s, <2>5, GrownFlow
  <2>7. n \in refs'[t] BY <2>5
  <2> QED BY <2>6, <2>7 DEF Feeds, Reaches, Closed
<1>8. CASE Apply(k)
  <2>1. st[k] = "checked" /\ Now(k).req = "put" BY <1>8 DEF Apply, At
  <2>2. Underway(k) /\ Calm(k) BY <2>1 DEF Underway, Calm
  <2>3. Aimed(k) BY <2>2 DEF EInv, AllAimed
  <2>4. ~Inserts(k) BY <2>1 DEF Inserts, Create
  <2>5. PICK x \in Upstream, m \in Stages : Splicing(Now(k), x, m) /\ Ready(x, m)
        BY <2>2, <2>3, <2>4 DEF Aimed, Rewires
  <2>6. PICK u \in Nodes : u = Now(k).node BY <1>w, <2>1, NowType, WriteParts
  <2>7. /\ refs' = [refs EXCEPT ![u] = Now(k).put \cup (refs[u] \cap Sinks)]
        BY <1>8, <2>1, <2>3, <2>5, <2>6, AimedRow DEF EInv, Splicing, Aimed
  <2>8. /\ \A i \in Nodes \ {u} : refs'[i] = refs[i]
        /\ refs'[u] = Now(k).put \cup (refs[u] \cap Sinks)
        BY <1>w, <2>7 DEF TablesOK
  <2>9. refs[u] \subseteq Upstream \cup Sinks BY DEF EInv, RowsFit, TablesFit, Named
  <2>10. /\ Now(k).put = ((refs[u] \cap Upstream) \ {x}) \cup {m} /\ m # u /\ x \in refs[u]
         BY <2>5, <2>6 DEF Splicing, Aims
  <2>11. refs[u] \subseteq refs'[u] \cup {x} /\ m \in refs'[u] BY <2>8, <2>9, <2>10
  <2>12. refs[m] = {x} BY <2>5 DEF Ready
  <2>13. \A i \in Stages \ {u} : refs'[i] = refs[i] BY <1>s, <2>8
  <2>14. \A a : Reaches(a, s, refs) => Reaches(a, s, refs')
         BY <2>10, <2>11, <2>12, <2>13, SplicedFlow
  <2>15. CASE n \in refs'[t]
         BY <1>6, <2>14, <2>15 DEF Feeds, Reaches, Closed
  <2>16. CASE n \notin refs'[t]
    <3>1. t = u /\ n = x BY <2>8, <2>11, <2>16
    <3>2. refs'[m] = {x} BY <1>s, <2>8, <2>10, <2>12
    <3>3. Reaches(x, s, refs') BY <1>6, <2>14, <3>1
    <3>4. Reaches(m, s, refs')
      <4> SUFFICES ASSUME NEW S \in SUBSET Nodes, m \in S, Closed(S, refs') PROVE s \in S
          BY DEF Reaches
      <4>1. x \in S BY <3>2 DEF Closed
      <4> QED BY <3>3, <4>1 DEF Reaches
    <3>5. m \in refs'[t] BY <2>11, <3>1
    <3> QED BY <3>4, <3>5 DEF Feeds, Reaches, Closed
  <2> QED BY <2>15, <2>16
<1>9. CASE Make(k) \/ Settle(k) \/ Lose(k) \/ LoadFails(k) \/ ApplyFails(k) \/ Check(k)
  <2>1. UNCHANGED refs
    <3>1. CASE Check(k) BY <3>1 DEF Check, tables
    <3> QED BY <1>9, <3>1, MakeKeeps, SettleKeeps, FaultKeeps DEF Quiet
  <2> QED BY <1>4, <2>1
<1> QED BY <1>1, <1>3, <1>5, <1>7, <1>8, <1>9 DEF Handle

\* For any fleet, pages and gestures: stages read each other in a circle only
\* after a write that was computed from a stale page or sent by an editor
\* (wouldCycle in FleetTopologyCanvas.tsx; the handlers do not check).
THEOREM CirclesNeedBlindWrites == Spec => []CyclesNeedBlindWrites
<1>1. Init => TypeOK /\ EInv BY TypeInit, EInit
<1>2. TypeOK /\ EInv /\ [Next]_vars => (TypeOK /\ EInv)' BY TypeStep, EStep
<1>3. EInv => CyclesNeedBlindWrites BY DEF EInv
<1> QED BY <1>1, <1>2, <1>3, PTL DEF Spec

\* For any fleet, pages and gestures: a write of an up-to-date canvas makes of
\* the row what the gesture meant, and nothing else of it (dataRef).
THEOREM EditsAlwaysStick == Spec => EditsStick
<1>1. Init => TypeOK /\ EInv BY TypeInit, EInit
<1>2. TypeOK /\ EInv /\ [Next]_vars => (TypeOK /\ EInv)' BY TypeStep, EStep
<1>3. TypeOK /\ EInv /\ [Next]_vars =>
        [\A k \in Ops : Commits(k) /\ ~shaky[k] /\ kind[k] \notin {"save", "cuts"}
                        => refs'[Now(k).node] = Meant(k)]_vars
      BY EditStep
<1> QED BY <1>1, <1>2, <1>3, PTL DEF Spec, EditsStick

\* For any fleet, pages and gestures: inserting a remap into an edge interrupts
\* no flow at any step, wherever it stops (insertRemap).
THEOREM SplicesKeepFlow == Spec => SpliceKeepsFlow
<1>1. Init => TypeOK /\ EInv BY TypeInit, EInit
<1>2. TypeOK /\ EInv /\ [Next]_vars => (TypeOK /\ EInv)' BY TypeStep, EStep
<1>3. TypeOK /\ EInv /\ [Next]_vars =>
        [\A k \in Ops : kind[k] = "splice" /\ st'[k] # st[k] /\ ~shaky[k] =>
           \A s \in Upstream, t \in Nodes : Feeds(s, t) => Feeds(s, t)']_vars
      BY FlowStep
<1> QED BY <1>1, <1>2, <1>3, PTL DEF Spec, SpliceKeepsFlow

-----------------------------------------------------------------------------
(* What CanvasComesBack counts on: a spinner stands for a load that is under *)
(* way, this load only has fewer tables left to read, and whichever load of  *)
(* the page ends first takes the spinner away.                               *)

\* A canvas is a spinner only while a load of its page is under way.
SpinnerHasLoad == \A p \in Pages : loading[p] => \E k \in Mine(p) : At(k, "list")

\* A load of k goes on with fewer tables, or it ends, and with it the spinner.
LoadAdvances(k) ==
    At(k, "list") =>
        \/ At(k, "list")' /\ left'[k] \subseteq left[k]
        \/ ~At(k, "list")' /\ ~loading'[PageOf[k]]

\* What a step of k may do to the loads and spinners: start one, end one, or read.
LoadStep(k) ==
    \/ At(k, "list")' /\ ~At(k, "list") /\ loading' = [loading EXCEPT ![PageOf[k]] = TRUE]
    \/ At(k, "list") /\ ~At(k, "list")' /\ loading' = [loading EXCEPT ![PageOf[k]] = FALSE]
    \/ /\ At(k, "list")' <=> At(k, "list")
       /\ left'[k] \subseteq left[k] /\ UNCHANGED loading

LEMMA LoadSteps ==
    ASSUME TypeOK, NEW k \in Ops,
           Make(k) \/ Handle(k) \/ Settle(k) \/ Lose(k) \/ LoadFails(k)
    PROVE  OthersKept(k) /\ LoadStep(k)
<1> USE DEF At
<1>1. OthersKept(k)
      BY MakeKeeps, HandleKeeps, SettleKeeps, FaultKeeps
<1>2. st \in [Ops -> Stations] /\ left \in [Ops -> SUBSET Tables] /\ loading \in [Pages -> BOOLEAN]
      BY DEF TypeOK
<1>3. ASSUME StartsLoad(k), st[k] # "list" PROVE LoadStep(k)
      BY <1>2, <1>3 DEF StartsLoad, LoadStep
<1>4. ASSUME NEW w, Sends(k, w), st[k] # "list" PROVE LoadStep(k)
      BY <1>2, <1>4 DEF Sends, reading, LoadStep
<1>5. ASSUME Ends(k), st[k] # "list" PROVE LoadStep(k)
  <2>1. st'[k] # "list" /\ left'[k] = {} /\ UNCHANGED loading
        BY <1>2, <1>5 DEF Ends, Clears
  <2> QED BY <1>5, <2>1 DEF LoadStep
<1>6. ASSUME GoesOn(k), st[k] # "list" PROVE LoadStep(k)
      BY <1>3, <1>4, <1>6 DEF GoesOn
<1>7. ASSUME Make(k) PROVE LoadStep(k)
  <2>1. ASSUME NEW what, NEW w, Gesture(k, what, w), UNCHANGED loading PROVE LoadStep(k)
        BY <1>2, <2>1 DEF Gesture, reading, LoadStep
  <2>2. ASSUME NEW what, NEW w, Gesture(k, what, w) PROVE LoadStep(k)
        BY <2>1, <2>2 DEF Gesture, canvas
  <2>3. ASSUME NEW n \in Nodes, Open(k, n) PROVE LoadStep(k)
        BY <1>2, <2>3 DEF Open, canvas, reading, LoadStep
  <2>4. CASE Save(k) \/ RemoveOpen(k) \/ Close(k)
        BY <1>2, <2>4 DEF Save, RemoveOpen, Close, canvas, reading, LoadStep
  <2>5. CASE Retry(k)
        BY <1>3, <2>5 DEF Retry
  <2> QED BY <1>7, <2>2, <2>3, <2>4, <2>5 DEF Make, Connect, Cut, CutTwo, Splice, Add, Remove
<1>8. ASSUME Handle(k) PROVE LoadStep(k)
  <2>1. CASE Check(k)
    <3>1. st[k] = "sent" /\ st'[k] # "list" /\ UNCHANGED <<left, loading>>
          BY <1>2, <2>1 DEF Check, canvas, reading
    <3> QED BY <3>1 DEF LoadStep
  <2>2. CASE Apply(k) \/ ApplyFails(k) \/ Insert(k) \/ Erase(k)
        BY <1>2, <2>2 DEF Apply, ApplyFails, Insert, Erase, canvas, reading, LoadStep
  <2> QED BY <1>8, <2>1, <2>2 DEF Handle
<1>9. ASSUME Settle(k) PROVE LoadStep(k)
  <2>1. CASE Succeed(k)
        BY <1>6, <2>1 DEF Succeed
  <2>2. CASE Fail(k)
        BY <1>3, <1>5, <1>6, <2>2 DEF Fail, Recovers
  <2>3. CASE Confirm(k)
        BY <1>4, <1>5, <2>3 DEF Confirm
  <2>4. ASSUME NEW T \in Tables, Read(k, T) PROVE LoadStep(k)
    <3>1. left'[k] = left[k] \ {T} /\ UNCHANGED <<st, loading>>
          BY <1>2, <2>4 DEF Read, canvas
    <3> QED BY <3>1 DEF LoadStep
  <2>5. CASE Show(k)
    <3>1. st[k] = "list" /\ st'[k] # "list" /\ loading' = [loading EXCEPT ![PageOf[k]] = FALSE]
          BY <1>2, <2>5 DEF Show, Clears
    <3> QED BY <3>1 DEF LoadStep
  <2> QED BY <1>9, <2>1, <2>2, <2>3, <2>4, <2>5 DEF Settle
<1>10. ASSUME Lose(k) PROVE LoadStep(k)
       BY <1>2, <1>10 DEF Lose, canvas, reading, LoadStep
<1>11. ASSUME LoadFails(k) PROVE LoadStep(k)
  <2>1. st[k] = "list" /\ st'[k] # "list"
        BY <1>2, <1>11 DEF LoadFails, Clears
  <2>2. loading' = [loading EXCEPT ![PageOf[k]] = FALSE]
        BY <1>11 DEF LoadFails, NotLoading
  <2> QED BY <2>1, <2>2 DEF LoadStep
<1> QED BY <1>1, <1>7, <1>8, <1>9, <1>10, <1>11

LEMMA SpinnerStep == TypeOK /\ SpinnerHasLoad /\ [Next]_vars => SpinnerHasLoad'
<1> SUFFICES ASSUME TypeOK, SpinnerHasLoad, [Next]_vars PROVE SpinnerHasLoad'
    OBVIOUS
<1>1. CASE UNCHANGED vars
      BY <1>1 DEF SpinnerHasLoad, At, Mine, vars, canvas, operation
<1>2. ASSUME NEW k \in Ops, OthersKept(k), LoadStep(k) PROVE SpinnerHasLoad'
  <2> SUFFICES ASSUME NEW p \in Pages, loading'[p] PROVE \E j \in Mine(p) : At(j, "list")'
      BY DEF SpinnerHasLoad
  <2>1. loading \in [Pages -> BOOLEAN] /\ PageOf[k] \in Pages
        BY ConstantsAssumption DEF TypeOK
  <2>2. CASE At(k, "list")' /\ p = PageOf[k]
        BY <2>2 DEF Mine
  <2>3. CASE ~(At(k, "list")' /\ p = PageOf[k])
    <3>1. loading[p] /\ (At(k, "list") => At(k, "list")' \/ p # PageOf[k])
          BY <1>2, <2>1, <2>3 DEF LoadStep
    <3>2. PICK j \in Mine(p) : At(j, "list")
          BY <3>1 DEF SpinnerHasLoad
    <3>3. j # k
          BY <2>3, <3>1, <3>2 DEF Mine
    <3> QED BY <1>2, <3>2, <3>3 DEF OthersKept, Mine, At
  <2> QED BY <2>2, <2>3
<1> QED BY <1>1, <1>2, LoadSteps DEF Next

LEMMA LoadsStep == TypeOK /\ [Next]_vars => [\A k \in Ops : LoadAdvances(k)]_vars
<1> SUFFICES ASSUME TypeOK, Next, NEW j \in Ops PROVE LoadAdvances(j)
    OBVIOUS
<1>1. PICK k \in Ops : OthersKept(k) /\ LoadStep(k)
      BY LoadSteps DEF Next
<1>2. CASE j = k
  <2>1. loading \in [Pages -> BOOLEAN] /\ PageOf[k] \in Pages
        BY ConstantsAssumption DEF TypeOK
  <2> QED BY <1>1, <1>2, <2>1 DEF LoadStep, LoadAdvances
<1>3. CASE j # k
      BY <1>1, <1>3 DEF OthersKept, LoadAdvances, At
<1> QED BY <1>2, <1>3

\* The canvas never waits for a load that is not there, however many loads of a page
\* cross or fail (FleetTopologyCanvas.tsx, load).
THEOREM SpinnersHaveLoads == Spec => []SpinnerHasLoad
<1>1. Init => SpinnerHasLoad
      BY DEF Init, SpinnerHasLoad
<1> QED BY <1>1, SpinnerStep, TypeCorrect, PTL DEF Spec

\* A load never reads a table twice, and the spinner goes with the first load of the
\* page that ends, in success or failure.
THEOREM LoadsAdvance == Spec => [][\A k \in Ops : LoadAdvances(k)]_vars
BY LoadsStep, TypeCorrect, PTL DEF Spec
===============================================================================
