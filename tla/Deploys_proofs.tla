---------------------------- MODULE Deploys_proofs ----------------------------
(***************************************************************************)
(* Proofs about Deploys, for any number of dialogs, hosts, contents,       *)
(* deploys and faults.                                                     *)
(***************************************************************************)
EXTENDS Deploys, TLAPS

-----------------------------------------------------------------------------
(* Types.                                                                   *)

FleetOK == /\ draft \in Configs /\ gen \in Nat /\ snap \in Maybe
           /\ joined \subseteq Locals /\ disk \in [Hosts -> Maybe]
           /\ seen \in [Agents -> Maybe] /\ applied \in [Agents -> Nat]
PageOK == /\ errs \in [Dialogs -> BOOLEAN] /\ error \in [Dialogs -> BOOLEAN]
          /\ result \in [Dialogs -> BOOLEAN]
PlaceOK == at \in [Dialogs -> Stations] /\ writing = {d \in Dialogs : at[d] = "files"}
WorkOK == /\ base \in [Dialogs -> Nat] /\ content \in [Dialogs -> Maybe]
          /\ todo \in [Dialogs -> SUBSET Locals] /\ wrote \in [Dialogs -> SUBSET Locals]
          /\ unvalidated \subseteq Dialogs
RestOK == /\ edits \in 0 .. MaxEdits /\ deploys \in 0 .. MaxDeploys
          /\ moves \in 0 .. MaxMoves /\ faults \in 0 .. MaxFaults
          /\ spoiled \subseteq Locals /\ late \subseteq Locals /\ muddled \in BOOLEAN

LEMMA TypeParts == TypeOK <=> FleetOK /\ PageOK /\ PlaceOK /\ WorkOK /\ RestOK
BY DEF TypeOK, FleetOK, PageOK, PlaceOK, WorkOK, RestOK
LEMMA TypePartsPrimed == TypeOK' <=> FleetOK' /\ PageOK' /\ PlaceOK' /\ WorkOK' /\ RestOK'
BY DEF TypeOK, FleetOK, PageOK, PlaceOK, WorkOK, RestOK

LEMMA TypeInit == Init => TypeOK
<1> SUFFICES ASSUME Init PROVE TypeOK OBVIOUS
<1>1. FleetOK BY ConstantsAssumption DEF Init, FleetOK, Maybe
<1>2. PageOK
  <2>1. FALSE \in BOOLEAN OBVIOUS
  <2> QED BY <2>1 DEF Init, PageOK
<1>3. PlaceOK BY DEF Init, PlaceOK, Stations
<1>4. WorkOK BY DEF Init, WorkOK, Maybe
<1>5. RestOK
  <2>1. /\ edits \in 0 .. MaxEdits /\ deploys \in 0 .. MaxDeploys
        /\ moves \in 0 .. MaxMoves /\ faults \in 0 .. MaxFaults
        BY ConstantsAssumption DEF Init
  <2>2. spoiled \subseteq Locals /\ late \subseteq Locals BY DEF Init
  <2>3. muddled \in BOOLEAN BY DEF Init
  <2> QED BY <2>1, <2>2, <2>3 DEF RestOK
<1> QED BY <1>1, <1>2, <1>3, <1>4, <1>5, TypeParts

\* What a step does to the station of its dialog, and to the locks.
LEMMA PlaceType ==
    ASSUME PlaceOK, NEW d \in Dialogs, NEW s \in Stations, Goes(d, s)
    PROVE  /\ s = "files" /\ writing' = writing \cup {d} => PlaceOK'
           /\ s # "files" /\ writing' = writing \ {d} => PlaceOK'
           /\ s # "files" /\ at[d] # "files" /\ writing' = writing => PlaceOK'
<1>1. at' \in [Dialogs -> Stations] /\ at'[d] = s
      BY DEF PlaceOK, Goes
<1>2. \A e \in Dialogs \ {d} : at'[e] = at[e] BY DEF PlaceOK, Goes
<1> QED BY <1>1, <1>2 DEF PlaceOK

LEMMA CountType ==
    /\ (RestOK /\ Fault) => faults' \in 0 .. MaxFaults
    /\ (RestOK /\ Moves) => moves' \in 0 .. MaxMoves
BY ConstantsAssumption DEF RestOK, Fault, Moves

LEMMA DialogType ==
    ASSUME TypeOK, NEW d \in Dialogs, Use(d) \/ Wait(d) \/ PreviewFails(d) \/ LoseAnswer(d)
    PROVE  TypeOK'
<1>0. FleetOK /\ PageOK /\ PlaceOK /\ WorkOK /\ RestOK BY TypeParts
<1>s. {"closed", "preview", "open", "read", "failed"} \subseteq Stations
      BY DEF Stations, Working, Answered
<1>1. FleetOK'
      BY <1>0 DEF Use, Wait, PreviewFails, LoseAnswer, Open, Preview, Deploy, Answer, Close,
                  FleetOK, row, agents
<1>2. PageOK'
  <2>1. ASSUME NEW f \in [Dialogs -> BOOLEAN], NEW b \in BOOLEAN
        PROVE  [f EXCEPT ![d] = b] \in [Dialogs -> BOOLEAN] /\ f[d] \in BOOLEAN
        OBVIOUS
  <2>a. ASSUME Open(d) PROVE PageOK' BY <1>0, <2>1, <2>a DEF Open, PageOK
  <2>b. ASSUME Preview(d) PROVE PageOK'
    <3>1. (draft \in Blocked) \in BOOLEAN OBVIOUS
    <3> QED BY <1>0, <2>1, <2>b, <3>1 DEF Preview, PageOK
  <2>c. ASSUME PreviewFails(d) PROVE PageOK' BY <1>0, <2>1, <2>c DEF PreviewFails, PageOK
  <2>d. ASSUME Deploy(d) PROVE PageOK' BY <1>0, <2>1, <2>d DEF Deploy, PageOK
  <2>3. ASSUME Answer(d) PROVE PageOK'
    <3>1. ASSUME NEW x \in BOOLEAN, NEW y \in BOOLEAN, NEW z \in BOOLEAN, Shows(d, x, y, z)
          PROVE  PageOK'
      <4>1. (x \/ errs[d]) \in BOOLEAN /\ (z \/ result[d]) \in BOOLEAN OBVIOUS
      <4> QED BY <1>0, <2>1, <3>1, <4>1 DEF Shows, PageOK
    <3> QED BY <2>3, <3>1 DEF Answer
  <2>4. ASSUME LoseAnswer(d) \/ Close(d) PROVE PageOK'
        BY <1>0, <2>4 DEF LoseAnswer, Close, PageOK, page
  <2> QED BY <2>a, <2>b, <2>c, <2>d, <2>3, <2>4 DEF Use, Wait
<1>3. PlaceOK'
  <2>1. ASSUME NEW s \in Stations, s # "files", Goes(d, s), at[d] # "files", writing' = writing
        PROVE  PlaceOK'
        BY <1>0, <2>1, PlaceType
  <2>2. ASSUME Open(d) \/ Preview(d) \/ PreviewFails(d) \/ Deploy(d) PROVE PlaceOK'
        BY <1>s, <2>1, <2>2 DEF Open, Preview, PreviewFails, Deploy
  <2>3. ASSUME Answer(d) \/ LoseAnswer(d) \/ Close(d) PROVE PlaceOK'
        BY <1>s, <2>1, <2>3 DEF Answer, LoseAnswer, Close, Answered
  <2> QED BY <2>2, <2>3 DEF Use, Wait
<1>4. WorkOK'
      BY <1>0 DEF Use, Wait, PreviewFails, LoseAnswer, Open, Preview, Deploy, Answer, Close,
                  WorkOK, work, Maybe
<1>5. RestOK'
      BY <1>0, CountType, ConstantsAssumption
      DEF Use, Wait, PreviewFails, LoseAnswer, Open, Preview, Deploy, Answer, Close,
          RestOK, bounds
<1> QED BY <1>1, <1>2, <1>3, <1>4, <1>5, TypePartsPrimed

LEMMA HandleType ==
    ASSUME TypeOK, NEW d \in Dialogs, Handle(d)
    PROVE  TypeOK'
<1>0. FleetOK /\ PageOK /\ PlaceOK /\ WorkOK /\ RestOK BY TypeParts
<1>s. (Working \cup Answered) \subseteq Stations BY DEF Stations
<1>l. Locals \subseteq Hosts BY DEF Hosts
<1>1. ASSUME ReadFleet(d) PROVE TypeOK'
  <2>1. FleetOK' /\ PageOK' /\ RestOK'
        BY <1>0, <1>1 DEF ReadFleet, FleetOK, PageOK, RestOK, row, agents, page, bounds
  <2>2. PlaceOK' BY <1>0, <1>1, <1>s, PlaceType DEF ReadFleet, Working
  <2>3. WorkOK' BY <1>0, <1>1 DEF ReadFleet, WorkOK, FleetOK
  <2> QED BY <2>1, <2>2, <2>3, TypePartsPrimed
<1>2. ASSUME Render(d) PROVE TypeOK'
  <2>1. FleetOK' /\ PageOK' /\ RestOK'
        BY <1>0, <1>2 DEF Render, FleetOK, PageOK, RestOK, row, agents, page, bounds
  <2>2. PlaceOK'
    <3>1. \E s \in {"refused", "update", "check"} : Goes(d, s)
          BY <1>2 DEF Render
    <3> QED BY <3>1, <1>0, <1>2, <1>s, PlaceType DEF Render, Working, Answered
  <2>3. WorkOK' BY <1>0, <1>2 DEF Render, WorkOK, FleetOK, Maybe
  <2> QED BY <2>1, <2>2, <2>3, TypePartsPrimed
<1>3. ASSUME CheckLocals(d) PROVE TypeOK'
  <2>1. FleetOK' /\ PageOK' /\ RestOK' /\ WorkOK'
        BY <1>0, <1>3
        DEF CheckLocals, FleetOK, PageOK, RestOK, WorkOK, row, agents, page, bounds, work
  <2>2. PlaceOK'
    <3>1. \E s \in {"update", "failed"} : Goes(d, s) BY <1>3 DEF CheckLocals
    <3> QED BY <3>1, <1>0, <1>3, <1>s, PlaceType DEF CheckLocals, Working, Answered
  <2> QED BY <2>1, <2>2, TypePartsPrimed
<1>4. ASSUME Update(d) PROVE TypeOK'
  <2>1. FleetOK' /\ PageOK' /\ RestOK'
        BY <1>0, <1>4 DEF Update, FleetOK, PageOK, RestOK, row, agents, page, bounds
  <2>2. PlaceOK' BY <1>0, <1>4, <1>s, PlaceType DEF Update, Working
  <2>3. WorkOK' BY <1>0, <1>4 DEF Update, WorkOK, FleetOK
  <2> QED BY <2>1, <2>2, <2>3, TypePartsPrimed
<1>5. ASSUME NEW h \in Locals, WriteFile(d, h) PROVE TypeOK'
  <2>1. PageOK' /\ RestOK' /\ PlaceOK'
        BY <1>0, <1>5 DEF WriteFile, PageOK, RestOK, PlaceOK, page, bounds
  <2>2. FleetOK' BY <1>0, <1>5, <1>l DEF WriteFile, FleetOK, WorkOK, row, agents
  <2>3. WorkOK' BY <1>0, <1>5 DEF WriteFile, WorkOK
  <2> QED BY <2>1, <2>2, <2>3, TypePartsPrimed
<1>6. ASSUME Commit(d) PROVE TypeOK'
  <2>1. PageOK' /\ WorkOK' BY <1>0, <1>6 DEF Commit, PageOK, WorkOK, page, work
  <2>2. FleetOK'
        BY <1>0, <1>6 DEF Commit, FleetOK, WorkOK, NewGeneration, agents
  <2>3. PlaceOK' BY <1>0, <1>6, <1>s, PlaceType DEF Commit, Answered
  <2>4. RestOK' BY <1>0, <1>6 DEF Commit, RestOK, bounds
  <2> QED BY <2>1, <2>2, <2>3, <2>4, TypePartsPrimed
<1> QED BY <1>1, <1>2, <1>3, <1>4, <1>5, <1>6 DEF Handle

LEMMA AbortType == ASSUME TypeOK, NEW d \in Dialogs, Abort(d) PROVE TypeOK'
<1>0. FleetOK /\ PageOK /\ PlaceOK /\ WorkOK /\ RestOK BY TypeParts
<1>1. FleetOK' /\ PageOK' BY <1>0 DEF Abort, FleetOK, PageOK, row, agents, page
<1>2. PlaceOK'
  <2>1. "failed" \in Stations BY DEF Stations, Answered
  <2> QED BY <2>1, <1>0, PlaceType DEF Abort, LeavesRow
<1>3. WorkOK' BY <1>0 DEF Abort, WorkOK
<1>4. RestOK' BY <1>0, CountType DEF Abort, RestOK, WorkOK
<1> QED BY <1>1, <1>2, <1>3, <1>4, TypePartsPrimed

LEMMA WriteFailsType ==
    ASSUME TypeOK, NEW d \in Dialogs, NEW h \in Locals, WriteFails(d, h) PROVE TypeOK'
<1>0. FleetOK /\ PageOK /\ PlaceOK /\ WorkOK /\ RestOK BY TypeParts
<1>1. FleetOK' /\ PageOK' /\ PlaceOK'
      BY <1>0 DEF WriteFails, FleetOK, PageOK, PlaceOK, row, agents, page
<1>2. WorkOK' BY <1>0 DEF WriteFails, WorkOK
<1>3. RestOK' BY <1>0, CountType DEF WriteFails, RestOK
<1> QED BY <1>1, <1>2, <1>3, TypePartsPrimed

LEMMA OthersType ==
    ASSUME TypeOK,
           \/ \E c \in Configs : Edit(c)
           \/ \E h \in Locals : Join(h) \/ Leave(h)
           \/ \E a \in Agents : Poll(a)
    PROVE  TypeOK'
<1>0. FleetOK /\ PageOK /\ PlaceOK /\ WorkOK /\ RestOK BY TypeParts
<1>1. ASSUME NEW c \in Configs, Edit(c) PROVE TypeOK'
  <2>1. FleetOK' /\ PageOK' /\ PlaceOK' /\ WorkOK'
        BY <1>0, <1>1 DEF Edit, FleetOK, PageOK, PlaceOK, WorkOK, row, agents, page, work
  <2>2. RestOK' BY <1>0, <1>1, ConstantsAssumption DEF Edit, RestOK
  <2> QED BY <2>1, <2>2, TypePartsPrimed
<1>2. ASSUME NEW h \in Locals, Join(h) \/ Leave(h) PROVE TypeOK'
  <2>1. FleetOK' /\ PageOK' /\ PlaceOK' /\ WorkOK'
        BY <1>0, <1>2
        DEF Join, Leave, FleetOK, PageOK, PlaceOK, WorkOK, row, agents, page, work
  <2>2. RestOK' BY <1>0, <1>2, CountType DEF Join, Leave, RestOK
  <2> QED BY <2>1, <2>2, TypePartsPrimed
<1>3. ASSUME NEW a \in Agents, Poll(a) PROVE TypeOK'
  <2>1. PageOK' /\ PlaceOK' /\ WorkOK' /\ RestOK'
        BY <1>0, <1>3 DEF Poll, PageOK, PlaceOK, WorkOK, RestOK, page, work, bounds
  <2>2. FleetOK' BY <1>0, <1>3 DEF Poll, FleetOK, row, Hosts
  <2> QED BY <2>1, <2>2, TypePartsPrimed
<1> QED BY <1>1, <1>2, <1>3

LEMMA TypeStep == TypeOK /\ [Next]_vars => TypeOK'
<1> SUFFICES ASSUME TypeOK, [Next]_vars PROVE TypeOK' OBVIOUS
<1>1. CASE UNCHANGED vars
      BY <1>1 DEF vars, row, agents, page, work, bounds, TypeOK
<1>2. CASE Next
  <2>1. ASSUME NEW d \in Dialogs, Handle(d) \/ Use(d) \/ Wait(d) \/ Fail(d) PROVE TypeOK'
        BY <2>1, HandleType, DialogType, AbortType, WriteFailsType DEF Fail
  <2> QED BY <1>2, <2>1, OthersType DEF Next
<1> QED BY <1>1, <1>2

\* Every reachable state is well formed, and a deploy holds the row exactly
\* while it writes files (deploy_fleet's transaction).
THEOREM TypeCorrect == Spec => []TypeOK
BY TypeInit, TypeStep, PTL DEF Spec

-----------------------------------------------------------------------------
(* Generations and contents.                                                *)

\* What an agent's badge promises (GreenMeansCurrent, for one agent).
Current(a) == /\ applied[a] =< gen
              /\ (gen > 0 /\ applied[a] = gen) => disk[a] = snap

LEMMA GreenStep == TypeOK /\ GreenMeansCurrent /\ [Next]_vars => GreenMeansCurrent'
<1> SUFFICES ASSUME TypeOK, GreenMeansCurrent, [Next]_vars, ~muddled', NEW a \in Agents
             PROVE  Current(a)'
    BY DEF GreenMeansCurrent, Current
<1>0. /\ gen \in Nat /\ applied \in [Agents -> Nat] /\ disk \in [Hosts -> Maybe]
      /\ a \in Hosts /\ a \notin Locals
      BY ConstantsAssumption DEF TypeOK, Hosts
<1>a. ~muddled => Current(a) BY DEF GreenMeansCurrent, Current
<1>1. ASSUME UNCHANGED <<row, disk, applied, muddled>> PROVE Current(a)'
      BY <1>1, <1>a DEF row, Current
<1>2. ASSUME NEW d \in Dialogs, Commit(d) PROVE Current(a)'
  <2>1. ~muddled /\ base[d] = gen /\ gen' = gen + 1 /\ applied' = applied
        BY <1>2 DEF Commit, NewGeneration, agents
  <2> QED BY <1>0, <1>a, <2>1 DEF Current
<1>3. ASSUME NEW d \in Dialogs, NEW h \in Locals, WriteFile(d, h) PROVE Current(a)'
  <2>1. UNCHANGED <<row, applied, muddled>> /\ disk'[a] = disk[a]
        BY <1>0, <1>3 DEF WriteFile, agents
  <2> QED BY <1>a, <2>1 DEF Current, row
<1>4. ASSUME NEW b \in Agents, Poll(b) PROVE Current(a)'
  <2>1. UNCHANGED <<row, muddled>> BY <1>4 DEF Poll
  <2>2. CASE b # a \/ snap \in Bad
    <3>1. applied'[a] = applied[a] /\ disk'[a] = disk[a] BY <1>0, <1>4, <2>2 DEF Poll
    <3> QED BY <1>a, <2>1, <3>1 DEF Current, row
  <2>3. CASE b = a /\ snap \notin Bad
    <3>1. applied'[a] = gen /\ disk'[a] = snap BY <1>0, <1>4, <2>3 DEF Poll
    <3> QED BY <1>0, <2>1, <3>1 DEF Current, row
  <2> QED BY <2>2, <2>3
<1>5. ASSUME NEW d \in Dialogs, Use(d) \/ Wait(d) \/ Fail(d) PROVE Current(a)'
      BY <1>1, <1>5
      DEF Use, Wait, Fail, Open, Deploy, Close, Preview, Answer, PreviewFails, LoseAnswer,
          Abort, WriteFails, agents
<1>6. ASSUME NEW d \in Dialogs, ReadFleet(d) \/ Render(d) \/ CheckLocals(d) \/ Update(d)
      PROVE  Current(a)'
      BY <1>1, <1>6 DEF ReadFleet, Render, CheckLocals, Update, agents
<1>7. ASSUME \/ \E c \in Configs : Edit(c)
             \/ \E h \in Locals : Join(h) \/ Leave(h)
      PROVE  Current(a)'
      BY <1>1, <1>7 DEF Edit, Join, Leave, agents
<1>8. CASE UNCHANGED vars BY <1>1, <1>8 DEF vars, agents
<1> QED BY <1>2, <1>3, <1>4, <1>5, <1>6, <1>7, <1>8 DEF Next, Handle

\* As long as no deploy ran into another, an agent whose badge is green runs
\* what the fleet was last deployed with.
THEOREM GreenIsCurrent == Spec => []GreenMeansCurrent
<1>1. Init => GreenMeansCurrent BY DEF Init, GreenMeansCurrent
<1> QED BY <1>1, GreenStep, TypeCorrect, PTL DEF Spec

-----------------------------------------------------------------------------
(* The files of local-mode hosts.                                           *)

\* One deploy at a time writes files; before that it has written none; what it
\* has written is its content, and it misses no member; every other member that
\* is not spoiled has the row's content.
OneWriter == \A d \in Dialogs, e \in Dialogs :
                 at[d] = "files" /\ at[e] = "files" => d = e
NoneYet == \A d \in Dialogs : at[d] \notin {"files"} \cup Answered => wrote[d] = {}
Wrote(d) == \A h \in wrote[d] : disk[h] = content[d]
Misses(d) == joined \subseteq todo[d] \cup wrote[d] \cup spoiled
Writing(d) == at[d] = "files" => Wrote(d) /\ Misses(d)
Placed(h) == h \in joined \ spoiled =>
                 \/ disk[h] = snap
                 \/ \E d \in Dialogs : at[d] = "files" /\ h \in wrote[d]
FilesInv == /\ OneWriter /\ NoneYet
            /\ \A d \in Dialogs : Writing(d)
            /\ \A h \in Locals : Placed(h)

\* Steps that touch neither files nor members, and leave the set of writers.
LEMMA FilesQuiet ==
    ASSUME TypeOK, FilesInv, UNCHANGED <<snap, joined, spoiled>>,
           \A h \in Locals : disk'[h] = disk[h],
           NEW d \in Dialogs, at[d] # "files", at'[d] # "files",
           wrote'[d] = {} \/ (at'[d] \in Answered),
           \A e \in Dialogs \ {d} : /\ at'[e] = at[e] /\ wrote'[e] = wrote[e]
                                   /\ content'[e] = content[e] /\ todo'[e] = todo[e]
    PROVE  FilesInv'
<1>0. wrote \in [Dialogs -> SUBSET Locals] BY DEF TypeOK
<1>1. OneWriter' BY DEF FilesInv, OneWriter
<1>2. NoneYet' BY DEF FilesInv, NoneYet
<1>3. ASSUME NEW e \in Dialogs PROVE Writing(e)'
  <2>1. CASE e = d BY <2>1 DEF Writing
  <2>2. CASE e # d BY <1>0, <2>2 DEF FilesInv, Writing, Wrote, Misses
  <2> QED BY <2>1, <2>2
<1>4. ASSUME NEW h \in Locals PROVE Placed(h)' BY <1>4 DEF FilesInv, Placed
<1> QED BY <1>1, <1>2, <1>3, <1>4 DEF FilesInv

LEMMA FilesSame ==
    ASSUME TypeOK, FilesInv, UNCHANGED <<snap, joined, spoiled, at, wrote, content, todo>>,
           \A h \in Locals : disk'[h] = disk[h]
    PROVE  FilesInv'
<1>0. wrote \in [Dialogs -> SUBSET Locals] BY DEF TypeOK
<1>1. OneWriter' /\ NoneYet' BY DEF FilesInv, OneWriter, NoneYet
<1>2. ASSUME NEW e \in Dialogs PROVE Writing(e)'
      BY <1>0 DEF FilesInv, Writing, Wrote, Misses
<1>3. ASSUME NEW h \in Locals PROVE Placed(h)' BY DEF FilesInv, Placed
<1> QED BY <1>1, <1>2, <1>3 DEF FilesInv

LEMMA FilesDialog ==
    ASSUME TypeOK, FilesInv, NEW d \in Dialogs, Use(d) \/ Wait(d) \/ PreviewFails(d) \/ LoseAnswer(d)
    PROVE  FilesInv'
<1>0. at \in [Dialogs -> Stations] /\ wrote \in [Dialogs -> SUBSET Locals]
      /\ content \in [Dialogs -> Maybe] BY DEF TypeOK
<1>1. ASSUME NEW s \in Stations, Goes(d, s), s # "files", at[d] # "files",
             wrote[d] = {} \/ s \in Answered,
             UNCHANGED <<row, joined, spoiled, disk, work>>
      PROVE  FilesInv'
  <2>1. at'[d] = s /\ \A e \in Dialogs \ {d} : at'[e] = at[e] BY <1>0, <1>1 DEF Goes
  <2> QED BY <1>1, <2>1, FilesQuiet DEF row, work
<1>2. ASSUME Use(d) \/ Preview(d) \/ PreviewFails(d) PROVE FilesInv'
  <2>1. wrote[d] = {}
        BY <1>2 DEF Use, Open, Deploy, Close, Preview, PreviewFails, FilesInv, NoneYet, Answered
  <2>2. {"closed", "preview", "open", "read"} \subseteq Stations BY DEF Stations, Working
  <2> QED BY <1>1, <1>2, <2>1, <2>2 DEF Use, Open, Deploy, Close, Preview, PreviewFails
<1>3. ASSUME LoseAnswer(d) PROVE FilesInv'
  <2>1. "failed" \in Stations /\ "failed" \in Answered /\ "files" \notin Answered
        BY DEF Stations, Answered
  <2> QED BY <1>1, <1>3, <2>1 DEF LoseAnswer
<1>4. ASSUME Answer(d) PROVE FilesInv'
  <2>1. at[d] # "files" BY <1>4 DEF Answer, Answered
  <2>2. at'[d] = "open" /\ \A e \in Dialogs \ {d} : at'[e] = at[e]
        BY <1>0, <1>4 DEF Answer, Goes
  <2>3. wrote'[d] = {} /\ \A e \in Dialogs \ {d} : /\ wrote'[e] = wrote[e]
                                                   /\ content'[e] = content[e]
        BY <1>0, <1>4 DEF Answer
  <2>4. UNCHANGED <<snap, joined, spoiled, disk, todo>> BY <1>4 DEF Answer, row
  <2> QED BY <2>1, <2>2, <2>3, <2>4, FilesQuiet
<1> QED BY <1>2, <1>3, <1>4 DEF Use, Wait

LEMMA FilesBefore ==
    ASSUME TypeOK, FilesInv, NEW d \in Dialogs, ReadFleet(d) \/ Render(d) \/ CheckLocals(d)
    PROVE  FilesInv'
<1>0. at \in [Dialogs -> Stations] /\ content \in [Dialogs -> Maybe] BY DEF TypeOK
<1>1. wrote[d] = {} /\ at[d] # "files"
      BY DEF ReadFleet, Render, CheckLocals, FilesInv, NoneYet, Answered
<1>2. \E s \in {"render", "refused", "check", "update", "failed"} : Goes(d, s)
      BY DEF ReadFleet, Render, CheckLocals
<1>3. at'[d] # "files" /\ \A e \in Dialogs \ {d} : at'[e] = at[e] BY <1>0, <1>2 DEF Goes
<1>4. UNCHANGED <<snap, joined, spoiled, disk, todo, wrote>>
      BY DEF ReadFleet, Render, CheckLocals, row, work
<1>5. \A e \in Dialogs \ {d} : content'[e] = content[e]
      BY <1>0 DEF ReadFleet, Render, CheckLocals, work
<1> QED BY <1>1, <1>3, <1>4, <1>5, FilesQuiet

LEMMA FilesUpdate == ASSUME TypeOK, FilesInv, NEW d \in Dialogs, Update(d) PROVE FilesInv'
<1>0. /\ at \in [Dialogs -> Stations] /\ todo \in [Dialogs -> SUBSET Locals]
      /\ wrote \in [Dialogs -> SUBSET Locals]
      /\ writing = {e \in Dialogs : at[e] = "files"}
      BY DEF TypeOK
<1>1. /\ at[d] = "update" /\ at'[d] = "files" /\ todo'[d] = joined
      /\ \A e \in Dialogs \ {d} : at'[e] = at[e] /\ todo'[e] = todo[e]
      BY <1>0 DEF Update, Goes
<1>2. \A e \in Dialogs : at[e] # "files" BY <1>0 DEF Update, RowFree
<1>3. UNCHANGED <<snap, joined, spoiled, disk, wrote, content>> BY DEF Update, row
<1>4. wrote[d] = {} BY <1>1 DEF FilesInv, NoneYet, Answered
<1>5. OneWriter' /\ NoneYet' BY <1>1, <1>2, <1>3 DEF FilesInv, OneWriter, NoneYet
<1>6. ASSUME NEW e \in Dialogs PROVE Writing(e)'
      BY <1>1, <1>2, <1>3, <1>4 DEF Writing, Wrote, Misses
<1>7. ASSUME NEW h \in Locals PROVE Placed(h)' BY <1>2, <1>3 DEF FilesInv, Placed
<1> QED BY <1>5, <1>6, <1>7 DEF FilesInv

LEMMA FilesWrite ==
    ASSUME TypeOK, FilesInv, NEW d \in Dialogs, NEW h \in Locals, WriteFile(d, h)
    PROVE  FilesInv'
<1>0. /\ todo \in [Dialogs -> SUBSET Locals] /\ wrote \in [Dialogs -> SUBSET Locals]
      /\ disk \in [Hosts -> Maybe] /\ Locals \subseteq Hosts
      BY DEF TypeOK, Hosts
<1>1. /\ at[d] = "files" /\ h \in todo[d] /\ disk'[h] = content[d]
      /\ todo'[d] = todo[d] \ {h} /\ wrote'[d] = wrote[d] \cup {h}
      /\ \A e \in Dialogs \ {d} : wrote'[e] = wrote[e]
      /\ \A g \in Locals \ {h} : disk'[g] = disk[g]
      BY <1>0 DEF WriteFile
<1>2. UNCHANGED <<snap, joined, spoiled, at, content>> BY DEF WriteFile, row
<1>3. \A e \in Dialogs : at[e] = "files" => e = d BY <1>1 DEF FilesInv, OneWriter
<1>4. OneWriter' /\ NoneYet' BY <1>1, <1>2, <1>3 DEF FilesInv, OneWriter, NoneYet
<1>5. ASSUME NEW e \in Dialogs, at[e] = "files" PROVE Wrote(e)' /\ Misses(e)'
  <2>1. e = d /\ Wrote(d) /\ Misses(d) BY <1>1, <1>3, <1>5 DEF FilesInv, Writing
  <2>2. Wrote(e)' BY <1>0, <1>1, <1>2, <2>1 DEF Wrote
  <2>3. Misses(e)' BY <1>1, <1>2, <2>1 DEF Misses
  <2> QED BY <2>2, <2>3
<1>6. ASSUME NEW g \in Locals PROVE Placed(g)'
  <2>1. CASE g = h BY <1>1, <1>2, <2>1 DEF Placed
  <2>2. CASE g # h
    <3>1. Placed(g) BY DEF FilesInv
    <3>2. \A e \in Dialogs : g \in wrote[e] => g \in wrote'[e] BY <1>1
    <3> QED BY <1>1, <1>2, <2>2, <3>1, <3>2 DEF Placed
  <2> QED BY <2>1, <2>2
<1> QED BY <1>2, <1>4, <1>5, <1>6 DEF FilesInv, Writing

LEMMA FilesWriteFails ==
    ASSUME TypeOK, FilesInv, NEW d \in Dialogs, NEW h \in Locals, WriteFails(d, h)
    PROVE  FilesInv'
<1>0. todo \in [Dialogs -> SUBSET Locals] BY DEF TypeOK
<1>1. /\ todo'[d] = todo[d] \ {h} /\ spoiled' = spoiled \cup {h}
      /\ \A e \in Dialogs \ {d} : todo'[e] = todo[e]
      BY <1>0 DEF WriteFails
<1>2. UNCHANGED <<snap, joined, disk, at, wrote, content>> BY DEF WriteFails, row, work
<1>3. OneWriter' /\ NoneYet' BY <1>2 DEF FilesInv, OneWriter, NoneYet
<1>4. ASSUME NEW e \in Dialogs PROVE Writing(e)'
      BY <1>1, <1>2 DEF FilesInv, Writing, Wrote, Misses
<1>5. ASSUME NEW g \in Locals PROVE Placed(g)' BY <1>1, <1>2 DEF FilesInv, Placed
<1> QED BY <1>3, <1>4, <1>5 DEF FilesInv

LEMMA FilesCommit == ASSUME TypeOK, FilesInv, NEW d \in Dialogs, Commit(d) PROVE FilesInv'
<1>0. at \in [Dialogs -> Stations] BY DEF TypeOK
<1>1. /\ at[d] = "files" /\ at'[d] = "done" /\ todo[d] = {}
      /\ \A e \in Dialogs \ {d} : at'[e] = at[e]
      BY <1>0 DEF Commit, Goes
<1>2. snap' = content[d] /\ spoiled' = spoiled \ wrote[d] BY DEF Commit
<1>3. UNCHANGED <<joined, disk, wrote, content, todo>> BY DEF Commit, work
<1>4. \A e \in Dialogs : at'[e] # "files" BY <1>1 DEF FilesInv, OneWriter
<1>5. Wrote(d) /\ Misses(d) BY <1>1 DEF FilesInv, Writing
<1>6. OneWriter' BY <1>4 DEF OneWriter
<1>7. NoneYet' BY <1>1, <1>3 DEF FilesInv, NoneYet, Answered
<1>8. ASSUME NEW h \in Locals PROVE Placed(h)'
      BY <1>1, <1>2, <1>3, <1>5 DEF Placed, Wrote, Misses
<1> QED BY <1>4, <1>6, <1>7, <1>8 DEF FilesInv, Writing

LEMMA FilesAbort == ASSUME TypeOK, FilesInv, NEW d \in Dialogs, Abort(d) PROVE FilesInv'
<1>0. at \in [Dialogs -> Stations] /\ todo \in [Dialogs -> SUBSET Locals] BY DEF TypeOK
<1>1. /\ at'[d] = "failed" /\ \A e \in Dialogs \ {d} : at'[e] = at[e] /\ todo'[e] = todo[e]
      BY <1>0 DEF Abort, Goes
<1>2. spoiled' = spoiled \cup wrote[d] BY DEF Abort
<1>3. UNCHANGED <<snap, joined, disk, wrote, content>> BY DEF Abort, row
<1>4. OneWriter' /\ NoneYet' BY <1>1, <1>3 DEF FilesInv, OneWriter, NoneYet, Answered
<1>5. ASSUME NEW e \in Dialogs PROVE Writing(e)'
      BY <1>1, <1>2, <1>3 DEF FilesInv, Writing, Wrote, Misses
<1>6. ASSUME NEW h \in Locals PROVE Placed(h)' BY <1>1, <1>2, <1>3 DEF FilesInv, Placed
<1> QED BY <1>4, <1>5, <1>6 DEF FilesInv

LEMMA FilesMoves ==
    ASSUME TypeOK, FilesInv, NEW h \in Locals, Join(h) \/ Leave(h) PROVE FilesInv'
<1>1. UNCHANGED <<snap, disk, at, wrote, content, todo>> BY DEF Join, Leave, row, work
<1>2. \/ joined' = joined \cup {h} /\ spoiled' = spoiled \cup {h}
      \/ joined' = joined \ {h} /\ spoiled' = spoiled
      BY DEF Join, Leave
<1>3. OneWriter' /\ NoneYet' BY <1>1 DEF FilesInv, OneWriter, NoneYet
<1>4. ASSUME NEW e \in Dialogs PROVE Writing(e)'
      BY <1>1, <1>2 DEF FilesInv, Writing, Wrote, Misses
<1>5. ASSUME NEW g \in Locals PROVE Placed(g)' BY <1>1, <1>2 DEF FilesInv, Placed
<1> QED BY <1>3, <1>4, <1>5 DEF FilesInv

LEMMA FilesStep == TypeOK /\ FilesInv /\ [Next]_vars => FilesInv'
<1> SUFFICES ASSUME TypeOK, FilesInv, [Next]_vars PROVE FilesInv' OBVIOUS
<1>1. CASE UNCHANGED vars BY <1>1, FilesSame DEF vars, row, work
<1>2. ASSUME NEW d \in Dialogs, Handle(d) \/ Use(d) \/ Wait(d) \/ Fail(d) PROVE FilesInv'
      BY <1>2, FilesDialog, FilesBefore, FilesUpdate, FilesWrite, FilesWriteFails,
         FilesCommit, FilesAbort
      DEF Handle, Fail
<1>3. ASSUME NEW c \in Configs, Edit(c) PROVE FilesInv'
      BY <1>3, FilesSame DEF Edit, row, work
<1>4. ASSUME NEW a \in Agents, Poll(a) PROVE FilesInv'
  <2>1. \A h \in Locals : h \in Hosts /\ h # a BY ConstantsAssumption DEF Hosts
  <2>2. \A h \in Locals : disk'[h] = disk[h] BY <1>4, <2>1 DEF Poll, TypeOK
  <2> QED BY <1>4, <2>2, FilesSame DEF Poll, row, work
<1> QED BY <1>1, <1>2, <1>3, <1>4, FilesMoves DEF Next

\* Whatever order overlapping deploys took, the files of local-mode members are
\* those of the deploy the row holds.
THEOREM FilesAreTheRows == Spec => []FilesFollow
<1>1. Init => FilesInv
      BY DEF Init, FilesInv, OneWriter, NoneYet, Writing, Placed
<1>2. TypeOK /\ FilesInv => FilesFollow
  <2> SUFFICES ASSUME TypeOK, FilesInv, writing = {}, NEW h \in joined \ spoiled
               PROVE  disk[h] = snap
      BY DEF FilesFollow
  <2>1. \A d \in Dialogs : at[d] # "files" BY DEF TypeOK
  <2> QED BY <2>1 DEF FilesInv, Placed, TypeOK
<1> QED BY <1>1, <1>2, FilesStep, TypeCorrect, PTL DEF Spec

-----------------------------------------------------------------------------
(* What reaches local-mode hosts.                                           *)

\* What a deploy carries depends on where it is: no blocking errors once it is
\* rendered; what `vector validate` rejects only if it could not be validated,
\* and then the members it is going to write are late ones.
Fresh(d) == at[d] \in {"closed", "preview", "open", "read", "render"} => d \notin unvalidated
Unblocked(d) == at[d] \in {"check", "update", "files"} => content[d] \notin Blocked
Flagged(d) == (at[d] \in {"check", "update", "files"} /\ content[d] \in Bad)
                  => d \in unvalidated
NoneToWrite(d) == (at[d] = "update" /\ d \in unvalidated) => joined \subseteq late
LateToWrite(d) == (at[d] = "files" /\ d \in unvalidated) => todo[d] \subseteq late
Gated(d) == Fresh(d) /\ Unblocked(d) /\ Flagged(d) /\ NoneToWrite(d) /\ LateToWrite(d)
GateInv == (\A d \in Dialogs : Gated(d)) /\ snap \notin Blocked /\ LocalsAreGated

\* Steps of one dialog that touch no host.
LEMMA GateQuiet ==
    ASSUME TypeOK, GateInv, UNCHANGED <<joined, disk, late>>, snap' \notin Blocked,
           NEW d \in Dialogs, Gated(d)',
           \A e \in Dialogs \ {d} : /\ at'[e] = at[e] /\ content'[e] = content[e]
                                   /\ todo'[e] = todo[e]
                                   /\ ((e \in unvalidated') <=> (e \in unvalidated))
    PROVE  GateInv'
<1>1. ASSUME NEW e \in Dialogs PROVE Gated(e)'
  <2>1. CASE e = d BY <2>1
  <2>2. CASE e # d
        BY <2>2 DEF GateInv, Gated, Fresh, Unblocked, Flagged, NoneToWrite, LateToWrite
  <2> QED BY <2>1, <2>2
<1>2. LocalsAreGated' BY DEF GateInv, LocalsAreGated
<1> QED BY <1>1, <1>2 DEF GateInv

LEMMA GateSame ==
    ASSUME TypeOK, GateInv, UNCHANGED <<snap, joined, disk, late, at, content, todo, unvalidated>>
    PROVE  GateInv'
BY DEF GateInv, Gated, Fresh, Unblocked, Flagged, NoneToWrite, LateToWrite, LocalsAreGated

LEMMA GateDialog ==
    ASSUME TypeOK, GateInv, NEW d \in Dialogs, Use(d) \/ Wait(d) \/ PreviewFails(d) \/ LoseAnswer(d)
    PROVE  GateInv'
<1>0. at \in [Dialogs -> Stations] /\ content \in [Dialogs -> Maybe] BY DEF TypeOK
<1>1. ASSUME NEW s, Goes(d, s), s \in {"closed", "preview", "open", "read"} => d \notin unvalidated,
             s \in {"closed", "preview", "open", "read", "failed"},
             UNCHANGED <<row, joined, disk, late, work>>
      PROVE  GateInv'
  <2>1. at'[d] = s /\ \A e \in Dialogs \ {d} : at'[e] = at[e] BY <1>0, <1>1 DEF Goes
  <2>2. UNCHANGED <<snap, content, todo, unvalidated>> BY <1>1 DEF row, work
  <2>3. Gated(d)'
        BY <1>1, <2>1, <2>2 DEF Gated, Fresh, Unblocked, Flagged, NoneToWrite, LateToWrite
  <2> QED BY <1>1, <2>1, <2>2, <2>3, GateQuiet DEF GateInv
<1>2. ASSUME Use(d) \/ Preview(d) \/ PreviewFails(d) PROVE GateInv'
  <2>1. d \notin unvalidated
        BY <1>2 DEF Use, Open, Deploy, Close, Preview, PreviewFails, GateInv, Gated, Fresh
  <2> QED BY <1>1, <1>2, <2>1 DEF Use, Open, Deploy, Close, Preview, PreviewFails
<1>3. ASSUME LoseAnswer(d) PROVE GateInv' BY <1>1, <1>3 DEF LoseAnswer
<1>4. ASSUME Answer(d) PROVE GateInv'
  <2>1. at'[d] = "open" /\ \A e \in Dialogs \ {d} : at'[e] = at[e]
        BY <1>0, <1>4 DEF Answer, Goes
  <2>2. unvalidated' = unvalidated \ {d} BY <1>4 DEF Answer
  <2>3. \A e \in Dialogs \ {d} : content'[e] = content[e] BY <1>0, <1>4 DEF Answer
  <2>4. UNCHANGED <<snap, joined, disk, late, todo>> BY <1>4 DEF Answer, row
  <2>5. Gated(d)'
        BY <2>1, <2>2 DEF Gated, Fresh, Unblocked, Flagged, NoneToWrite, LateToWrite
  <2> QED BY <2>1, <2>2, <2>3, <2>4, <2>5, GateQuiet DEF GateInv
<1> QED BY <1>2, <1>3, <1>4 DEF Use, Wait

LEMMA GateBefore ==
    ASSUME TypeOK, GateInv, NEW d \in Dialogs, ReadFleet(d) \/ CheckLocals(d)
    PROVE  GateInv'
<1>0. at \in [Dialogs -> Stations] /\ Gated(d) BY DEF TypeOK, GateInv
<1>1. UNCHANGED <<snap, joined, disk, late, content, todo, unvalidated>>
      BY DEF ReadFleet, CheckLocals, row, work
<1>2. \A e \in Dialogs \ {d} : at'[e] = at[e] BY <1>0 DEF ReadFleet, CheckLocals, Goes
<1>3. Gated(d)'
  <2>1. ASSUME ReadFleet(d) PROVE Gated(d)'
    <3>1. at'[d] = "render" /\ d \notin unvalidated
          BY <1>0, <2>1 DEF ReadFleet, Goes, Gated, Fresh
    <3> QED BY <1>1, <3>1 DEF Gated, Fresh, Unblocked, Flagged, NoneToWrite, LateToWrite
  <2>2. ASSUME CheckLocals(d) PROVE Gated(d)'
    <3>1. at[d] = "check" /\ at'[d] = IF joined = {} THEN "update" ELSE "failed"
          BY <1>0, <2>2 DEF CheckLocals, Goes, NoLocals
    <3>2. CASE joined = {}
      <4>1. at'[d] = "update" BY <3>1, <3>2
      <4>2. joined' \subseteq late' BY <1>1, <3>2
      <4>3. Unblocked(d)' BY <1>0, <1>1, <3>1 DEF Gated, Unblocked
      <4>4. Flagged(d)' BY <1>0, <1>1, <3>1 DEF Gated, Flagged
      <4> QED BY <4>1, <4>2, <4>3, <4>4 DEF Gated, Fresh, NoneToWrite, LateToWrite
    <3>3. CASE joined # {}
      <4>1. at'[d] = "failed" BY <3>1, <3>3
      <4> QED BY <4>1 DEF Gated, Fresh, Unblocked, Flagged, NoneToWrite, LateToWrite
    <3> QED BY <3>2, <3>3
  <2> QED BY <2>1, <2>2
<1> QED BY <1>1, <1>2, <1>3, GateQuiet DEF GateInv

LEMMA GateRender == ASSUME TypeOK, GateInv, NEW d \in Dialogs, Render(d) PROVE GateInv'
<1>0. /\ at \in [Dialogs -> Stations] /\ content \in [Dialogs -> Maybe]
      /\ d \notin unvalidated
      BY DEF TypeOK, GateInv, Gated, Fresh, Render
<1>1. content'[d] = draft /\ \A e \in Dialogs \ {d} : content'[e] = content[e]
      BY <1>0 DEF Render, TypeOK
<1>2. UNCHANGED <<snap, joined, disk, late, todo>> BY DEF Render, row
<1>3. /\ unvalidated' \in {unvalidated, unvalidated \cup {d}}
      /\ \A e \in Dialogs \ {d} : at'[e] = at[e]
      BY <1>0 DEF Render, Goes
<1>4. \/ at'[d] = "refused"
      \/ at'[d] = "check" /\ draft \notin Blocked /\ d \in unvalidated'
      \/ at'[d] = "update" /\ draft \notin Blocked \cup Bad /\ unvalidated' = unvalidated
  <2>1. CASE draft \in Blocked BY <1>0, <2>1 DEF Render, Goes
  <2>2. CASE draft \notin Blocked
        BY <1>0, <2>2 DEF Render, Goes, Verdicts
  <2> QED BY <2>1, <2>2
<1>5. Gated(d)'
      BY <1>0, <1>1, <1>4 DEF Gated, Fresh, Unblocked, Flagged, NoneToWrite, LateToWrite
<1>6. \A e \in Dialogs \ {d} : (e \in unvalidated') <=> (e \in unvalidated) BY <1>3
<1> QED BY <1>1, <1>2, <1>3, <1>5, <1>6, GateQuiet DEF GateInv

LEMMA GateUpdate == ASSUME TypeOK, GateInv, NEW d \in Dialogs, Update(d) PROVE GateInv'
<1>0. /\ at \in [Dialogs -> Stations] /\ todo \in [Dialogs -> SUBSET Locals] /\ Gated(d)
      BY DEF TypeOK, GateInv
<1>1. /\ at[d] = "update" /\ at'[d] = "files" /\ todo'[d] = joined
      /\ \A e \in Dialogs \ {d} : at'[e] = at[e] /\ todo'[e] = todo[e]
      BY <1>0 DEF Update, Goes
<1>2. UNCHANGED <<snap, joined, disk, late, content, unvalidated>> BY DEF Update, row
<1>3. Gated(d)'
      BY <1>0, <1>1, <1>2 DEF Gated, Fresh, Unblocked, Flagged, NoneToWrite, LateToWrite
<1> QED BY <1>1, <1>2, <1>3, GateQuiet DEF GateInv

LEMMA GateWrite ==
    ASSUME TypeOK, GateInv, NEW d \in Dialogs, NEW h \in Locals, WriteFile(d, h)
    PROVE  GateInv'
<1>0. /\ todo \in [Dialogs -> SUBSET Locals] /\ disk \in [Hosts -> Maybe]
      /\ Locals \subseteq Hosts /\ Gated(d)
      BY DEF TypeOK, Hosts, GateInv
<1>1. /\ at[d] = "files" /\ h \in todo[d] /\ disk'[h] = content[d]
      /\ todo'[d] = todo[d] \ {h} /\ \A e \in Dialogs \ {d} : todo'[e] = todo[e]
      /\ \A g \in Hosts \ {h} : disk'[g] = disk[g]
      BY <1>0 DEF WriteFile
<1>2. UNCHANGED <<snap, joined, late, at, content, unvalidated>> BY DEF WriteFile, row
<1>3. content[d] \notin Blocked /\ (content[d] \in Bad => h \in late)
      BY <1>0, <1>1 DEF Gated, Unblocked, Flagged, LateToWrite
<1>4. LocalsAreGated' BY <1>0, <1>1, <1>2, <1>3 DEF GateInv, LocalsAreGated
<1>5. ASSUME NEW e \in Dialogs PROVE Gated(e)'
  <2>1. Gated(e) /\ todo'[e] \subseteq todo[e] BY <1>1 DEF GateInv
  <2> QED BY <1>2, <2>1 DEF Gated, Fresh, Unblocked, Flagged, NoneToWrite, LateToWrite
<1> QED BY <1>2, <1>4, <1>5 DEF GateInv

LEMMA GateWriteFails ==
    ASSUME TypeOK, GateInv, NEW d \in Dialogs, NEW h \in Locals, WriteFails(d, h)
    PROVE  GateInv'
<1>1. \A e \in Dialogs : todo'[e] \subseteq todo[e] BY DEF TypeOK, WriteFails
<1>2. UNCHANGED <<snap, joined, disk, late, at, content, unvalidated>>
      BY DEF WriteFails, row, work
<1>3. ASSUME NEW e \in Dialogs PROVE Gated(e)'
      BY <1>1, <1>2 DEF GateInv, Gated, Fresh, Unblocked, Flagged, NoneToWrite, LateToWrite
<1>4. LocalsAreGated' BY <1>2 DEF GateInv, LocalsAreGated
<1> QED BY <1>2, <1>3, <1>4 DEF GateInv

LEMMA GateCommit == ASSUME TypeOK, GateInv, NEW d \in Dialogs, Commit(d) PROVE GateInv'
<1>0. at \in [Dialogs -> Stations] /\ Gated(d) BY DEF TypeOK, GateInv
<1>1. at[d] = "files" /\ at'[d] = "done" /\ \A e \in Dialogs \ {d} : at'[e] = at[e]
      BY <1>0 DEF Commit, Goes
<1>2. UNCHANGED <<joined, disk, late, content, todo, unvalidated>> BY DEF Commit, work
<1>3. snap' \notin Blocked BY <1>0, <1>1 DEF Commit, Gated, Unblocked
<1>4. Gated(d)'
      BY <1>1 DEF Gated, Fresh, Unblocked, Flagged, NoneToWrite, LateToWrite
<1> QED BY <1>1, <1>2, <1>3, <1>4, GateQuiet

LEMMA GateAbort == ASSUME TypeOK, GateInv, NEW d \in Dialogs, Abort(d) PROVE GateInv'
<1>0. at \in [Dialogs -> Stations] /\ todo \in [Dialogs -> SUBSET Locals] BY DEF TypeOK
<1>1. at'[d] = "failed" /\ \A e \in Dialogs \ {d} : at'[e] = at[e] /\ todo'[e] = todo[e]
      BY <1>0 DEF Abort, Goes
<1>2. UNCHANGED <<snap, joined, disk, late, content, unvalidated>> BY DEF Abort, row
<1>3. Gated(d)'
      BY <1>1 DEF Gated, Fresh, Unblocked, Flagged, NoneToWrite, LateToWrite
<1> QED BY <1>1, <1>2, <1>3, GateQuiet DEF GateInv

LEMMA GateMoves ==
    ASSUME TypeOK, GateInv, NEW h \in Locals, Join(h) \/ Leave(h) PROVE GateInv'
<1>1. UNCHANGED <<snap, disk, at, content, todo, unvalidated>> BY DEF Join, Leave, row, work
<1>2. late \subseteq late' BY DEF Join, Leave
<1>3. ASSUME NEW d \in Dialogs PROVE Gated(d)'
  <2>1. Gated(d) BY DEF GateInv
  <2>2. NoneToWrite(d)'
    <3>1. CASE Join(h) BY <1>1, <2>1, <3>1 DEF Join, Gated, NoneToWrite
    <3>2. CASE Leave(h) BY <1>1, <2>1, <3>2 DEF Leave, Gated, NoneToWrite
    <3> QED BY <3>1, <3>2
  <2> QED BY <1>1, <1>2, <2>1, <2>2 DEF Gated, Fresh, Unblocked, Flagged, LateToWrite
<1>4. LocalsAreGated' BY <1>1, <1>2 DEF GateInv, LocalsAreGated
<1> QED BY <1>1, <1>3, <1>4 DEF GateInv

LEMMA GatePoll == ASSUME TypeOK, GateInv, NEW a \in Agents, Poll(a) PROVE GateInv'
<1>1. UNCHANGED <<snap, joined, late, at, content, todo, unvalidated>> BY DEF Poll, row, work
<1>2. ASSUME NEW d \in Dialogs PROVE Gated(d)'
      BY <1>1 DEF GateInv, Gated, Fresh, Unblocked, Flagged, NoneToWrite, LateToWrite
<1>3. a \notin Locals BY ConstantsAssumption
<1>4. \A g \in Hosts : disk'[g] = disk[g] \/ (g = a /\ disk'[g] = snap)
      BY DEF Poll, TypeOK
<1>5. LocalsAreGated' BY <1>1, <1>3, <1>4 DEF GateInv, LocalsAreGated, Hosts
<1> QED BY <1>1, <1>2, <1>5 DEF GateInv

LEMMA GateStep == TypeOK /\ GateInv /\ [Next]_vars => GateInv'
<1> SUFFICES ASSUME TypeOK, GateInv, [Next]_vars PROVE GateInv' OBVIOUS
<1>1. CASE UNCHANGED vars BY <1>1, GateSame DEF vars, row, work
<1>2. ASSUME NEW d \in Dialogs, Handle(d) \/ Use(d) \/ Wait(d) \/ Fail(d) PROVE GateInv'
      BY <1>2, GateDialog, GateBefore, GateRender, GateUpdate, GateWrite, GateWriteFails,
         GateCommit, GateAbort
      DEF Handle, Fail
<1>3. ASSUME NEW c \in Configs, Edit(c) PROVE GateInv'
      BY <1>3, GateSame DEF Edit, row, work
<1> QED BY <1>1, <1>2, <1>3, GateMoves, GatePoll DEF Next

\* What has blocking errors reaches nobody; what nobody could validate and
\* `vector validate` would reject reaches a local-mode host only if it joined
\* between the check for such hosts and the write.
THEOREM LocalsGetCheckedFiles == Spec => []LocalsAreGated
<1>1. Init => GateInv
      BY ConstantsAssumption
      DEF Init, GateInv, Gated, Fresh, Unblocked, Flagged, NoneToWrite, LateToWrite,
          LocalsAreGated, Hosts
<1>2. GateInv => LocalsAreGated BY DEF GateInv
<1> QED BY <1>1, <1>2, GateStep, TypeCorrect, PTL DEF Spec

-----------------------------------------------------------------------------
(* Deploys one after the other.                                              *)

\* No two deploys are under way.
OneAtATime == \A d \in Dialogs, e \in Dialogs : at[d] \in Working /\ at[e] \in Working => d = e

\* A deploy works on the generation the row has.
UpToDate == \A d \in Dialogs : at[d] \in Working \ {"read"} => base[d] = gen
SerialInv == UpToDate /\ ~muddled

\* What a step does to the generation and to the deploys: it commits one, or it
\* changes neither the generation nor what a deploy has read of it - but that one
\* starts, reads the row or ends.
Serial == /\ UNCHANGED <<gen, muddled>>
          /\ \A d \in Dialogs : at'[d] \in Working \ {"read"} =>
                \/ at[d] \in Working \ {"read"} /\ base'[d] = base[d]
                \/ base'[d] = gen

LEMMA SerialSteps ==
    ASSUME TypeOK, [Next]_vars
    PROVE  Serial \/ \E d \in Dialogs : Commit(d)
<1>0. at \in [Dialogs -> Stations] /\ base \in [Dialogs -> Nat] BY DEF TypeOK
<1> USE DEF Serial, Working, Goes
<1>1. CASE UNCHANGED vars BY <1>1 DEF vars, row, work
<1>2. ASSUME NEW d \in Dialogs, Use(d) \/ Wait(d) PROVE Serial
      BY <1>0, <1>2
      DEF Use, Wait, Open, Deploy, Close, Preview, Answer, row, work, Answered
<1>3. ASSUME NEW d \in Dialogs, Fail(d) PROVE Serial
  <2>1. CASE PreviewFails(d) \/ LoseAnswer(d) \/ Abort(d)
        BY <1>0, <2>1 DEF PreviewFails, LoseAnswer, Abort, row, work
  <2>2. ASSUME NEW h \in Locals, WriteFails(d, h) PROVE Serial
        BY <1>0, <2>2 DEF WriteFails, row
  <2> QED BY <1>3, <2>1, <2>2 DEF Fail
<1>4. ASSUME NEW d \in Dialogs, Handle(d), ~Commit(d) PROVE Serial
  <2>1. CASE ReadFleet(d) BY <1>0, <2>1 DEF ReadFleet, row
  <2>2. CASE Render(d)
    <3>1. /\ UNCHANGED <<gen, muddled, base>> /\ at[d] = "render"
          /\ \A e \in Dialogs : e # d => at'[e] = at[e]
          BY <1>0, <2>2 DEF Render, row
    <3> QED BY <3>1
  <2>3. CASE CheckLocals(d) \/ Update(d)
    <3>1. /\ UNCHANGED <<gen, muddled, base>> /\ at[d] \in {"check", "update"}
          /\ \A e \in Dialogs : e # d => at'[e] = at[e]
          BY <1>0, <2>3 DEF CheckLocals, Update, row, work
    <3> QED BY <3>1
  <2>4. ASSUME NEW h \in Locals, WriteFile(d, h) PROVE Serial
        BY <1>0, <2>4 DEF WriteFile, row
  <2> QED BY <1>4, <2>1, <2>2, <2>3, <2>4 DEF Handle
<1>5. ASSUME \/ \E c \in Configs : Edit(c)
             \/ \E h \in Locals : Join(h) \/ Leave(h)
             \/ \E a \in Agents : Poll(a)
      PROVE  Serial
      BY <1>5 DEF Edit, Join, Leave, Poll, row, work
<1> QED BY <1>1, <1>2, <1>3, <1>4, <1>5 DEF Next

LEMMA SerialStep == TypeOK /\ OneAtATime /\ SerialInv /\ [Next]_vars => SerialInv'
<1> SUFFICES ASSUME TypeOK, OneAtATime, SerialInv, [Next]_vars PROVE SerialInv'
    OBVIOUS
<1>1. CASE Serial BY <1>1 DEF Serial, SerialInv, UpToDate
<1>2. ASSUME NEW d \in Dialogs, Commit(d) PROVE SerialInv'
  <2>1. at \in [Dialogs -> Stations] BY DEF TypeOK
  <2>2. at[d] \in Working \ {"read"} BY <1>2 DEF Commit, Working
  <2>3. ~muddled' BY <1>2, <2>2 DEF Commit, SerialInv, UpToDate
  <2>4. ASSUME NEW e \in Dialogs PROVE at'[e] \notin Working
    <3>1. e # d => at'[e] = at[e] /\ at[e] \notin Working
          BY <1>2, <2>1, <2>2 DEF Commit, Goes, OneAtATime
    <3>2. e = d => at'[e] = "done" BY <1>2, <2>1 DEF Commit, Goes
    <3> QED BY <3>1, <3>2 DEF Working
  <2> QED BY <2>3, <2>4 DEF SerialInv, UpToDate
<1> QED BY <1>1, <1>2, SerialSteps

LEMMA SerialHolds == Spec /\ []OneAtATime => []SerialInv
<1>1. Init => SerialInv BY DEF Init, SerialInv, UpToDate, Working
<1> QED BY <1>1, SerialStep, TypeCorrect, PTL DEF Spec

\* Only a commit ends a deploy with success.
LEMMA EndsByCommit ==
    ASSUME TypeOK, Next, NEW d \in Dialogs, at[d] = "files", at'[d] = "done"
    PROVE  Commit(d)
<1>0. at \in [Dialogs -> Stations] BY DEF TypeOK
<1>1. ASSUME NEW e \in Dialogs, NEW s, Goes(e, s) PROVE e = d /\ s = "done"
      BY <1>0, <1>1 DEF Goes
<1>2. ASSUME UNCHANGED at PROVE FALSE BY <1>2
<1>3. ASSUME NEW e \in Dialogs, Use(e) \/ Wait(e) PROVE FALSE
      BY <1>1, <1>3 DEF Use, Wait, Open, Deploy, Close, Preview, Answer
<1>4. ASSUME NEW e \in Dialogs, Fail(e) PROVE FALSE
      BY <1>1, <1>2, <1>4 DEF Fail, PreviewFails, LoseAnswer, Abort, WriteFails
<1>5. ASSUME NEW e \in Dialogs, Handle(e) PROVE Commit(d)
  <2>1. CASE ReadFleet(e) BY <1>1, <2>1 DEF ReadFleet
  <2>2. CASE Render(e)
    <3>1. PICK s \in {"refused", "update", "check"} : Goes(e, s)
          BY <2>2 DEF Render
    <3> QED BY <1>1, <3>1
  <2>3. CASE CheckLocals(e) BY <1>1, <2>3 DEF CheckLocals
  <2>4. CASE Update(e) BY <1>1, <2>4 DEF Update
  <2>5. ASSUME NEW h \in Locals, WriteFile(e, h) PROVE FALSE
        BY <1>2, <2>5 DEF WriteFile
  <2>6. CASE Commit(e)
    <3>1. Goes(e, "done") BY <2>6 DEF Commit
    <3>2. e = d BY <1>1, <3>1
    <3> QED BY <2>6, <3>2
  <2> QED BY <1>5, <2>1, <2>2, <2>3, <2>4, <2>5, <2>6 DEF Handle
<1>6. ASSUME \/ \E c \in Configs : Edit(c)
             \/ \E h \in Locals : Join(h) \/ Leave(h)
             \/ \E a \in Agents : Poll(a)
      PROVE  FALSE
      BY <1>2, <1>6 DEF Edit, Join, Leave, Poll
<1> QED BY <1>3, <1>4, <1>5, <1>6 DEF Next

\* What the documentation says of a deploy holds when deploys do not overlap: every
\* one advances the fleet's generation counter - by one, from the value the row had.
\* The run generation_reused shows that the condition cannot be dropped.
THEOREM SerialDeploysAdvance == Spec /\ []OneAtATime => DeployAdvances
<1>1. SerialInv /\ TypeOK /\ [Next]_vars
      => [\A d \in Dialogs : at[d] = "files" /\ at'[d] = "done" => gen' > gen]_vars
  <2> SUFFICES ASSUME SerialInv, TypeOK, Next, NEW d \in Dialogs,
                      at[d] = "files", at'[d] = "done"
               PROVE  gen' > gen
      OBVIOUS
  <2>1. Commit(d) BY EndsByCommit
  <2>2. gen' = gen + 1 /\ gen \in Nat
        BY <2>1 DEF Commit, NewGeneration, SerialInv, UpToDate, Working, TypeOK
  <2> QED BY <2>2
<1> QED BY <1>1, SerialHolds, TypeCorrect, PTL DEF Spec, DeployAdvances

\* And then a green badge always means the current configuration (RolloutBadge).
THEOREM SerialGreenIsCurrent == Spec /\ []OneAtATime => [](\A a \in Agents : Current(a))
<1>1. GreenMeansCurrent /\ SerialInv => \A a \in Agents : Current(a)
      BY DEF GreenMeansCurrent, SerialInv, Current
<1> QED BY <1>1, GreenIsCurrent, SerialHolds, PTL

-----------------------------------------------------------------------------
(* What AgentsFollow and DeploysEnd count on.                               *)

\* An agent runs the content of its last answer unless it rejects it.
AnswerIsRun == \A a \in Agents : seen[a] \in Configs \ Bad => disk[a] = seen[a]

LEMMA AnswerStep == TypeOK /\ AnswerIsRun /\ [Next]_vars => AnswerIsRun'
<1> SUFFICES ASSUME TypeOK, AnswerIsRun, [Next]_vars, NEW a \in Agents,
                    seen'[a] \in Configs \ Bad
             PROVE  disk'[a] = seen'[a]
    BY DEF AnswerIsRun
<1>0. seen \in [Agents -> Maybe] /\ disk \in [Hosts -> Maybe] /\ a \in Hosts /\ a \notin Locals
      BY ConstantsAssumption DEF TypeOK, Hosts
<1>1. ASSUME UNCHANGED <<seen, disk>> PROVE disk'[a] = seen'[a]
      BY <1>1 DEF AnswerIsRun
<1>2. ASSUME NEW d \in Dialogs, NEW h \in Locals, WriteFile(d, h) PROVE disk'[a] = seen'[a]
  <2>1. disk'[a] = disk[a] /\ UNCHANGED seen BY <1>0, <1>2 DEF WriteFile, agents
  <2> QED BY <2>1 DEF AnswerIsRun
<1>3. ASSUME NEW b \in Agents, Poll(b) PROVE disk'[a] = seen'[a]
  <2>1. CASE b = a BY <1>0, <1>3, <2>1 DEF Poll
  <2>2. CASE b # a
    <3>1. seen'[a] = seen[a] /\ disk'[a] = disk[a] BY <1>0, <1>3, <2>2 DEF Poll
    <3> QED BY <3>1 DEF AnswerIsRun
  <2> QED BY <2>1, <2>2
<1>4. ASSUME NEW d \in Dialogs,
             Use(d) \/ Wait(d) \/ Fail(d) \/ ReadFleet(d) \/ Render(d) \/ CheckLocals(d)
             \/ Update(d) \/ Commit(d)
      PROVE  UNCHANGED <<seen, disk>>
      BY <1>4
      DEF Use, Wait, Fail, Open, Deploy, Close, Preview, Answer, PreviewFails, LoseAnswer,
          Abort, WriteFails, ReadFleet, Render, CheckLocals, Update, Commit, agents
<1>5. ASSUME \/ \E c \in Configs : Edit(c)
             \/ \E h \in Locals : Join(h) \/ Leave(h)
             \/ UNCHANGED vars
      PROVE  UNCHANGED <<seen, disk>>
      BY <1>5 DEF Edit, Join, Leave, vars, agents
<1> QED BY <1>1, <1>2, <1>3, <1>4, <1>5 DEF Next, Handle

\* An agent that gets no new answer any more - its ETag is that of the row - runs
\* what the row holds or has rejected it, whatever generation was published with it.
THEOREM SettledAgentsFollow ==
    Spec => [](\A a \in Agents : seen[a] = snap /\ snap \in Configs \ Bad => disk[a] = snap)
<1>1. Init => AnswerIsRun
  <2>1. ASSUME Init, NEW a \in Agents PROVE seen[a] \notin Configs
        BY <2>1, ConstantsAssumption DEF Init
  <2> QED BY <2>1 DEF AnswerIsRun
<1>2. AnswerIsRun => \A a \in Agents : seen[a] = snap /\ snap \in Configs \ Bad => disk[a] = snap
      BY DEF AnswerIsRun
<1> QED BY <1>1, <1>2, AnswerStep, TypeCorrect, PTL DEF Spec

\* How far a deploy is from its end.
Distance == [read |-> 5, render |-> 4, check |-> 3, update |-> 2, files |-> 1]

\* A deploy that goes on has come closer to its end, or has fewer files to write, or
\* has done nothing.
ComesCloser(d) ==
    at[d] \in Working /\ at'[d] \in Working =>
        \/ Distance[at'[d]] < Distance[at[d]]
        \/ at'[d] = at[d] /\ todo'[d] \subseteq todo[d]

LEMMA DistanceStep == TypeOK /\ [Next]_vars => [\A d \in Dialogs : ComesCloser(d)]_vars
<1> SUFFICES ASSUME TypeOK, Next, NEW d \in Dialogs, at[d] \in Working, at'[d] \in Working
             PROVE  \/ Distance[at'[d]] < Distance[at[d]]
                    \/ at'[d] = at[d] /\ todo'[d] \subseteq todo[d]
    BY DEF ComesCloser
<1> DEFINE Closer == Distance[at'[d]] < Distance[at[d]]
           Same == at'[d] = at[d] /\ todo'[d] \subseteq todo[d]
<1>0. at \in [Dialogs -> Stations] /\ todo \in [Dialogs -> SUBSET Locals] BY DEF TypeOK
<1>1. /\ Distance["read"] = 5 /\ Distance["render"] = 4 /\ Distance["check"] = 3
      /\ Distance["update"] = 2 /\ Distance["files"] = 1
      BY DEF Distance
<1> HIDE DEF Closer, Same
<1>2. ASSUME UNCHANGED <<at, todo>> PROVE Same BY <1>2 DEF Same
<1>3. ASSUME NEW e \in Dialogs, e # d, NEW s, Goes(e, s),
             UNCHANGED todo \/ \E x : todo' = [todo EXCEPT ![e] = x]
      PROVE  Same
      BY <1>0, <1>3 DEF Goes, Same
<1>4. ASSUME NEW e \in Dialogs, Use(e) \/ Wait(e) PROVE Same
  <2>1. e # d
        BY <1>4 DEF Use, Wait, Open, Deploy, Close, Preview, Answer, Working, Answered
  <2> QED BY <1>3, <1>4, <2>1 DEF Use, Wait, Open, Deploy, Close, Preview, Answer, work
<1>5. ASSUME NEW e \in Dialogs, PreviewFails(e) \/ LoseAnswer(e) \/ Abort(e) PROVE Same
  <2>1. e # d
        BY <1>0, <1>5 DEF PreviewFails, LoseAnswer, Abort, Goes, Working, Answered
  <2> QED BY <1>3, <1>5, <2>1 DEF PreviewFails, LoseAnswer, Abort, work
<1>6. ASSUME NEW e \in Dialogs, NEW h \in Locals, WriteFile(e, h) \/ WriteFails(e, h)
      PROVE  Same
  <2>1. at' = at /\ todo' = [todo EXCEPT ![e] = todo[e] \ {h}]
        BY <1>6 DEF WriteFile, WriteFails
  <2> QED BY <1>0, <2>1 DEF Same
<1>7. ASSUME NEW e \in Dialogs, ReadFleet(e) PROVE Same \/ Closer
  <2>1. at[e] = "read" /\ Goes(e, "render") /\ UNCHANGED todo BY <1>7 DEF ReadFleet
  <2>2. CASE e = d
    <3>1. at'[d] = "render" BY <1>0, <2>1, <2>2 DEF Goes
    <3> QED BY <1>1, <2>1, <2>2, <3>1 DEF Closer
  <2> QED BY <1>3, <2>1, <2>2
<1>8. ASSUME NEW e \in Dialogs, Render(e) PROVE Same \/ Closer
  <2>1. at[e] = "render" /\ UNCHANGED todo BY <1>8 DEF Render
  <2>2. PICK s \in {"refused", "update", "check"} : Goes(e, s) BY <1>8 DEF Render
  <2>3. CASE e = d
    <3>1. at'[d] \in {"update", "check"} BY <1>0, <2>2, <2>3 DEF Goes, Working
    <3> QED BY <1>1, <2>1, <2>3, <3>1 DEF Closer
  <2> QED BY <1>3, <2>1, <2>2, <2>3
<1>9. ASSUME NEW e \in Dialogs, CheckLocals(e) PROVE Same \/ Closer
  <2>1. at[e] = "check" /\ UNCHANGED todo BY <1>9 DEF CheckLocals, work
  <2>2. PICK s \in {"update", "failed"} : Goes(e, s) BY <1>9 DEF CheckLocals
  <2>3. CASE e = d
    <3>1. at'[d] = "update" BY <1>0, <2>2, <2>3 DEF Goes, Working
    <3> QED BY <1>1, <2>1, <2>3, <3>1 DEF Closer
  <2> QED BY <1>3, <2>1, <2>2, <2>3
<1>10. ASSUME NEW e \in Dialogs, Update(e) PROVE Same \/ Closer
  <2>1. at[e] = "update" /\ Goes(e, "files") /\ todo' = [todo EXCEPT ![e] = joined]
        BY <1>10 DEF Update
  <2>2. CASE e = d
    <3>1. at'[d] = "files" BY <1>0, <2>1, <2>2 DEF Goes
    <3> QED BY <1>1, <2>1, <2>2, <3>1 DEF Closer
  <2> QED BY <1>3, <2>1, <2>2
<1>11. ASSUME NEW e \in Dialogs, Commit(e) PROVE Same
  <2>1. Goes(e, "done") /\ UNCHANGED todo BY <1>11 DEF Commit, work
  <2>2. e # d BY <1>0, <2>1 DEF Goes, Working
  <2> QED BY <1>3, <2>1, <2>2
<1>12. ASSUME \/ \E c \in Configs : Edit(c)
              \/ \E h \in Locals : Join(h) \/ Leave(h)
              \/ \E a \in Agents : Poll(a)
       PROVE  Same
  <2>1. UNCHANGED <<at, todo>> BY <1>12 DEF Edit, Join, Leave, Poll, work
  <2> QED BY <1>2, <2>1
<1>13. Same \/ Closer
       BY <1>4, <1>5, <1>6, <1>7, <1>8, <1>9, <1>10, <1>11, <1>12 DEF Next, Handle, Fail
<1> QED BY <1>13 DEF Same, Closer

\* A deploy never goes back: as long as it lasts each of its steps brings it closer
\* to the answer, so that it takes at most four steps and a file per member (and a
\* wait for a row that somebody else holds, who comes closer to the end as well).
THEOREM DeploysComeCloser == Spec => [][\A d \in Dialogs : ComesCloser(d)]_vars
BY DistanceStep, TypeCorrect, PTL DEF Spec
=============================================================================
