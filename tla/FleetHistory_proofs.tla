-------------------------- MODULE FleetHistory_proofs --------------------------
(***************************************************************************)
(* What a host holds, and what it is reported to hold, is traced back to   *)
(* the deploys: FleetSync implements Rollout, and a report never claims    *)
(* more than the host has.                                                 *)
(***************************************************************************)
EXTENDS FleetSync_proofs

\* A fleet's row is the last entry of its history, and nothing blocked is in it.
HistoryOK ==
    \A f \in Fleets :
        /\ Len(published[f]) = fleet[f].gen
        /\ fleet[f].gen > 0 => fleet[f].snap = published[f][fleet[f].gen]
        /\ fleet[f].gen = 0 => fleet[f].snap = None
        /\ \A i \in 1 .. Len(published[f]) : published[f][i] \notin Blocked

\* The answer an agent works on is an entry of its fleet's history, and no
\* older than the file on disk when that came from the same fleet.
AnswerOK ==
    \A a \in Agents : res[a] # None =>
        /\ res[a].gen \in 1 .. Len(published[res[a].fleet])
        /\ res[a].cfg = published[res[a].fleet][res[a].gen]
        /\ origin[a].fleet = res[a].fleet => origin[a].gen =< res[a].gen

\* A host without a file has no origin.
NothingYet ==
    \A a \in Agents : host[a].disk = None => origin[a] = [fleet |-> None, gen |-> 0]

HistoryInv == HistoryOK /\ AnswerOK /\ NothingYet /\ DiskIsPublished

\* A step that deploys nothing, answers no poll and swaps no file.
Quiet ==
    /\ UNCHANGED <<published, origin>>
    /\ \A f \in Fleets : fleet'[f].gen = fleet[f].gen /\ fleet'[f].snap = fleet[f].snap
    /\ \A a \in Agents : host'[a].disk = host[a].disk /\ res'[a] \in {res[a], None}

LEMMA OperatorQuiet ==
    ASSUME TypeOK, OperatorStep
    PROVE  Quiet \/ \E f \in Fleets : Deploy(f)
<1>1. ASSUME NEW f \in Fleets, NEW v \in MaybeVersion, PinVersion(f, v) PROVE Quiet
  <2>1. fleet' = [fleet EXCEPT ![f] = [fleet[f] EXCEPT !.pin = v]]
    BY <1>1 DEF PinVersion
  <2>2. \A g \in Fleets : fleet'[g].gen = fleet[g].gen /\ fleet'[g].snap = fleet[g].snap
    <3> TAKE g \in Fleets
    <3>1. fleet[g] \in FleetRow /\ fleet \in [Fleets -> FleetRow]
      BY DEF TypeOK
    <3> QED
      BY <2>1, <3>1 DEF FleetRow
  <2> QED
    BY <1>1, <2>2 DEF PinVersion, Operate, Quiet
<1>2. ASSUME RotateKey PROVE Quiet
  <2>1. \A g \in Fleets : fleet'[g].gen = fleet[g].gen /\ fleet'[g].snap = fleet[g].snap
    <3> TAKE g \in Fleets
    <3>1. fleet[g] \in FleetRow
      BY DEF TypeOK
    <3> QED
      BY <1>2, <3>1 DEF FleetRow, RotateKey
  <2> QED
    BY <1>2, <2>1 DEF RotateKey, Operate, Quiet
<1>3. ASSUME \/ \E f \in Fleets, c \in Configs : Edit(f, c)
             \/ \E f \in Fleets, a \in Agents : Join(a, f)
             \/ \E v \in MaybeVersion : SetGlobalVersion(v)
             \/ \E a \in Agents : Leave(a)
             \/ \E a \in Agents, g \in Globals : SetGlobals(a, g)
      PROVE  Quiet
  BY <1>3 DEF Edit, Join, SetGlobalVersion, Leave, SetGlobals, Operate, Quiet
<1> QED
  BY <1>1, <1>2, <1>3 DEF OperatorStep

\* A host's file only changes in a swap.
LEMMA HostQuiet ==
    ASSUME TypeOK, NEW a \in Agents, NEW h \in HostState,
           host' = [host EXCEPT ![a] = h], h.disk = host[a].disk
    PROVE  \A b \in Agents : host'[b].disk = host[b].disk
BY DEF TypeOK

LEMMA InstallQuiet ==
    ASSUME TypeOK, NEW a \in Agents, NEW r \in Content \cup {None}, InstallThen(a, r)
    PROVE  Quiet
<1>1. host[a] \in HostState /\ mem[a] \in AgentMem
  BY DEF TypeOK
<1> DEFINE h == [host[a] EXCEPT !.installed = mem[a].desired, !.running = r]
<1>2. h \in HostState /\ h.disk = host[a].disk
  BY <1>1 DEF HostState, AgentMem
<1>3. host' = [host EXCEPT ![a] = h]
  BY DEF InstallThen
<1> HIDE DEF h
<1>4. \A b \in Agents : host'[b].disk = host[b].disk
  BY <1>2, <1>3, HostQuiet
<1> QED
  BY <1>4 DEF Quiet, InstallThen, server

LEMMA AgentQuiet ==
    ASSUME TypeOK, NEW a \in Agents, AgentStep(a)
    PROVE  Quiet \/ PollChanged(a) \/ Swap(a)
<1> USE DEF server
<1>0. host[a] \in HostState
  BY DEF TypeOK
<1>1. CASE PollNotModified(a) \/ SkipInstall(a) \/ SendReport(a)
  BY <1>1 DEF PollNotModified, SkipInstall, SendReport, Quiet
<1>2. CASE Install(a)
  BY <1>0, <1>2, InstallQuiet DEF Install, HostState
<1>3. CASE WriteCerts(a)
  <2> DEFINE h == [host[a] EXCEPT !.certs = IF res[a].cfg \in WithCerts THEN res[a].cfg
                                            ELSE host[a].certs]
  <2>1. \A b \in Agents : host'[b].disk = host[b].disk
    <3>1. host' = [host EXCEPT ![a] = h] /\ h.disk = host[a].disk
      BY <1>0, <1>3 DEF WriteCerts, HostState
    <3> HIDE DEF h
    <3> QED
      BY <3>1 DEF TypeOK
  <2> QED
    BY <1>3, <2>1 DEF WriteCerts, Quiet
<1>4. CASE Reject(a)
  BY <1>4 DEF Reject, Refuse, Finish, Quiet, TypeOK
<1>5. CASE Reload(a)
  <2>1. \A b \in Agents : host'[b].disk = host[b].disk
    BY <1>0, <1>5 DEF Reload, TypeOK, HostState
  <2> QED
    BY <1>5, <2>1 DEF Reload, Finish, Quiet, TypeOK
<1> QED
  BY <1>1, <1>2, <1>3, <1>4, <1>5 DEF AgentStep

LEMMA FaultQuiet ==
    ASSUME TypeOK, NEW a \in Agents, FaultStep(a)
    PROVE  Quiet
<1> USE DEF server
<1>0. host[a] \in HostState
  BY DEF TypeOK
<1>1. CASE InstallFails(a) \/ ReportLost(a) \/ ReportTimesOut(a)
  BY <1>1 DEF InstallFails, ReportLost, ReportTimesOut, Quiet
<1>2. CASE InstallReloadFails(a)
  BY <1>0, <1>2, InstallQuiet DEF InstallReloadFails, HostState
<1>3. CASE WriteCertsFails(a)
  <2>1. PICK c : host' = [host EXCEPT ![a] = [host[a] EXCEPT !.certs = c]]
    BY <1>3 DEF WriteCertsFails
  <2>2. \A b \in Agents : host'[b].disk = host[b].disk
    BY <1>0, <2>1 DEF TypeOK, HostState
  <2> QED
    BY <1>3, <2>2 DEF WriteCertsFails, Finish, Quiet, TypeOK
<1>4. CASE ValidateFails(a) \/ ApplyFails(a) \/ ReloadFails(a)
  BY <1>4 DEF ValidateFails, Refuse, ApplyFails, ReloadFails, Finish, Quiet, TypeOK
<1>5. CASE Crash(a)
  <2>1. host' = host \/ host' = [host EXCEPT ![a] = [host[a] EXCEPT !.certs = "torn"]]
    BY <1>5 DEF Crash
  <2>2. host' = [host EXCEPT ![a] = [host[a] EXCEPT !.certs = "torn"]]
          => \A b \in Agents : host'[b].disk = host[b].disk
    BY <1>0 DEF TypeOK, HostState
  <2>3. UNCHANGED <<published, origin, fleet>> /\ res' = [res EXCEPT ![a] = None]
    BY <1>5 DEF Crash
  <2> QED
    BY <2>1, <2>2, <2>3 DEF Quiet, TypeOK
<1> QED
  BY <1>1, <1>2, <1>3, <1>4, <1>5 DEF FaultStep

\* Every step is a deploy, an answered poll, a swap, or quiet.
LEMMA StepKinds ==
    ASSUME TypeOK, [Next]_vars
    PROVE  \/ Quiet
           \/ \E f \in Fleets : Deploy(f)
           \/ \E a \in Agents : PollChanged(a) \/ Swap(a)
<1>1. CASE UNCHANGED vars
  BY <1>1 DEF vars, Quiet
<1>2. ASSUME NEW a \in Agents, NetworkStep(a) \/ GoStale(a) PROVE Quiet
  BY <1>2 DEF NetworkStep, DeliverLate, GoStale, Quiet, server
<1> QED
  BY <1>1, <1>2, OperatorQuiet, AgentQuiet, FaultQuiet DEF Next

-----------------------------------------------------------------------------
LEMMA HistoryInit == Init => HistoryInv
BY DEF Init, HistoryInv, HistoryOK, AnswerOK, NothingYet, DiskIsPublished

\* Nothing quiet touches what the history invariant speaks of.
LEMMA HistoryQuiet == HistoryInv /\ Quiet => HistoryInv'
<1> SUFFICES ASSUME HistoryInv, Quiet PROVE HistoryInv'
  OBVIOUS
<1> USE DEF HistoryInv, Quiet
<1>1. HistoryOK'
  BY DEF HistoryOK
<1>2. AnswerOK'
  BY DEF AnswerOK
<1>3. NothingYet'
  BY DEF NothingYet
<1>4. DiskIsPublished'
  BY DEF DiskIsPublished
<1> QED
  BY <1>1, <1>2, <1>3, <1>4

\* A deploy appends to one history and changes no entry of any.
LEMMA DeployAppends ==
    ASSUME TypeOK, NEW f \in Fleets, Deploy(f)
    PROVE  /\ Len(published'[f]) = Len(published[f]) + 1
           /\ published'[f][Len(published[f]) + 1] = draft[f]
           /\ \A g \in Fleets : g # f => published'[g] = published[g]
           /\ \A g \in Fleets : \A i \in 1 .. Len(published[g]) :
                  i \in 1 .. Len(published'[g]) /\ published'[g][i] = published[g][i]
<1>1. published[f] \in Seq(Configs) /\ draft[f] \in Configs
  BY DEF TypeOK
<1>2. /\ published'[f] = Append(published[f], draft[f])
      /\ \A g \in Fleets : g # f => published'[g] = published[g]
  BY DEF Deploy, TypeOK
<1>3. \A g \in Fleets : published[g] \in Seq(Configs)
  BY DEF TypeOK
<1> QED
  BY <1>1, <1>2, <1>3

LEMMA HistoryDeploy ==
    ASSUME TypeOK, HistoryInv, NEW f \in Fleets, Deploy(f)
    PROVE  HistoryInv'
<1> USE DEF HistoryInv
<1>0. UNCHANGED <<origin, res, host>>
  BY DEF Deploy
<1>1. HistoryOK'
  <2> SUFFICES ASSUME NEW g \in Fleets
               PROVE  /\ Len(published'[g]) = fleet'[g].gen
                      /\ fleet'[g].gen > 0 => fleet'[g].snap = published'[g][fleet'[g].gen]
                      /\ fleet'[g].gen = 0 => fleet'[g].snap = None
                      /\ \A i \in 1 .. Len(published'[g]) : published'[g][i] \notin Blocked
    BY DEF HistoryOK
  <2>1. CASE g = f
    <3>1. fleet[f] \in FleetRow /\ draft[f] \notin Blocked
      BY DEF TypeOK, Deploy
    <3>2. fleet'[f].gen = fleet[f].gen + 1 /\ fleet'[f].snap = draft[f]
      BY <3>1 DEF Deploy, TypeOK, FleetRow
    <3>3. Len(published[f]) = fleet[f].gen /\ fleet[f].gen \in Nat
      BY <3>1 DEF HistoryOK, FleetRow
    <3>4. \A i \in 1 .. Len(published'[f]) : published'[f][i] \notin Blocked
      <4> TAKE i \in 1 .. Len(published'[f])
      <4>1. i \in 1 .. Len(published[f]) \/ i = Len(published[f]) + 1
        BY <3>3, DeployAppends
      <4> QED
        BY <3>1, <4>1, DeployAppends DEF HistoryOK
    <3> QED
      BY <2>1, <3>2, <3>3, <3>4, DeployAppends
  <2>2. CASE g # f
    <3>1. published'[g] = published[g] /\ fleet'[g] = fleet[g]
      BY <2>2, DeployAppends DEF Deploy, TypeOK
    <3> QED
      BY <3>1 DEF HistoryOK
  <2> QED
    BY <2>1, <2>2
<1>2. AnswerOK'
  <2> SUFFICES ASSUME NEW a \in Agents, res[a] # None
               PROVE  /\ res[a].gen \in 1 .. Len(published'[res[a].fleet])
                      /\ res[a].cfg = published'[res[a].fleet][res[a].gen]
                      /\ origin[a].fleet = res[a].fleet => origin[a].gen =< res[a].gen
    BY <1>0 DEF AnswerOK
  <2>1. res[a].fleet \in Fleets
    BY DEF TypeOK, Answer
  <2> QED
    BY <2>1, DeployAppends DEF AnswerOK
<1>3. NothingYet'
  BY <1>0 DEF NothingYet
<1>4. DiskIsPublished'
  <2> SUFFICES ASSUME NEW a \in Agents, host[a].disk # None
               PROVE  /\ origin[a].fleet \in Fleets
                      /\ origin[a].gen \in 1 .. Len(published'[origin[a].fleet])
                      /\ host[a].disk.cfg = published'[origin[a].fleet][origin[a].gen]
    BY <1>0 DEF DiskIsPublished
  <2>1. /\ origin[a].fleet \in Fleets
        /\ origin[a].gen \in 1 .. Len(published[origin[a].fleet])
        /\ host[a].disk.cfg = published[origin[a].fleet][origin[a].gen]
    BY DEF DiskIsPublished
  <2> QED
    BY <2>1, DeployAppends
<1> QED
  BY <1>1, <1>2, <1>3, <1>4

LEMMA HistoryPoll ==
    ASSUME TypeOK, HistoryInv, NEW a \in Agents, PollChanged(a)
    PROVE  HistoryInv'
<1> USE DEF HistoryInv
<1>0. UNCHANGED <<published, fleet, origin, host>>
  BY DEF PollChanged, server
<1>1. HistoryOK' /\ NothingYet' /\ DiskIsPublished'
  BY <1>0 DEF HistoryOK, NothingYet, DiskIsPublished
<1>2. AnswerOK'
  <2> DEFINE f == member[a]
  <2>1. f \in Fleets /\ fleet[f] \in FleetRow /\ fleet[f].snap # None
    BY DEF TypeOK, PollChanged, Unchanged, Servable
  <2>2. Len(published[f]) = fleet[f].gen /\ fleet[f].gen \in Nat
    BY <2>1 DEF HistoryOK, FleetRow
  <2>3. fleet[f].gen \in 1 .. Len(published[f])
    BY <2>1, <2>2 DEF HistoryOK
  <2>4. /\ res'[a].fleet = f /\ res'[a].gen = fleet[f].gen /\ res'[a].cfg = fleet[f].snap
        /\ \A b \in Agents : b # a => res'[b] = res[b]
    BY DEF PollChanged, Served, TypeOK
  <2>5. origin[a].fleet = f => origin[a].gen =< fleet[f].gen
    <3>1. CASE host[a].disk = None
      BY <2>1, <3>1, ConstantsAssumption DEF NothingYet
    <3>2. CASE host[a].disk # None
      BY <2>2, <3>2 DEF DiskIsPublished
    <3> QED
      BY <3>1, <3>2
  <2> HIDE DEF f
  <2> SUFFICES ASSUME NEW b \in Agents, res'[b] # None
               PROVE  /\ res'[b].gen \in 1 .. Len(published[res'[b].fleet])
                      /\ res'[b].cfg = published[res'[b].fleet][res'[b].gen]
                      /\ origin[b].fleet = res'[b].fleet => origin[b].gen =< res'[b].gen
    BY <1>0 DEF AnswerOK
  <2>6. CASE b = a
    BY <2>1, <2>2, <2>3, <2>4, <2>5, <2>6 DEF HistoryOK
  <2>7. CASE b # a
    BY <2>4, <2>7 DEF AnswerOK
  <2> QED
    BY <2>6, <2>7
<1> QED
  BY <1>1, <1>2

\* A swap puts the answer on disk, unchanged.
LEMMA SwapEffect ==
    ASSUME TypeOK, ControlOK, NEW a \in Agents, Swap(a)
    PROVE  /\ res[a] \in Answer /\ res[a] # None
           /\ host'[a].disk = [cfg |-> res[a].cfg, glob |-> res[a].glob]
           /\ host'[a].disk # None
           /\ origin'[a] = [fleet |-> res[a].fleet, gen |-> res[a].gen]
           /\ \A b \in Agents : b # a => host'[b] = host[b] /\ origin'[b] = origin[b]
           /\ UNCHANGED <<published, fleet, res>>
<1>1. res[a] \in Answer /\ res[a] # None /\ host[a] \in HostState
  BY DEF TypeOK, ControlOK, Swap
<1>2. [cfg |-> res[a].cfg, glob |-> res[a].glob] \in Content
  BY <1>1 DEF Answer, Content
<1>3. host'[a].disk = [cfg |-> res[a].cfg, glob |-> res[a].glob]
  BY <1>1 DEF Swap, TypeOK, HostState
<1> QED
  BY <1>1, <1>2, <1>3, ConstantsAssumption DEF Swap, TypeOK, server

LEMMA HistorySwap ==
    ASSUME TypeOK, ControlOK, HistoryInv, NEW a \in Agents, Swap(a)
    PROVE  HistoryInv'
<1> USE DEF HistoryInv
<1> DEFINE r == res[a]
<1>0. /\ r \in Answer /\ r # None
      /\ host'[a].disk = [cfg |-> r.cfg, glob |-> r.glob] /\ host'[a].disk # None
      /\ origin'[a] = [fleet |-> r.fleet, gen |-> r.gen]
      /\ \A b \in Agents : b # a => host'[b] = host[b] /\ origin'[b] = origin[b]
      /\ UNCHANGED <<published, fleet, res>>
  BY SwapEffect
<1>1. r.fleet \in Fleets /\ r.gen \in Nat
  BY <1>0 DEF Answer
<1>2. /\ r.gen \in 1 .. Len(published[r.fleet])
      /\ r.cfg = published[r.fleet][r.gen]
      /\ r.cfg \notin Blocked
  BY <1>0, <1>1 DEF AnswerOK, HistoryOK
<1>3. r.cfg \in Accepts[host[a].installed] /\ host[a].installed \in MaybeVersion
  BY DEF Swap, TypeOK, HostState
<1>4. HistoryOK'
  BY <1>0 DEF HistoryOK
<1>5. AnswerOK'
  <2> SUFFICES ASSUME NEW b \in Agents, res[b] # None
               PROVE  /\ res[b].gen \in 1 .. Len(published[res[b].fleet])
                      /\ res[b].cfg = published[res[b].fleet][res[b].gen]
                      /\ origin'[b].fleet = res[b].fleet => origin'[b].gen =< res[b].gen
    BY <1>0 DEF AnswerOK
  <2>1. CASE b = a
    BY <1>0, <1>1, <1>2, <2>1
  <2>2. CASE b # a
    BY <1>0, <2>2 DEF AnswerOK
  <2> QED
    BY <2>1, <2>2
<1>6. NothingYet'
  BY <1>0 DEF NothingYet
<1>7. DiskIsPublished'
  <2> SUFFICES ASSUME NEW b \in Agents, host'[b].disk # None
               PROVE  /\ origin'[b].fleet \in Fleets
                      /\ origin'[b].gen \in 1 .. Len(published[origin'[b].fleet])
                      /\ host'[b].disk.cfg = published[origin'[b].fleet][origin'[b].gen]
                      /\ host'[b].disk.cfg \notin Blocked
                      /\ \E v \in MaybeVersion : host'[b].disk.cfg \in Accepts[v]
    BY <1>0 DEF DiskIsPublished
  <2>1. CASE b = a
    BY <1>0, <1>1, <1>2, <1>3, <2>1
  <2>2. CASE b # a
    BY <1>0, <2>2 DEF DiskIsPublished
  <2> QED
    BY <2>1, <2>2
<1> QED
  BY <1>4, <1>5, <1>6, <1>7

LEMMA HistoryStep == TypeOK /\ ControlOK /\ HistoryInv /\ [Next]_vars => HistoryInv'
BY StepKinds, HistoryQuiet, HistoryDeploy, HistoryPoll, HistorySwap

\* The history invariant holds throughout.
THEOREM HistoryCorrect == Spec => []HistoryInv
BY TypeCorrect, HistoryInit, HistoryStep, PTL DEF Spec

\* DiskIsPublished: whatever operators, failures and crashes do, the file on a
\* host is one that a deploy published past its gate.
THEOREM DiskCorrect == Spec => []DiskIsPublished
<1>1. HistoryInv => DiskIsPublished
  BY DEF HistoryInv
<1> QED
  BY <1>1, HistoryCorrect, PTL

-----------------------------------------------------------------------------
(* The refinement. *)

LEMMA RolloutInit == Init => R!Init
BY DEF Init, R!Init, R!NoOrigin

\* A deploy publishes, a swap adopts, everything else is a stutter.
LEMMA RolloutStep ==
    TypeOK /\ ControlOK /\ HistoryInv /\ [Next]_vars => [R!Next]_(R!vars)
<1> SUFFICES ASSUME TypeOK, ControlOK, HistoryInv, [Next]_vars
             PROVE  [R!Next]_(R!vars)
  OBVIOUS
<1> DEFINE config == [a \in Agents |-> IF host[a].disk = None THEN None ELSE host[a].disk.cfg]
<1>1. CASE Quiet
  <2>1. config' = config
    BY <1>1 DEF Quiet
  <2> QED
    BY <1>1, <2>1 DEF Quiet, R!vars
<1>2. ASSUME NEW f \in Fleets, Deploy(f) PROVE R!Next
  <2>1. draft[f] \in Configs
    BY DEF TypeOK
  <2>2. R!Publish(f, draft[f])
    BY <1>2 DEF Deploy, R!Publish
  <2> QED
    BY <2>1, <2>2 DEF R!Next
<1>3. ASSUME NEW a \in Agents, PollChanged(a) PROVE UNCHANGED R!vars
  BY <1>3 DEF PollChanged, server, R!vars
<1>4. ASSUME NEW a \in Agents, Swap(a) PROVE R!Next
  <2> DEFINE r == res[a]
  <2>0. /\ r \in Answer /\ r # None
        /\ host'[a].disk = [cfg |-> r.cfg, glob |-> r.glob] /\ host'[a].disk # None
        /\ \A b \in Agents : b # a => host'[b] = host[b]
        /\ published' = published
    BY <1>4, SwapEffect
  <2>1. r.fleet \in Fleets
    BY <2>0 DEF Answer
  <2>2. /\ r.gen \in 1 .. Len(published[r.fleet])
        /\ r.cfg = published[r.fleet][r.gen]
        /\ origin[a].fleet = r.fleet => origin[a].gen =< r.gen
    BY <2>0 DEF HistoryInv, AnswerOK
  <2>3. config' = [config EXCEPT ![a] = published[r.fleet][r.gen]]
    <3>1. host'[a].disk.cfg = published[r.fleet][r.gen]
      BY <2>0, <2>2
    <3>2. \A b \in Agents : IF host'[b].disk = None THEN config'[b] = None
                                                 ELSE config'[b] = host'[b].disk.cfg
      OBVIOUS
    <3>3. \A b \in Agents : b # a => config'[b] = config[b]
      BY <2>0
    <3>4. config'[a] = published[r.fleet][r.gen]
      BY <2>0, <3>1, <3>2
    <3> QED
      BY <3>3, <3>4
  <2>4. origin' = [origin EXCEPT ![a] = [fleet |-> r.fleet, gen |-> r.gen]]
    BY <1>4 DEF Swap
  <2>5. R!Adopt(a, r.fleet, r.gen)
    <3> HIDE DEF r
    <3> QED
      BY <2>0, <2>2, <2>3, <2>4 DEF R!Adopt
  <2> HIDE DEF r
  <2> QED
    BY <2>1, <2>2, <2>5 DEF R!Next, R!Adopt
<1> QED
  BY <1>1, <1>2, <1>3, <1>4, StepKinds

\* ImplementsRollout: the poll, validate, swap and reload machinery, with all
\* its failures, shows to the outside as publications and adoptions that never
\* go back.
THEOREM RolloutCorrect == Spec => ImplementsRollout
BY RolloutInit, RolloutStep, TypeCorrect, HistoryCorrect, PTL
   DEF Spec, ImplementsRollout, R!Spec

-----------------------------------------------------------------------------
(* What is reported. *)

\* An agent about to reload has just written the answer it holds.
ReloadOK == \A a \in Agents : pc[a] = "reload" => origin[a].gen = res[a].gen

ReportInv == ReportsNeverAhead /\ ReloadOK

\* Where the generations that a step leaves in the row, in the agent and in
\* late reports can come from, when Apply does not fail before the swap.
ClaimStep(a) ==
    /\ \/ row'[a].applied = row[a].applied
       \/ row'[a].applied = mem[a].applied
       \/ \E m \in late[a] : row'[a].applied = m.applied
    /\ \/ mem'[a].applied \in {mem[a].applied, 0}
       \/ pc[a] = "reload" /\ mem'[a].applied = res[a].gen
    /\ \A m \in late'[a] : m \in late[a] \/ m.applied = mem[a].applied
    /\ pc'[a] = "reload" =>
          \/ Swap(a)
          \/ pc[a] = "reload" /\ res'[a] = res[a] /\ origin'[a] = origin[a]

Same(a) ==
    /\ row'[a] = row[a] /\ mem'[a] = mem[a] /\ late'[a] = late[a]
    /\ pc'[a] = pc[a] /\ res'[a] = res[a] /\ origin'[a] = origin[a]

LEMMA SameClaims == ASSUME NEW a \in Agents, Same(a) PROVE ClaimStep(a)
BY DEF Same, ClaimStep

LEMMA ReceivedClaim ==
    ASSUME TypeOK, NEW a \in Agents, NEW m \in Report, Received(a, m)
    PROVE  /\ row'[a].applied = m.applied
           /\ \A b \in Agents : b # a => row'[b] = row[b]
BY DEF Received, TypeOK

LEMMA RefuseClaims ==
    ASSUME TypeOK, NEW a \in Agents, Refuse(a)
    PROVE  ClaimStep(a) /\ \A b \in Agents : b # a => Same(b)
<1>1. Rejected(a).applied = mem[a].applied
  BY DEF Rejected, AgentMem, TypeOK
<1> QED
  BY <1>1 DEF Refuse, Finish, TypeOK, server, Same, ClaimStep

LEMMA AgentClaims ==
    ASSUME TypeOK, NEW a \in Agents, AgentStep(a)
    PROVE  ClaimStep(a) /\ \A b \in Agents : b # a => Same(b)
<1> USE DEF server, Same, ClaimStep
<1>0. mem[a] \in AgentMem /\ mem \in [Agents -> AgentMem]
  BY DEF TypeOK
<1>1. CASE PollNotModified(a)
  <2>1. mem'[a].applied = mem[a].applied
    BY <1>0, <1>1 DEF PollNotModified, AgentMem
  <2> QED
    BY <1>1, <2>1 DEF PollNotModified, TypeOK
<1>2. CASE PollChanged(a)
  <2>1. mem'[a].applied = mem[a].applied
    BY <1>0, <1>2 DEF PollChanged, AgentMem
  <2>2. \A b \in Agents : b # a => mem'[b] = mem[b] /\ res'[b] = res[b] /\ pc'[b] = pc[b]
    BY <1>2 DEF PollChanged, TypeOK
  <2>3. pc'[a] = "update" /\ UNCHANGED <<row, late, origin>>
    BY <1>2 DEF PollChanged, TypeOK
  <2> QED
    BY <2>1, <2>2, <2>3
<1>3. CASE SkipInstall(a) \/ WriteCerts(a)
  BY <1>3 DEF SkipInstall, WriteCerts, AfterReconcile, TypeOK
<1>4. CASE Install(a)
  <2>1. mem'[a].applied = mem[a].applied
    BY <1>0, <1>4 DEF Install, InstallThen, AgentMem
  <2> QED
    BY <1>4, <2>1 DEF Install, InstallThen, AfterReconcile, TypeOK
<1>5. CASE Reject(a)
  BY <1>5, RefuseClaims DEF Reject
<1>6. CASE Swap(a)
  BY <1>6 DEF Swap, TypeOK
<1>7. CASE Reload(a)
  <2>1. Applied(a, TRUE, "ok").applied = res[a].gen
    BY <1>0 DEF Applied, AgentMem
  <2> QED
    BY <1>7, <2>1 DEF Reload, Finish, TypeOK
<1>8. CASE SendReport(a)
  <2>1. Message(a).applied = mem[a].applied
    BY DEF Message
  <2>2. row'[a].applied = mem[a].applied /\ \A b \in Agents : b # a => row'[b] = row[b]
    BY <1>8, <2>1, MessageType, ReceivedClaim DEF SendReport
  <2> QED
    BY <1>8, <2>2 DEF SendReport, TypeOK
<1> QED
  BY <1>1, <1>2, <1>3, <1>4, <1>5, <1>6, <1>7, <1>8 DEF AgentStep

LEMMA FaultClaims ==
    ASSUME TypeOK, "preSwap" \notin Faults, NEW a \in Agents, FaultStep(a)
    PROVE  ClaimStep(a) /\ \A b \in Agents : b # a => Same(b)
<1> USE DEF server, Same, ClaimStep
<1>0. mem[a] \in AgentMem /\ mem \in [Agents -> AgentMem]
  BY DEF TypeOK
<1>1. CASE InstallFails(a)
  <2>1. mem'[a].applied = mem[a].applied
    BY <1>0, <1>1 DEF InstallFails, AgentMem
  <2> QED
    BY <1>1, <2>1 DEF InstallFails, AfterReconcile, TypeOK
<1>2. CASE InstallReloadFails(a)
  <2>1. mem'[a].applied = mem[a].applied
    BY <1>0, <1>2 DEF InstallReloadFails, InstallThen, AgentMem
  <2> QED
    BY <1>2, <2>1 DEF InstallReloadFails, InstallThen, AfterReconcile, TypeOK
<1>3. CASE WriteCertsFails(a)
  <2>1. CertsFailed(a).applied = mem[a].applied
    BY <1>0 DEF CertsFailed, AgentMem
  <2> QED
    BY <1>3, <2>1 DEF WriteCertsFails, Finish, TypeOK
<1>4. CASE ApplyFails(a)
  BY <1>4 DEF ApplyFails, Fault
<1>5. CASE ReloadFails(a)
  <2>1. Applied(a, FALSE, "reload_failed").applied = res[a].gen
    BY <1>0 DEF Applied, AgentMem
  <2> QED
    BY <1>5, <2>1 DEF ReloadFails, Finish, TypeOK
<1>6. CASE ReportLost(a)
  BY <1>6 DEF ReportLost, TypeOK
<1>7. CASE ReportTimesOut(a)
  <2>1. Message(a).applied = mem[a].applied
    BY DEF Message
  <2> QED
    BY <1>7, <2>1 DEF ReportTimesOut, TypeOK
<1>8. CASE Crash(a)
  <2>1. FreshMem(host[a].installed).applied = 0
    BY DEF FreshMem
  <2> QED
    BY <1>8, <2>1 DEF Crash, TypeOK
<1>9. CASE ValidateFails(a)
  BY <1>9, RefuseClaims DEF ValidateFails
<1> QED
  BY <1>1, <1>2, <1>3, <1>4, <1>5, <1>6, <1>7, <1>8, <1>9 DEF FaultStep

LEMMA NetworkClaims ==
    ASSUME TypeOK, NEW a \in Agents, NetworkStep(a) \/ GoStale(a)
    PROVE  ClaimStep(a) /\ \A b \in Agents : b # a => Same(b)
<1> USE DEF server, Same, ClaimStep
<1>1. ASSUME NEW m \in late[a], DeliverLate(a, m)
      PROVE  ClaimStep(a) /\ \A b \in Agents : b # a => Same(b)
  <2>1. m \in Report
    BY DEF TypeOK
  <2>2. row'[a].applied = m.applied /\ \A b \in Agents : b # a => row'[b] = row[b]
    BY <1>1, <2>1, ReceivedClaim DEF DeliverLate
  <2>3. late'[a] \subseteq late[a] /\ \A b \in Agents : b # a => late'[b] = late[b]
    BY <1>1 DEF DeliverLate, TypeOK
  <2> QED
    BY <1>1, <2>2, <2>3 DEF DeliverLate
<1>2. CASE GoStale(a)
  <2>1. row[a] \in InstanceRow /\ row \in [Agents -> InstanceRow]
    BY DEF TypeOK
  <2>2. row'[a].applied = row[a].applied /\ \A b \in Agents : b # a => row'[b] = row[b]
    BY <1>2, <2>1 DEF GoStale, InstanceRow
  <2> QED
    BY <1>2, <2>2 DEF GoStale
<1> QED
  BY <1>1, <1>2 DEF NetworkStep

LEMMA StepClaims ==
    ASSUME TypeOK, "preSwap" \notin Faults, [Next]_vars, NEW a \in Agents
    PROVE  ClaimStep(a)
<1>1. CASE OperatorStep
  <2>1. UNCHANGED <<row, late, mem, pc, res, origin>>
    BY <1>1 DEF OperatorStep, Deploy, Edit, PinVersion, SetGlobalVersion, SetGlobals,
                Join, Leave, RotateKey, Operate
  <2> QED
    BY <2>1, SameClaims DEF Same
<1>2. CASE UNCHANGED vars
  BY <1>2, SameClaims DEF Same, vars
<1>3. ASSUME NEW b \in Agents, AgentStep(b) \/ NetworkStep(b) \/ GoStale(b) \/ FaultStep(b)
      PROVE  ClaimStep(a)
  BY <1>3, AgentClaims, NetworkClaims, FaultClaims, SameClaims
<1> QED
  BY <1>1, <1>2, <1>3 DEF Next

\* In one fleet a host never goes back to an earlier deploy.
LEMMA OriginGrows ==
    ASSUME TypeOK, ControlOK, HistoryInv, SingleFleet, [Next]_vars, NEW a \in Agents
    PROVE  /\ origin[a].gen \in Nat /\ origin'[a].gen \in Nat
           /\ origin[a].gen =< origin'[a].gen
<1>0. \A b \in Agents : origin[b] \in Origin
  BY DEF TypeOK
<1>1. CASE UNCHANGED origin
  BY <1>0, <1>1 DEF Origin
<1>2. ASSUME NEW b \in Agents, Swap(b)
      PROVE  /\ origin[a].gen \in Nat /\ origin'[a].gen \in Nat
             /\ origin[a].gen =< origin'[a].gen
  <2> DEFINE r == res[b]
  <2>1. /\ r \in Answer /\ r # None
        /\ origin'[b] = [fleet |-> r.fleet, gen |-> r.gen]
        /\ a # b => origin'[a] = origin[a]
    BY <1>2, SwapEffect
  <2>2. r.fleet \in Fleets /\ r.gen \in Nat
    BY <2>1 DEF Answer
  <2>3. origin[b].gen =< r.gen
    <3>1. origin[b].fleet = r.fleet => origin[b].gen =< r.gen
      BY <2>1 DEF HistoryInv, AnswerOK
    <3>2. CASE host[b].disk = None
      BY <2>2, <3>2 DEF HistoryInv, NothingYet
    <3>3. CASE host[b].disk # None
      BY <2>2, <3>1, <3>3 DEF HistoryInv, DiskIsPublished, SingleFleet
    <3> QED
      BY <3>2, <3>3
  <2> QED
    BY <1>0, <2>1, <2>2, <2>3 DEF Origin
<1>3. UNCHANGED origin \/ \E b \in Agents : Swap(b)
  BY StepKinds DEF Quiet, Deploy, PollChanged, server
<1> QED
  BY <1>1, <1>2, <1>3

LEMMA ReportInit == Init => ReportInv
BY DEF Init, ReportInv, ReportsNeverAhead, ReloadOK, FreshMem

LEMMA ReportStep ==
    ASSUME "preSwap" \notin Faults, SingleFleet,
           TypeOK, ControlOK, HistoryInv, ReportInv, [Next]_vars
    PROVE  ReportInv'
<1>1. ASSUME NEW a \in Agents
      PROVE  /\ row'[a].applied =< origin'[a].gen
             /\ mem'[a].applied =< origin'[a].gen
             /\ \A m \in late'[a] : m.applied =< origin'[a].gen
             /\ pc'[a] = "reload" => origin'[a].gen = res'[a].gen
  <2>1. ClaimStep(a)
    BY StepClaims
  <2>2. /\ origin[a].gen \in Nat /\ origin'[a].gen \in Nat
        /\ origin[a].gen =< origin'[a].gen
    BY OriginGrows
  <2>3. /\ row[a].applied =< origin[a].gen
        /\ mem[a].applied =< origin[a].gen
        /\ \A m \in late[a] : m.applied =< origin[a].gen
        /\ pc[a] = "reload" => origin[a].gen = res[a].gen
    BY DEF ReportInv, ReportsNeverAhead, ReloadOK
  <2>4. row[a].applied \in Int /\ mem[a].applied \in Int /\ \A m \in late[a] : m.applied \in Int
    <3>1. row[a] \in InstanceRow /\ mem[a] \in AgentMem /\ late[a] \subseteq Report
      BY DEF TypeOK
    <3> QED
      BY <3>1 DEF InstanceRow, AgentMem, Report
  <2>5. row'[a].applied =< origin'[a].gen /\ mem'[a].applied =< origin'[a].gen
    BY <2>1, <2>2, <2>3, <2>4 DEF ClaimStep
  <2>6. \A m \in late'[a] : m.applied =< origin'[a].gen
    BY <2>1, <2>2, <2>3, <2>4 DEF ClaimStep
  <2>7. ASSUME pc'[a] = "reload" PROVE origin'[a].gen = res'[a].gen
    <3>1. CASE Swap(a)
      <4>1. origin'[a] = [fleet |-> res[a].fleet, gen |-> res[a].gen] /\ res' = res
        BY <3>1, SwapEffect
      <4> QED
        BY <4>1
    <3>2. CASE pc[a] = "reload" /\ res'[a] = res[a] /\ origin'[a] = origin[a]
      BY <2>3, <3>2
    <3> QED
      BY <2>1, <2>7, <3>1, <3>2 DEF ClaimStep
  <2> QED
    BY <2>5, <2>6, <2>7
<1> QED
  BY <1>1 DEF ReportInv, ReportsNeverAhead, ReloadOK

\* ReportsNeverAhead: neither the row, nor the agent, nor a report on its way
\* claims a generation that the host has not reached, however reports are lost,
\* delayed or reordered.
THEOREM ReportsCorrect == Spec => []ReportsNeverAhead
<1>1. CASE "preSwap" \notin Faults /\ SingleFleet
  <2>1. TypeOK /\ ControlOK /\ HistoryInv /\ ReportInv /\ [Next]_vars => ReportInv'
    BY <1>1, ReportStep
  <2>2. ReportInv => ReportsNeverAhead
    BY DEF ReportInv
  <2> QED
    BY <2>1, <2>2, ReportInit, TypeCorrect, HistoryCorrect, PTL DEF Spec
<1>2. CASE ~("preSwap" \notin Faults /\ SingleFleet)
  <2>1. ReportsNeverAhead
    BY <1>2 DEF ReportsNeverAhead
  <2> QED
    BY <2>1, PTL
<1> QED
  BY <1>1, <1>2

\* SyncedMeansOnDisk: an instance shown on its fleet's generation has the file
\* of that generation.
THEOREM SyncedCorrect == Spec => []SyncedMeansOnDisk
<1>1. TypeOK /\ HistoryInv /\ ReportsNeverAhead => SyncedMeansOnDisk
  <2> SUFFICES ASSUME TypeOK, HistoryInv, ReportsNeverAhead,
                      "preSwap" \notin Faults, SingleFleet, NEW a \in Agents,
                      member[a] # None, row[a].applied = fleet[member[a]].gen,
                      fleet[member[a]].gen > 0
               PROVE  host[a].disk # None /\ host[a].disk.cfg = fleet[member[a]].snap
    BY DEF SyncedMeansOnDisk
  <2> DEFINE f == member[a]
  <2>1. f \in Fleets /\ fleet[f] \in FleetRow
    BY DEF TypeOK
  <2>2. fleet[f].gen \in Nat /\ Len(published[f]) = fleet[f].gen
    BY <2>1 DEF FleetRow, HistoryInv, HistoryOK
  <2>3. fleet[f].gen =< origin[a].gen
    BY DEF ReportsNeverAhead
  <2>4. host[a].disk # None
    BY <2>2, <2>3 DEF HistoryInv, NothingYet
  <2>5. /\ origin[a].fleet = f /\ origin[a].gen \in 1 .. Len(published[f])
        /\ host[a].disk.cfg = published[f][origin[a].gen]
    BY <2>1, <2>4 DEF HistoryInv, DiskIsPublished, SingleFleet
  <2>6. origin[a].gen = fleet[f].gen
    BY <2>2, <2>3, <2>5
  <2>7. fleet[f].snap = published[f][fleet[f].gen]
    BY <2>1 DEF HistoryInv, HistoryOK
  <2> QED
    BY <2>4, <2>5, <2>6, <2>7
<1> QED
  BY <1>1, TypeCorrect, HistoryCorrect, ReportsCorrect, PTL

-----------------------------------------------------------------------------
(* What one agent does to its own host. *)

\* Nothing happens to agent b or to its host.
Alone(b) ==
    /\ host'[b] = host[b] /\ tries'[b] = tries[b] /\ mem'[b] = mem[b]
    /\ pc'[b] = pc[b] /\ res'[b] = res[b] /\ origin'[b] = origin[b]

LEMMA OthersAlone ==
    ASSUME TypeOK, NEW a \in Agents, NEW b \in Agents, b # a,
           AgentStep(a) \/ FaultStep(a) \/ NetworkStep(a) \/ GoStale(a)
    PROVE  Alone(b)
<1> USE DEF Alone, server
<1>1. CASE PollNotModified(a) \/ PollChanged(a) \/ SkipInstall(a) \/ SendReport(a)
  BY <1>1 DEF PollNotModified, PollChanged, SkipInstall, SendReport, TypeOK
<1>2. CASE Install(a) \/ InstallReloadFails(a) \/ InstallFails(a)
  BY <1>2 DEF Install, InstallReloadFails, InstallFails, InstallThen, TypeOK
<1>3. CASE WriteCerts(a) \/ Swap(a)
  BY <1>3 DEF WriteCerts, Swap, TypeOK
<1>4. CASE Reject(a) \/ ValidateFails(a) \/ Reload(a) \/ ApplyFails(a) \/ ReloadFails(a)
  BY <1>4 DEF Reject, ValidateFails, Refuse, Reload, ApplyFails, ReloadFails, Finish, TypeOK
<1>5. CASE WriteCertsFails(a)
  <2>1. PICK c : host' = [host EXCEPT ![a] = [host[a] EXCEPT !.certs = c]]
    BY <1>5 DEF WriteCertsFails
  <2>2. host'[b] = host[b]
    BY <2>1 DEF TypeOK
  <2> QED
    BY <1>5, <2>2 DEF WriteCertsFails, Finish, TypeOK
<1>6. CASE Crash(a)
  BY <1>6 DEF Crash, TypeOK
<1>7. CASE ReportLost(a) \/ ReportTimesOut(a)
  BY <1>7 DEF ReportLost, ReportTimesOut, TypeOK
<1>8. CASE NetworkStep(a) \/ GoStale(a)
  BY <1>8 DEF NetworkStep, DeliverLate, GoStale
<1> QED
  BY <1>1, <1>2, <1>3, <1>4, <1>5, <1>6, <1>7, <1>8 DEF AgentStep, FaultStep

LEMMA OperatorsAlone ==
    ASSUME OperatorStep \/ UNCHANGED vars, NEW b \in Agents
    PROVE  Alone(b)
<1>1. UNCHANGED <<host, tries, mem, pc, res, origin>>
  BY DEF OperatorStep, Deploy, Edit, PinVersion, SetGlobalVersion, SetGlobals,
         Join, Leave, RotateKey, Operate, vars
<1> QED
  BY <1>1 DEF Alone

LEMMA NetworkAlone ==
    ASSUME NEW a \in Agents, NetworkStep(a) \/ GoStale(a)
    PROVE  Alone(a)
BY DEF NetworkStep, DeliverLate, GoStale, Alone

\* A step leaves an agent alone unless the step is its own.
LEMMA AloneOrOwn ==
    ASSUME TypeOK, [Next]_vars, NEW a \in Agents
    PROVE  Alone(a) \/ AgentStep(a) \/ FaultStep(a)
<1>1. CASE OperatorStep \/ UNCHANGED vars
  BY <1>1, OperatorsAlone
<1>2. ASSUME NEW b \in Agents, AgentStep(b) \/ FaultStep(b) \/ NetworkStep(b) \/ GoStale(b)
      PROVE  Alone(a) \/ AgentStep(a) \/ FaultStep(a)
  BY <1>2, OthersAlone, NetworkAlone
<1> QED
  BY <1>1, <1>2 DEF Next

-----------------------------------------------------------------------------
(* What Vector loads, and what it runs. *)

\* With memory m of an agent at step p, its host h and the answer r it works on:
\* from the moment they are written until Vector is reloaded the certificate
\* files are those of the answer; otherwise they are those of the file on disk,
\* unless the agent's last answer is unsettled.
CertsFit(p, m, h, r) ==
    /\ p = "apply" /\ r.cfg \in WithCerts => h.certs = r.cfg
    /\ p = "reload" /\ h.disk.cfg \in WithCerts => h.certs = h.disk.cfg
    /\ /\ p \notin {"apply", "reload"} /\ h.disk # None /\ h.disk.cfg \in WithCerts
       /\ m.healthy /\ m.etag # None /\ m.etag.cfg = h.disk.cfg
       => h.certs = h.disk.cfg

\* A healthy agent's generation is the one of the file on disk, and Vector runs
\* that file; during a reload the answer is what is on disk.
RunsApplied(p, m, h, o, r) ==
    /\ p = "reload" => o.gen = r.gen
    /\ p # "reload" /\ m.healthy /\ m.applied > 0
       => m.applied = o.gen /\ h.running = h.disk

LoadsWell(p, m, h, o, r) == CertsFit(p, m, h, r) /\ RunsApplied(p, m, h, o, r)

LoadInv == \A a \in Agents : LoadsWell(pc[a], mem[a], host[a], origin[a], res[a])

\* A cycle ends: with an answer that was refused, ...
LEMMA RefuseLoads ==
    ASSUME TypeOK, NEW a \in Agents, Refuse(a),
           LoadsWell(pc[a], mem[a], host[a], origin[a], res[a])
    PROVE  LoadsWell(pc'[a], mem'[a], host'[a], origin'[a], res'[a])
<1>1. mem[a] \in AgentMem
  BY DEF TypeOK
<1>2. /\ Rejected(a).healthy = mem[a].healthy /\ Rejected(a).applied = mem[a].applied
      /\ Rejected(a).etag.cfg = res[a].cfg
  BY <1>1 DEF Rejected, AgentMem, AnswerETag, ETagOf
<1>3. /\ pc[a] = "apply" /\ pc'[a] = "report" /\ mem'[a] = Rejected(a)
      /\ UNCHANGED <<host, origin>>
  BY DEF Refuse, Finish, TypeOK
<1> QED
  BY <1>2, <1>3 DEF LoadsWell, CertsFit, RunsApplied

\* ... or with a failure that the agent takes note of.
LEMMA FailureLoads ==
    ASSUME TypeOK, NEW a \in Agents, NEW m, ~m.healthy, Finish(a, m)
    PROVE  LoadsWell(pc'[a], mem'[a], host'[a], origin'[a], res'[a])
<1>1. pc'[a] = "report" /\ mem'[a] = m
  BY DEF Finish, TypeOK
<1> QED
  BY <1>1 DEF LoadsWell, CertsFit, RunsApplied

\* An install, and the restart of Vector after it.
LEMMA InstallLoads ==
    ASSUME TypeOK, NEW a \in Agents, NEW r \in {host[a].disk, host[a].running},
           InstallThen(a, r), LoadsWell(pc[a], mem[a], host[a], origin[a], res[a])
    PROVE  LoadsWell(pc'[a], mem'[a], host'[a], origin'[a], res'[a])
<1> DEFINE want == mem[a].desired
           m == [mem[a] EXCEPT !.version = Shown[want],
                               !.failed = IF Shown[want] = want THEN None ELSE want]
           h == [host[a] EXCEPT !.installed = want, !.running = r]
<1>1. mem[a] \in AgentMem /\ host[a] \in HostState
  BY DEF TypeOK
<1>2. m.etag = mem[a].etag /\ m.healthy = mem[a].healthy /\ m.applied = mem[a].applied
  BY <1>1 DEF AgentMem
<1>3. h.disk = host[a].disk /\ h.certs = host[a].certs /\ h.running = r
  BY <1>1 DEF HostState
<1>4. mem'[a] = m /\ host'[a] = h /\ UNCHANGED <<origin, res>>
  BY DEF InstallThen, TypeOK
<1>5. pc[a] \in {"heartbeat", "update"} /\ pc'[a] \in {"report", "certs"}
  BY DEF InstallThen, AfterReconcile, TypeOK
<1> HIDE DEF m, h, want
<1>6. CertsFit(pc'[a], m, h, res[a])
  BY <1>2, <1>3, <1>5 DEF LoadsWell, CertsFit
<1>7. RunsApplied(pc'[a], m, h, origin[a], res[a])
  BY <1>2, <1>3, <1>5 DEF LoadsWell, RunsApplied
<1> QED
  BY <1>4, <1>6, <1>7 DEF LoadsWell

\* What the agent remembers of the last answer stays, and so does its host.
LEMMA KeptLoads ==
    ASSUME NEW a \in Agents, LoadsWell(pc[a], mem[a], host[a], origin[a], res[a]),
           pc[a] \notin {"apply", "reload"}, pc'[a] \notin {"apply", "reload"},
           mem'[a].etag = mem[a].etag, mem'[a].healthy = mem[a].healthy,
           mem'[a].applied = mem[a].applied, host'[a] = host[a], origin'[a] = origin[a]
    PROVE  LoadsWell(pc'[a], mem'[a], host'[a], origin'[a], res'[a])
BY DEF LoadsWell, CertsFit, RunsApplied

LEMMA OwnLoads ==
    ASSUME TypeOK, ControlOK, NEW a \in Agents, AgentStep(a) \/ FaultStep(a),
           LoadsWell(pc[a], mem[a], host[a], origin[a], res[a])
    PROVE  LoadsWell(pc'[a], mem'[a], host'[a], origin'[a], res'[a])
<1> USE DEF server
<1>0. mem[a] \in AgentMem /\ host[a] \in HostState
  BY DEF TypeOK
<1>1. CASE PollNotModified(a) \/ PollChanged(a) \/ InstallFails(a)
  <2>1. /\ mem'[a].etag = mem[a].etag /\ mem'[a].healthy = mem[a].healthy
        /\ mem'[a].applied = mem[a].applied
    <3>1. CASE PollNotModified(a)
      BY <1>0, <3>1 DEF PollNotModified, AgentMem, TypeOK
    <3>2. CASE PollChanged(a)
      <4>1. PICK v : mem' = [mem EXCEPT ![a] = [mem[a] EXCEPT !.desired = v]]
        BY <3>2 DEF PollChanged
      <4> QED
        BY <1>0, <4>1 DEF AgentMem, TypeOK
    <3>3. CASE InstallFails(a)
      BY <1>0, <3>3 DEF InstallFails, AgentMem, TypeOK
    <3> QED
      BY <1>1, <3>1, <3>2, <3>3
  <2>2. /\ pc[a] \notin {"apply", "reload"} /\ pc'[a] \notin {"apply", "reload"}
        /\ UNCHANGED <<host, origin>>
    BY <1>1 DEF PollNotModified, PollChanged, InstallFails, AfterReconcile, TypeOK
  <2> QED
    BY <2>1, <2>2, KeptLoads
<1>2. CASE SkipInstall(a) \/ SendReport(a) \/ ReportLost(a) \/ ReportTimesOut(a)
  <2>1. /\ pc[a] \notin {"apply", "reload"} /\ pc'[a] \notin {"apply", "reload"}
        /\ UNCHANGED <<mem, host, origin>>
    BY <1>2 DEF SkipInstall, SendReport, ReportLost, ReportTimesOut, AfterReconcile, TypeOK
  <2> QED
    BY <2>1, KeptLoads
<1>3. CASE Install(a) \/ InstallReloadFails(a)
  BY <1>3, InstallLoads DEF Install, InstallReloadFails
<1>4. CASE WriteCerts(a)
  <2>1. PICK c : /\ host' = [host EXCEPT ![a] = [host[a] EXCEPT !.certs = c]]
                 /\ res[a].cfg \in WithCerts => c = res[a].cfg
    BY <1>4 DEF WriteCerts
  <2>2. /\ host'[a].disk = host[a].disk /\ host'[a].running = host[a].running
        /\ res[a].cfg \in WithCerts => host'[a].certs = res[a].cfg
    BY <1>0, <2>1 DEF HostState, TypeOK
  <2>3. pc[a] = "certs" /\ pc'[a] = "apply" /\ UNCHANGED <<mem, origin, res>>
    BY <1>4 DEF WriteCerts, TypeOK
  <2> QED
    BY <2>2, <2>3 DEF LoadsWell, CertsFit, RunsApplied
<1>5. CASE Reject(a) \/ ValidateFails(a)
  BY <1>5, RefuseLoads DEF Reject, ValidateFails
<1>6. CASE Swap(a)
  <2>1. /\ host'[a].disk = [cfg |-> res[a].cfg, glob |-> res[a].glob]
        /\ pc[a] = "apply" /\ pc'[a] = "reload" /\ res' = res
    BY <1>6, SwapEffect DEF Swap, TypeOK
  <2>2. host'[a].certs = host[a].certs /\ host'[a].disk.cfg = res[a].cfg
    BY <1>0, <1>6, <2>1 DEF Swap, TypeOK, HostState
  <2>3. origin'[a].gen = res[a].gen
    BY <1>6 DEF Swap, TypeOK
  <2> QED
    BY <2>1, <2>2, <2>3 DEF LoadsWell, CertsFit, RunsApplied
<1>7. CASE Reload(a)
  <2> DEFINE m == Applied(a, TRUE, "ok")
  <2>1. m.applied = res[a].gen
    BY <1>0 DEF Applied, AgentMem
  <2>2. /\ host'[a].disk = host[a].disk /\ host'[a].certs = host[a].certs
        /\ host'[a].running = host[a].disk
    BY <1>0, <1>7 DEF Reload, HostState, TypeOK
  <2>3. pc[a] = "reload" /\ pc'[a] = "report" /\ mem'[a] = m /\ origin' = origin
    BY <1>7 DEF Reload, Finish, TypeOK
  <2> HIDE DEF m
  <2> QED
    BY <2>1, <2>2, <2>3 DEF LoadsWell, CertsFit, RunsApplied
<1>8. CASE WriteCertsFails(a)
  <2>1. ~CertsFailed(a).healthy
    BY <1>0 DEF CertsFailed, AgentMem
  <2> QED
    BY <1>8, <2>1, FailureLoads DEF WriteCertsFails
<1>9. CASE ApplyFails(a) \/ ReloadFails(a)
  <2>1. ~Applied(a, FALSE, "reload_failed").healthy
    BY <1>0 DEF Applied, AgentMem
  <2> QED
    BY <1>9, <2>1, FailureLoads DEF ApplyFails, ReloadFails
<1>10. CASE Crash(a)
  <2>1. pc'[a] = "idle" /\ mem'[a] = FreshMem(host[a].installed)
    BY <1>10 DEF Crash, TypeOK
  <2>2. mem'[a].etag = None /\ mem'[a].applied = 0
    BY <2>1 DEF FreshMem
  <2> QED
    BY <2>1, <2>2 DEF LoadsWell, CertsFit, RunsApplied
<1> QED
  BY <1>1, <1>2, <1>3, <1>4, <1>5, <1>6, <1>7, <1>8, <1>9, <1>10 DEF AgentStep, FaultStep

LEMMA LoadInit == Init => LoadInv
<1> SUFFICES ASSUME Init, NEW a \in Agents
             PROVE  LoadsWell(pc[a], mem[a], host[a], origin[a], res[a])
  BY DEF LoadInv
<1>1. pc[a] = "idle" /\ mem[a].etag = None /\ mem[a].applied = 0
  BY DEF Init, FreshMem
<1> QED
  BY <1>1 DEF LoadsWell, CertsFit, RunsApplied

LEMMA LoadStep == TypeOK /\ ControlOK /\ LoadInv /\ [Next]_vars => LoadInv'
<1> SUFFICES ASSUME TypeOK, ControlOK, LoadInv, [Next]_vars, NEW a \in Agents
             PROVE  LoadsWell(pc'[a], mem'[a], host'[a], origin'[a], res'[a])
  BY DEF LoadInv
<1>1. LoadsWell(pc[a], mem[a], host[a], origin[a], res[a])
  BY DEF LoadInv
<1>2. CASE Alone(a)
  BY <1>1, <1>2 DEF Alone
<1> QED
  BY <1>1, <1>2, AloneOrOwn, OwnLoads

\* ReloadSeesItsCerts: every time the agent has Vector load the file on disk,
\* after a swap or after an install, the certificate files are that file's own,
\* whatever failed before - but for a restart after an install while an earlier
\* answer is unsettled.
THEOREM CertsCorrect == Spec => []ReloadSeesItsCerts
<1>1. LoadInv => ReloadSeesItsCerts
  <2> SUFFICES ASSUME LoadInv, NEW a \in Agents, LoadsSoon(a), host[a].disk # None,
                      host[a].disk.cfg \in WithCerts
               PROVE  host[a].certs = host[a].disk.cfg \/ (pc[a] # "reload" /\ Unsettled(a))
    BY DEF ReloadSeesItsCerts
  <2>1. CertsFit(pc[a], mem[a], host[a], res[a])
    BY DEF LoadInv, LoadsWell
  <2> QED
    BY <2>1 DEF CertsFit, LoadsSoon, Unsettled
<1> QED
  BY <1>1, LoadInit, LoadStep, TypeCorrect, PTL DEF Spec

\* AppliedIsRunning, whatever fails: what a healthy agent holds as applied is on
\* disk, and Vector runs it.
THEOREM AppliedCorrect == Spec => []AppliedIsRunning
<1>1. LoadInv => AppliedIsRunning
  BY DEF LoadInv, LoadsWell, RunsApplied, AppliedIsRunning
<1> QED
  BY <1>1, LoadInit, LoadStep, TypeCorrect, PTL DEF Spec

-----------------------------------------------------------------------------
(* Installs. *)

\* An install was tried at most once for the desired version, and then the
\* agent knows that it succeeded, or that it failed.
TriedOnce ==
    \A a \in Agents :
        \/ tries[a] = 0
        \/ tries[a] = 1 /\ mem[a].desired \in {None, mem[a].version, mem[a].failed}

\* The agent keeps what it knows about the version it wants.
Remembers(a) ==
    /\ tries'[a] = tries[a]
    /\ mem'[a].desired = mem[a].desired
    /\ mem'[a].version = mem[a].version
    /\ mem'[a].failed = mem[a].failed

\* Or it forgets the tries, or it tries what it had not tried.
Retargets(a) == tries'[a] = 0

TriesNew(a) ==
    /\ MustInstall(a)
    /\ tries'[a] = tries[a] + 1
    /\ mem'[a].desired \in {mem'[a].version, mem'[a].failed}

LEMMA InstallTries ==
    ASSUME TypeOK, NEW a \in Agents, NEW r \in Content \cup {None}, InstallThen(a, r)
    PROVE  TriesNew(a)
<1> DEFINE want == mem[a].desired
           m == [mem[a] EXCEPT !.version = Shown[want],
                               !.failed = IF Shown[want] = want THEN None ELSE want]
<1>1. mem[a] \in AgentMem
  BY DEF TypeOK
<1>2. /\ m.desired = want /\ m.version = Shown[want]
      /\ m.failed = IF Shown[want] = want THEN None ELSE want
  BY <1>1 DEF AgentMem
<1>3. mem'[a] = m /\ tries'[a] = tries[a] + 1 /\ MustInstall(a)
  BY DEF InstallThen, TypeOK
<1> QED
  BY <1>2, <1>3 DEF TriesNew

LEMMA FinishTries ==
    ASSUME TypeOK, NEW a \in Agents, NEW m, Finish(a, m),
           m.desired = mem[a].desired, m.version = mem[a].version, m.failed = mem[a].failed
    PROVE  Remembers(a)
BY DEF Finish, Remembers, TypeOK

LEMMA OwnTries ==
    ASSUME TypeOK, NEW a \in Agents, AgentStep(a) \/ FaultStep(a)
    PROVE  Remembers(a) \/ Retargets(a) \/ TriesNew(a)
<1> USE DEF server
<1>0. mem[a] \in AgentMem /\ host[a] \in HostState
  BY DEF TypeOK
<1>1. CASE PollNotModified(a)
  BY <1>0, <1>1 DEF PollNotModified, Remembers, AgentMem, TypeOK
<1>2. CASE PollChanged(a)
  <2>1. PICK v : /\ mem' = [mem EXCEPT ![a] = [mem[a] EXCEPT !.desired = v]]
                 /\ tries' = [tries EXCEPT ![a] = IF v = mem[a].desired THEN tries[a] ELSE 0]
    BY <1>2 DEF PollChanged
  <2>2. CASE v = mem[a].desired
    BY <1>0, <2>1, <2>2 DEF Remembers, AgentMem, TypeOK
  <2>3. CASE v # mem[a].desired
    BY <2>1, <2>3 DEF Retargets, TypeOK
  <2> QED
    BY <2>2, <2>3
<1>3. CASE SkipInstall(a) \/ SendReport(a) \/ WriteCerts(a) \/ Swap(a)
  BY <1>3 DEF SkipInstall, SendReport, WriteCerts, Swap, Remembers
<1>4. CASE Install(a) \/ InstallReloadFails(a)
  <2>1. host[a].disk \in Content \cup {None} /\ host[a].running \in Content \cup {None}
    BY <1>0 DEF HostState
  <2> QED
    BY <1>4, <2>1, InstallTries DEF Install, InstallReloadFails
<1>5. CASE InstallFails(a)
  <2>1. mem' = [mem EXCEPT ![a] = [mem[a] EXCEPT !.failed = mem[a].desired]]
    BY <1>5 DEF InstallFails
  <2>2. mem'[a].desired = mem'[a].failed
    BY <1>0, <2>1 DEF AgentMem, TypeOK
  <2>3. tries'[a] = tries[a] + 1 /\ MustInstall(a)
    BY <1>5 DEF InstallFails, TypeOK
  <2> QED
    BY <2>2, <2>3 DEF TriesNew
<1>6. CASE Reject(a) \/ ValidateFails(a)
  <2>1. /\ Rejected(a).desired = mem[a].desired /\ Rejected(a).version = mem[a].version
        /\ Rejected(a).failed = mem[a].failed
    BY <1>0 DEF Rejected, AgentMem
  <2> QED
    BY <1>6, <2>1, FinishTries DEF Reject, ValidateFails, Refuse
<1>7. CASE Reload(a) \/ ApplyFails(a) \/ ReloadFails(a)
  <2>1. ASSUME NEW h \in BOOLEAN, NEW s \in ReportStates, Finish(a, Applied(a, h, s))
        PROVE  Remembers(a)
    <3>1. /\ Applied(a, h, s).desired = mem[a].desired
          /\ Applied(a, h, s).version = mem[a].version
          /\ Applied(a, h, s).failed = mem[a].failed
      BY <1>0 DEF Applied, AgentMem
    <3> QED
      BY <2>1, <3>1, FinishTries
  <2> QED
    BY <1>7, <2>1 DEF Reload, ApplyFails, ReloadFails, ReportStates
<1>8. CASE WriteCertsFails(a)
  <2> DEFINE m == CertsFailed(a)
  <2>1. m.desired = mem[a].desired /\ m.version = mem[a].version /\ m.failed = mem[a].failed
    BY <1>0 DEF CertsFailed, AgentMem
  <2>2. Finish(a, m)
    BY <1>8 DEF WriteCertsFails
  <2> HIDE DEF m
  <2> QED
    BY <2>1, <2>2, FinishTries
<1>9. CASE ReportLost(a) \/ ReportTimesOut(a)
  BY <1>9 DEF ReportLost, ReportTimesOut, Remembers
<1>10. CASE Crash(a)
  BY <1>10 DEF Crash, Retargets, TypeOK
<1> QED
  BY <1>1, <1>2, <1>3, <1>4, <1>5, <1>6, <1>7, <1>8, <1>9, <1>10 DEF AgentStep, FaultStep

LEMMA TriesStep == TypeOK /\ TriedOnce /\ [Next]_vars => TriedOnce'
<1> SUFFICES ASSUME TypeOK, TriedOnce, [Next]_vars, NEW a \in Agents
             PROVE  \/ tries'[a] = 0
                    \/ /\ tries'[a] = 1
                       /\ mem'[a].desired \in {None, mem'[a].version, mem'[a].failed}
  BY DEF TriedOnce
<1>1. \/ tries[a] = 0
      \/ tries[a] = 1 /\ mem[a].desired \in {None, mem[a].version, mem[a].failed}
  BY DEF TriedOnce
<1>2. CASE Remembers(a)
  BY <1>1, <1>2 DEF Remembers
<1>3. CASE Retargets(a)
  BY <1>3 DEF Retargets
<1>4. CASE TriesNew(a)
  <2>1. tries[a] = 0
    BY <1>1, <1>4 DEF TriesNew, MustInstall
  <2> QED
    BY <1>4, <2>1 DEF TriesNew
<1>5. CASE Alone(a)
  BY <1>2, <1>5 DEF Alone, Remembers
<1> QED
  BY <1>2, <1>3, <1>4, <1>5, AloneOrOwn, OwnTries

\* AtMostOneTry: the install command runs once per desired version and agent
\* process, whether it succeeds, fails, or installs something else.
THEOREM TriesCorrect == Spec => []AtMostOneTry
<1>1. Init => TriedOnce
  BY DEF Init, TriedOnce
<1>2. TriedOnce => AtMostOneTry
  <2> SUFFICES ASSUME TriedOnce, NEW a \in Agents PROVE tries[a] =< 1
    BY DEF AtMostOneTry
  <2>1. tries[a] = 0 \/ tries[a] = 1
    BY DEF TriedOnce
  <2> QED
    BY <2>1
<1> QED
  BY <1>1, <1>2, TriesStep, TypeCorrect, PTL DEF Spec

-----------------------------------------------------------------------------
(* What "healthy" says. *)

\* No generation claimed for a - by its row, by the agent or by a report on
\* its way - is above g.
Covers(a, g) ==
    /\ row[a].applied =< g
    /\ mem[a].applied =< g
    /\ \A m \in late[a] : m.applied =< g

\* Vector on a's host runs generation g of the fleet.
RunsGen(a, g) ==
    g > 0 => /\ host[a].running # None
             /\ \A f \in Fleets : /\ g \in 1 .. Len(published[f])
                                  /\ host[a].running.cfg = published[f][g]

RunningInv == \A a \in Agents : \E g \in Nat : Covers(a, g) /\ RunsGen(a, g)

\* Vector keeps running what it ran, and the agent claims nothing new; or it
\* runs the file on disk.
RunStep(a) ==
    \/ host'[a].running = host'[a].disk
    \/ host'[a].running = host[a].running /\ mem'[a].applied \in {mem[a].applied, 0}

LEMMA OwnRuns ==
    ASSUME TypeOK, ControlOK, "preSwap" \notin Faults, "reload" \notin Faults,
           NEW a \in Agents, AgentStep(a) \/ FaultStep(a)
    PROVE  RunStep(a)
<1> USE DEF server, RunStep
<1>0. mem[a] \in AgentMem /\ host[a] \in HostState
  BY DEF TypeOK
<1>1. CASE PollNotModified(a)
  BY <1>0, <1>1 DEF PollNotModified, AgentMem, TypeOK
<1>2. CASE PollChanged(a)
  BY <1>0, <1>2 DEF PollChanged, AgentMem, TypeOK
<1>3. CASE SkipInstall(a) \/ SendReport(a) \/ ReportLost(a) \/ ReportTimesOut(a)
  <2>1. UNCHANGED <<mem, host>>
    BY <1>3 DEF SkipInstall, SendReport, ReportLost, ReportTimesOut
  <2> QED
    BY <2>1
<1>4. CASE Install(a)
  <2>1. host' = [host EXCEPT ![a] = [[host[a] EXCEPT !.installed = mem[a].desired]
                                       EXCEPT !.running = host[a].disk]]
    BY <1>4 DEF Install, InstallThen
  <2> QED
    BY <1>0, <2>1 DEF HostState, TypeOK
<1>5. CASE InstallFails(a)
  BY <1>0, <1>5 DEF InstallFails, AgentMem, TypeOK
<1>6. CASE WriteCerts(a)
  <2>1. PICK c : host' = [host EXCEPT ![a] = [host[a] EXCEPT !.certs = c]]
    BY <1>6 DEF WriteCerts
  <2>2. host'[a].running = host[a].running
    BY <1>0, <2>1 DEF HostState, TypeOK
  <2> QED
    BY <1>6, <2>2 DEF WriteCerts
<1>7. CASE Reject(a) \/ ValidateFails(a)
  <2>1. Rejected(a).applied = mem[a].applied
    BY <1>0 DEF Rejected, AgentMem
  <2> QED
    BY <1>7, <2>1 DEF Reject, ValidateFails, Refuse, Finish, TypeOK
<1>8. CASE Swap(a)
  <2>1. PICK d : host' = [host EXCEPT ![a] = [host[a] EXCEPT !.disk = d]]
    BY <1>8 DEF Swap
  <2>2. host'[a].running = host[a].running
    BY <1>0, <2>1 DEF HostState, TypeOK
  <2> QED
    BY <1>8, <2>2 DEF Swap
<1>9. CASE Reload(a)
  BY <1>0, <1>9 DEF Reload, HostState, TypeOK
<1>10. CASE WriteCertsFails(a)
  <2>1. CertsFailed(a).applied = mem[a].applied
    BY <1>0 DEF CertsFailed, AgentMem
  <2>2. PICK c : host' = [host EXCEPT ![a] = [host[a] EXCEPT !.certs = c]]
    BY <1>10 DEF WriteCertsFails
  <2>3. host'[a].running = host[a].running
    BY <1>0, <2>2 DEF HostState, TypeOK
  <2> QED
    BY <1>10, <2>1, <2>3 DEF WriteCertsFails, Finish, TypeOK
<1>11. CASE Crash(a)
  <2>1. FreshMem(host[a].installed).applied = 0
    BY DEF FreshMem
  <2>2. host' = host \/ host' = [host EXCEPT ![a] = [host[a] EXCEPT !.certs = "torn"]]
    BY <1>11 DEF Crash
  <2>3. host'[a].running = host[a].running
    BY <1>0, <2>2 DEF HostState, TypeOK
  <2> QED
    BY <1>11, <2>1, <2>3 DEF Crash, TypeOK
<1>12. ~InstallReloadFails(a) /\ ~ApplyFails(a) /\ ~ReloadFails(a)
  BY DEF InstallReloadFails, ApplyFails, ReloadFails, Fault
<1> QED
  BY <1>1, <1>2, <1>3, <1>4, <1>5, <1>6, <1>7, <1>8, <1>9, <1>10, <1>11, <1>12
     DEF AgentStep, FaultStep

LEMMA RunSteps ==
    ASSUME TypeOK, ControlOK, "preSwap" \notin Faults, "reload" \notin Faults,
           [Next]_vars, NEW a \in Agents
    PROVE  RunStep(a)
<1>1. CASE Alone(a)
  BY <1>1 DEF Alone, RunStep
<1> QED
  BY <1>1, AloneOrOwn, OwnRuns

\* What a fleet published stays published.
LEMMA HistoryKept ==
    ASSUME TypeOK, [Next]_vars, NEW f \in Fleets, NEW i \in 1 .. Len(published[f])
    PROVE  i \in 1 .. Len(published'[f]) /\ published'[f][i] = published[f][i]
<1>1. CASE UNCHANGED published
  BY <1>1
<1>2. ASSUME NEW g \in Fleets, Deploy(g)
      PROVE  i \in 1 .. Len(published'[f]) /\ published'[f][i] = published[f][i]
  BY <1>2, DeployAppends
<1>3. UNCHANGED published \/ \E g \in Fleets : Deploy(g)
  BY StepKinds DEF Quiet, PollChanged, Swap, server
<1> QED
  BY <1>1, <1>2, <1>3

\* In one fleet, the file on disk is generation origin.gen of the fleet.
DiskIsGen ==
    \A a \in Agents : origin[a].gen > 0 =>
        /\ host[a].disk # None
        /\ \A f \in Fleets : /\ origin[a].gen \in 1 .. Len(published[f])
                             /\ host[a].disk.cfg = published[f][origin[a].gen]

LEMMA DiskGen == HistoryInv /\ SingleFleet => DiskIsGen
<1> SUFFICES ASSUME HistoryInv, SingleFleet, NEW a \in Agents, origin[a].gen > 0
             PROVE  /\ host[a].disk # None
                    /\ \A f \in Fleets : /\ origin[a].gen \in 1 .. Len(published[f])
                                         /\ host[a].disk.cfg = published[f][origin[a].gen]
  BY DEF DiskIsGen
<1>1. host[a].disk # None
  BY DEF HistoryInv, NothingYet
<1>2. /\ origin[a].fleet \in Fleets
      /\ origin[a].gen \in 1 .. Len(published[origin[a].fleet])
      /\ host[a].disk.cfg = published[origin[a].fleet][origin[a].gen]
  BY <1>1 DEF HistoryInv, DiskIsPublished
<1> QED
  BY <1>1, <1>2 DEF SingleFleet

LEMMA RunningStep ==
    ASSUME "preSwap" \notin Faults, "reload" \notin Faults, SingleFleet,
           TypeOK, ControlOK, HistoryInv, RunningInv, [Next]_vars,
           TypeOK', DiskIsGen', ReportsNeverAhead'
    PROVE  RunningInv'
<1> SUFFICES ASSUME NEW a \in Agents
             PROVE  \E g \in Nat : Covers(a, g)' /\ RunsGen(a, g)'
  BY DEF RunningInv
<1>1. CASE host'[a].running = host'[a].disk
  <2>0. PICK g : g = origin'[a].gen
    OBVIOUS
  <2>1. g \in Nat
    BY <2>0 DEF TypeOK, Origin
  <2>2. Covers(a, g)'
    BY <2>0 DEF Covers, ReportsNeverAhead
  <2>3. g > 0 => /\ host'[a].disk # None
                 /\ \A f \in Fleets : /\ g \in 1 .. Len(published'[f])
                                      /\ host'[a].disk.cfg = published'[f][g]
    BY <2>0 DEF DiskIsGen
  <2>4. RunsGen(a, g)'
    BY <1>1, <2>3 DEF RunsGen
  <2> QED
    BY <2>1, <2>2, <2>4
<1>2. CASE host'[a].running = host[a].running /\ mem'[a].applied \in {mem[a].applied, 0}
  <2>1. PICK g \in Nat : Covers(a, g) /\ RunsGen(a, g)
    BY DEF RunningInv
  <2>2. Covers(a, g)'
    <3>1. row'[a].applied =< g
      BY <2>1, StepClaims DEF ClaimStep, Covers
    <3>2. mem'[a].applied =< g
      BY <1>2, <2>1 DEF Covers
    <3>3. \A m \in late'[a] : m.applied =< g
      BY <2>1, StepClaims DEF ClaimStep, Covers
    <3> QED
      BY <3>1, <3>2, <3>3 DEF Covers
  <2>3. RunsGen(a, g)'
    <3> SUFFICES ASSUME g > 0
                 PROVE  /\ host'[a].running # None
                        /\ \A f \in Fleets : /\ g \in 1 .. Len(published'[f])
                                             /\ host'[a].running.cfg = published'[f][g]
      BY DEF RunsGen
    <3>1. /\ host[a].running # None
          /\ \A f \in Fleets : /\ g \in 1 .. Len(published[f])
                               /\ host[a].running.cfg = published[f][g]
      BY <2>1 DEF RunsGen
    <3> QED
      BY <1>2, <3>1, HistoryKept
  <2> QED
    BY <2>2, <2>3
<1> QED
  BY <1>1, <1>2, RunSteps DEF RunStep

\* Nothing is claimed beyond what runs: so a generation shown as the fleet's
\* own is the one that runs.
LEMMA HealthyRuns == TypeOK /\ HistoryInv /\ RunningInv => HealthyIsRunning
<1> SUFFICES ASSUME TypeOK, HistoryInv, RunningInv, NEW a \in Agents,
                    Status(a) = "healthy", member[a] # None, fleet[member[a]].gen > 0
             PROVE  /\ host[a].running # None
                    /\ host[a].running.cfg = fleet[member[a]].snap
  BY DEF HealthyIsRunning
<1> DEFINE f == member[a]
<1>1. f \in Fleets /\ fleet[f] \in FleetRow /\ row[a] \in InstanceRow
  BY DEF TypeOK
<1>2. ~Behind(a)
  BY DEF Status
<1>3. fleet[f].gen \in Nat /\ Len(published[f]) = fleet[f].gen
  BY <1>1 DEF FleetRow, HistoryInv, HistoryOK
<1>4. row[a].applied \in Int /\ row[a].applied >= fleet[f].gen
  BY <1>1, <1>2, <1>3 DEF Behind, InstanceRow
<1>5. PICK g \in Nat : Covers(a, g) /\ RunsGen(a, g)
  BY DEF RunningInv
<1>6. g >= fleet[f].gen /\ g > 0
  BY <1>3, <1>4, <1>5 DEF Covers
<1>7. /\ host[a].running # None /\ g \in 1 .. Len(published[f])
      /\ host[a].running.cfg = published[f][g]
  BY <1>1, <1>5, <1>6 DEF RunsGen
<1>8. g = fleet[f].gen
  BY <1>3, <1>6, <1>7
<1> QED
  BY <1>1, <1>7, <1>8 DEF HistoryInv, HistoryOK

\* HealthyIsRunning: what the page shows as healthy runs what was deployed,
\* whatever reports are lost, late or out of order and wherever agents crash (in
\* one fleet, and when neither the swap nor the reload fails).
THEOREM HealthyCorrect == Spec => []HealthyIsRunning
<1> DEFINE Spared == "preSwap" \notin Faults /\ "reload" \notin Faults /\ SingleFleet
<1>1. CASE Spared
  <2>1. Init => RunningInv
    <3> SUFFICES ASSUME Init, NEW a \in Agents
                 PROVE  Covers(a, 0) /\ RunsGen(a, 0)
      BY DEF RunningInv
    <3> QED
      BY DEF Init, Covers, RunsGen, FreshMem
  <2>2. HistoryInv => DiskIsGen
    BY <1>1, DiskGen
  <2>3. /\ TypeOK /\ ControlOK /\ HistoryInv /\ RunningInv /\ [Next]_vars
        /\ TypeOK' /\ DiskIsGen' /\ ReportsNeverAhead'
        => RunningInv'
    BY <1>1, RunningStep
  <2> QED
    BY <2>1, <2>2, <2>3, HealthyRuns, TypeCorrect, HistoryCorrect, ReportsCorrect, PTL DEF Spec
<1>2. CASE ~Spared
  <2>1. HealthyIsRunning
    BY <1>2 DEF HealthyIsRunning
  <2> QED
    BY <2>1, PTL
<1> QED
  BY <1>1, <1>2
-----------------------------------------------------------------------------
(* What the ETag of an agent stands for. *)

\* What the agent makes of a version it is told.
Wanted(v) == IF v \in SemVer THEN v ELSE None

NothingToInstall(a, m) == a \in Installers => m.desired \in {None, m.version, m.failed}

\* An agent with memory m outside of the work on an answer: what its ETag
\* covers is done, or its Vector rejects it (or could not be asked), or the agent
\* counts as unhealthy.
ETagHolds(m, h, o) ==
    m.etag # None /\ m.healthy =>
        /\ \/ m.etag.cfg \notin Accepts[h.installed] \/ "validate" \in Faults
           \/ /\ h.disk = [cfg |-> m.etag.cfg, glob |-> m.etag.glob]
              /\ m.applied = o.gen
        /\ m.desired = Wanted(m.etag.ver)

\* The same at step p of a cycle that works on the answer r: an install is only
\* left to do right after the answer came, so a 304 finds none.
KeepsUp(a, p, m, h, o, r) ==
    /\ m.version = Shown[h.installed]
    /\ p # "update" => NothingToInstall(a, m)
    /\ p \in {"update", "certs", "apply", "reload"} => m.desired = Wanted(r.ver)
    /\ p = "reload" => h.disk = [cfg |-> r.cfg, glob |-> r.glob] /\ o.gen = r.gen
    /\ p \in {"idle", "heartbeat", "report"} => ETagHolds(m, h, o)

ETagInv == \A a \in Agents : KeepsUp(a, pc[a], mem[a], host[a], origin[a], res[a])

LEMMA ETagInit == Init => ETagInv
<1> SUFFICES ASSUME Init, NEW a \in Agents
             PROVE  KeepsUp(a, pc[a], mem[a], host[a], origin[a], res[a])
  BY DEF ETagInv
<1>1. pc[a] = "idle" /\ mem[a] = FreshMem(InitVersion) /\ host[a].installed = InitVersion
  BY DEF Init
<1> QED
  BY <1>1 DEF KeepsUp, NothingToInstall, ETagHolds, FreshMem

LEMMA InstallKeepsUp ==
    ASSUME TypeOK, NEW a \in Agents, NEW r, InstallThen(a, r),
           KeepsUp(a, pc[a], mem[a], host[a], origin[a], res[a])
    PROVE  KeepsUp(a, pc'[a], mem'[a], host'[a], origin'[a], res'[a])
<1> DEFINE want == mem[a].desired
           m == [mem[a] EXCEPT !.version = Shown[want],
                               !.failed = IF Shown[want] = want THEN None ELSE want]
           h == [host[a] EXCEPT !.installed = want, !.running = r]
<1>1. mem[a] \in AgentMem /\ host[a] \in HostState
  BY DEF TypeOK
<1>2. /\ m.desired = want /\ m.version = Shown[want]
      /\ m.failed = IF Shown[want] = want THEN None ELSE want
  BY <1>1 DEF AgentMem
<1>3. h.installed = want
  BY <1>1 DEF HostState
<1>4. mem'[a] = m /\ host'[a] = h /\ UNCHANGED <<origin, res>>
  BY DEF InstallThen, TypeOK
<1>5. pc[a] = "update" /\ pc'[a] = "certs"
  <2>1. MustInstall(a) /\ pc[a] \in {"heartbeat", "update"}
    BY DEF InstallThen
  <2>2. pc[a] # "heartbeat"
    BY <2>1 DEF MustInstall, KeepsUp, NothingToInstall
  <2> QED
    BY <2>1, <2>2 DEF InstallThen, AfterReconcile, TypeOK
<1>6. want = Wanted(res[a].ver)
  BY <1>5 DEF KeepsUp
<1>7. m.desired \in {m.version, m.failed}
  BY <1>2
<1> HIDE DEF m, h, want
<1>8. KeepsUp(a, "certs", m, h, origin[a], res[a])
  BY <1>2, <1>3, <1>6, <1>7 DEF KeepsUp, NothingToInstall
<1> QED
  BY <1>4, <1>5, <1>8

\* The end of a cycle with an answer.
LEMMA FinishKeepsUp ==
    ASSUME TypeOK, NEW a \in Agents, NEW m, Finish(a, m),
           m.version = Shown[host'[a].installed], NothingToInstall(a, m),
           ETagHolds(m, host'[a], origin[a])
    PROVE  KeepsUp(a, pc'[a], mem'[a], host'[a], origin'[a], res'[a])
<1>1. pc'[a] = "report" /\ mem'[a] = m /\ origin' = origin
  BY DEF Finish, TypeOK
<1> QED
  BY <1>1 DEF KeepsUp

LEMMA AppliedKeepsUp ==
    ASSUME TypeOK, NEW a \in Agents, NEW healthy \in BOOLEAN, NEW status,
           Finish(a, Applied(a, healthy, status)), pc[a] \in {"apply", "reload"},
           healthy => pc[a] = "reload", host'[a].disk = host[a].disk,
           host'[a].installed = host[a].installed,
           KeepsUp(a, pc[a], mem[a], host[a], origin[a], res[a])
    PROVE  KeepsUp(a, pc'[a], mem'[a], host'[a], origin'[a], res'[a])
<1> DEFINE m == Applied(a, healthy, status)
<1>1. mem[a] \in AgentMem
  BY DEF TypeOK
<1>2. /\ m.version = mem[a].version /\ m.desired = mem[a].desired /\ m.failed = mem[a].failed
      /\ m.etag = AnswerETag(a) /\ m.applied = res[a].gen /\ m.healthy = healthy
  BY <1>1 DEF Applied, AgentMem
<1>3. Finish(a, m)
  OBVIOUS
<1> HIDE DEF m
<1>4. m.version = Shown[host'[a].installed] /\ NothingToInstall(a, m)
  BY <1>2 DEF KeepsUp, NothingToInstall
<1>5. m.desired = Wanted(res[a].ver)
  BY <1>2 DEF KeepsUp
<1>6. /\ AnswerETag(a).cfg = res[a].cfg /\ AnswerETag(a).glob = res[a].glob
      /\ AnswerETag(a).ver = res[a].ver
  BY DEF AnswerETag, ETagOf
<1>7. ASSUME m.healthy
      PROVE  host'[a].disk = [cfg |-> m.etag.cfg, glob |-> m.etag.glob] /\ m.applied = origin[a].gen
  BY <1>2, <1>6, <1>7 DEF KeepsUp
<1>8. ETagHolds(m, host'[a], origin[a])
  BY <1>2, <1>5, <1>6, <1>7 DEF ETagHolds
<1> QED
  BY <1>3, <1>4, <1>8, FinishKeepsUp

LEMMA OwnKeepsUp ==
    ASSUME TypeOK, NEW a \in Agents, AgentStep(a) \/ FaultStep(a),
           KeepsUp(a, pc[a], mem[a], host[a], origin[a], res[a])
    PROVE  KeepsUp(a, pc'[a], mem'[a], host'[a], origin'[a], res'[a])
<1> USE DEF server
<1>0. mem[a] \in AgentMem /\ host[a] \in HostState
  BY DEF TypeOK
<1>1. CASE PollNotModified(a)
  <2> DEFINE m == [mem[a] EXCEPT !.status = "ok"]
  <2>1. /\ m.version = mem[a].version /\ m.desired = mem[a].desired /\ m.failed = mem[a].failed
        /\ m.etag = mem[a].etag /\ m.applied = mem[a].applied /\ m.healthy = mem[a].healthy
    BY <1>0 DEF AgentMem
  <2>2. /\ pc[a] = "idle" /\ pc'[a] = "heartbeat" /\ mem'[a] = m
        /\ UNCHANGED <<host, origin, res>>
    BY <1>1 DEF PollNotModified, TypeOK
  <2> HIDE DEF m
  <2> QED
    BY <2>1, <2>2 DEF KeepsUp, NothingToInstall, ETagHolds
<1>2. CASE PollChanged(a)
  <2> DEFINE v == IF Effective(member[a]) \in SemVer THEN Effective(member[a]) ELSE None
             m == [mem[a] EXCEPT !.desired = v]
  <2>1. m.version = mem[a].version /\ m.desired = v
    BY <1>0 DEF AgentMem
  <2>2. /\ pc'[a] = "update" /\ mem'[a] = m /\ host' = host
        /\ res'[a].ver = Effective(member[a])
    BY <1>2 DEF PollChanged, TypeOK
  <2>3. v = Wanted(res'[a].ver)
    BY <2>2 DEF Wanted
  <2> HIDE DEF m, v
  <2> QED
    BY <2>1, <2>2, <2>3 DEF KeepsUp
<1>3. CASE SkipInstall(a)
  <2>1. /\ UNCHANGED <<mem, host, origin, res>> /\ ~MustInstall(a)
        /\ \/ pc[a] = "heartbeat" /\ pc'[a] = "report"
           \/ pc[a] = "update" /\ pc'[a] = "certs"
    BY <1>3 DEF SkipInstall, AfterReconcile, TypeOK
  <2>2. NothingToInstall(a, mem[a])
    BY <2>1 DEF MustInstall, NothingToInstall
  <2> QED
    BY <2>1, <2>2 DEF KeepsUp
<1>4. CASE Install(a) \/ InstallReloadFails(a)
  BY <1>4, InstallKeepsUp DEF Install, InstallReloadFails
<1>5. CASE InstallFails(a)
  <2> DEFINE m == [mem[a] EXCEPT !.failed = mem[a].desired]
  <2>1. m.version = mem[a].version /\ m.desired = mem[a].desired /\ m.failed = mem[a].desired
    BY <1>0 DEF AgentMem
  <2>2. mem'[a] = m /\ UNCHANGED <<host, origin, res>> /\ MustInstall(a)
    BY <1>5 DEF InstallFails, TypeOK
  <2>3. pc[a] = "update" /\ pc'[a] = "certs"
    <3>1. pc[a] # "heartbeat"
      BY <2>2 DEF MustInstall, KeepsUp, NothingToInstall
    <3> QED
      BY <1>5, <3>1 DEF InstallFails, AfterReconcile, TypeOK
  <2> HIDE DEF m
  <2> QED
    BY <2>1, <2>2, <2>3 DEF KeepsUp, NothingToInstall
<1>6. CASE WriteCerts(a)
  <2>1. PICK c : host' = [host EXCEPT ![a] = [host[a] EXCEPT !.certs = c]]
    BY <1>6 DEF WriteCerts
  <2>2. host'[a].installed = host[a].installed
    BY <1>0, <2>1 DEF HostState, TypeOK
  <2>3. pc[a] = "certs" /\ pc'[a] = "apply" /\ UNCHANGED <<mem, origin, res>>
    BY <1>6 DEF WriteCerts, TypeOK
  <2> QED
    BY <2>2, <2>3 DEF KeepsUp
<1>7. CASE WriteCertsFails(a)
  <2> DEFINE m == CertsFailed(a)
  <2>1. PICK c : host' = [host EXCEPT ![a] = [host[a] EXCEPT !.certs = c]]
    BY <1>7 DEF WriteCertsFails
  <2>2. host'[a].installed = host[a].installed
    BY <1>0, <2>1 DEF HostState, TypeOK
  <2>3. /\ m.version = mem[a].version /\ m.desired = mem[a].desired /\ m.failed = mem[a].failed
        /\ ~m.healthy
    BY <1>0 DEF CertsFailed, AgentMem
  <2>4. Finish(a, m) /\ pc[a] = "certs"
    BY <1>7 DEF WriteCertsFails
  <2> HIDE DEF m
  <2>5. m.version = Shown[host'[a].installed] /\ NothingToInstall(a, m)
    BY <2>2, <2>3, <2>4 DEF KeepsUp, NothingToInstall
  <2>6. ETagHolds(m, host'[a], origin[a])
    BY <2>3 DEF ETagHolds
  <2> QED
    BY <2>4, <2>5, <2>6, FinishKeepsUp
<1>8. CASE Reject(a) \/ ValidateFails(a)
  <2>1. /\ Rejected(a).version = mem[a].version /\ Rejected(a).desired = mem[a].desired
        /\ Rejected(a).failed = mem[a].failed /\ Rejected(a).etag = AnswerETag(a)
    BY <1>0 DEF Rejected, AgentMem
  <2>2. /\ Finish(a, Rejected(a)) /\ pc[a] = "apply" /\ host' = host
        /\ res[a].cfg \notin Accepts[host[a].installed] \/ "validate" \in Faults
    BY <1>8 DEF Reject, ValidateFails, Refuse, Fault
  <2>3. AnswerETag(a).cfg = res[a].cfg /\ AnswerETag(a).ver = res[a].ver
    BY DEF AnswerETag, ETagOf
  <2>4. Rejected(a).version = Shown[host'[a].installed] /\ NothingToInstall(a, Rejected(a))
    BY <2>1, <2>2 DEF KeepsUp, NothingToInstall
  <2>5. ETagHolds(Rejected(a), host'[a], origin[a])
    BY <2>1, <2>2, <2>3 DEF KeepsUp, ETagHolds
  <2> QED
    BY <2>2, <2>4, <2>5, FinishKeepsUp
<1>9. CASE Swap(a)
  <2> DEFINE c == [cfg |-> res[a].cfg, glob |-> res[a].glob]
  <2>1. host'[a] = [host[a] EXCEPT !.disk = c]
    BY <1>9 DEF Swap, TypeOK
  <2>2. host'[a].disk = c /\ host'[a].installed = host[a].installed
    BY <1>0, <2>1 DEF HostState
  <2>3. /\ pc[a] = "apply" /\ pc'[a] = "reload" /\ UNCHANGED <<mem, res>>
        /\ origin'[a].gen = res[a].gen
    BY <1>9 DEF Swap, TypeOK
  <2> QED
    BY <2>2, <2>3 DEF KeepsUp
<1>10. CASE Reload(a)
  <2>1. host'[a] = [host[a] EXCEPT !.running = host[a].disk]
    BY <1>10 DEF Reload, TypeOK
  <2>2. host'[a].disk = host[a].disk /\ host'[a].installed = host[a].installed
    BY <1>0, <2>1 DEF HostState
  <2> QED
    BY <1>10, <2>2, AppliedKeepsUp DEF Reload
<1>11. CASE ApplyFails(a) \/ ReloadFails(a)
  <2>1. Finish(a, Applied(a, FALSE, "reload_failed")) /\ pc[a] \in {"apply", "reload"} /\ host' = host
    BY <1>11 DEF ApplyFails, ReloadFails
  <2> QED
    BY <2>1, AppliedKeepsUp
<1>12. CASE SendReport(a) \/ ReportLost(a) \/ ReportTimesOut(a)
  <2>1. pc[a] = "report" /\ pc'[a] = "idle" /\ UNCHANGED <<mem, host, origin, res>>
    BY <1>12 DEF SendReport, ReportLost, ReportTimesOut, TypeOK
  <2> QED
    BY <2>1 DEF KeepsUp
<1>13. CASE Crash(a)
  <2>1. host'[a].installed = host[a].installed
    <3>1. CASE host' = host
      BY <3>1
    <3>2. CASE host' = [host EXCEPT ![a] = [host[a] EXCEPT !.certs = "torn"]]
      BY <1>0, <3>2 DEF HostState, TypeOK
    <3> QED
      BY <1>13, <3>1, <3>2 DEF Crash
  <2>2. pc'[a] = "idle" /\ mem'[a] = FreshMem(host[a].installed)
    BY <1>13 DEF Crash, TypeOK
  <2> QED
    BY <2>1, <2>2 DEF KeepsUp, NothingToInstall, ETagHolds, FreshMem
<1> QED
  BY <1>1, <1>2, <1>3, <1>4, <1>5, <1>6, <1>7, <1>8, <1>9, <1>10, <1>11, <1>12, <1>13
     DEF AgentStep, FaultStep

LEMMA ETagStep == TypeOK /\ ETagInv /\ [Next]_vars => ETagInv'
<1> SUFFICES ASSUME TypeOK, ETagInv, [Next]_vars, NEW a \in Agents
             PROVE  KeepsUp(a, pc'[a], mem'[a], host'[a], origin'[a], res'[a])
  BY DEF ETagInv
<1>1. KeepsUp(a, pc[a], mem[a], host[a], origin[a], res[a])
  BY DEF ETagInv
<1> QED
  BY <1>1, AloneOrOwn, OwnKeepsUp DEF Alone

\* NotModifiedIsConverged, whatever fails: an agent cut off by a 304 has what
\* was deployed, or its Vector rejects it, or it knows that it is not healthy.
THEOREM NotModifiedCorrect == Spec => []NotModifiedIsConverged
<1>1. TypeOK /\ ETagInv => NotModifiedIsConverged
  <2> SUFFICES ASSUME TypeOK, ETagInv, NEW a \in Agents,
                      pc[a] = "idle", Reachable(a), Unchanged(a), mem[a].healthy
               PROVE  /\ ("validate" \notin Faults /\ Acceptable(a)) =>
                           /\ host[a].disk = [cfg |-> fleet[member[a]].snap, glob |-> globals[a]]
                           /\ mem[a].applied = origin[a].gen
                      /\ (a \in Installers /\ Effective(member[a]) \in SemVer) =>
                           Effective(member[a]) \in {Shown[host[a].installed], mem[a].failed}
    BY DEF NotModifiedIsConverged
  <2> DEFINE f == member[a]
             e == ETagOf(fleet[f].snap, globals[a], Effective(f))
  <2>1. mem[a].etag = e
    BY DEF Unchanged, Reachable, Served
  <2>2. e.cfg = fleet[f].snap /\ e.glob = globals[a] /\ e.ver = Effective(f)
    BY DEF ETagOf
  <2>3. e \in ETag
    <3>1. f \in Fleets /\ fleet[f] \in FleetRow /\ globals[a] \in Globals
      BY DEF TypeOK, Reachable
    <3>2. fleet[f].snap \in Configs
      BY <3>1 DEF FleetRow, Reachable, Servable
    <3> QED
      BY <3>1, <3>2, EffectiveType DEF ETagOf, ETag
  <2>4. e # None
    BY <2>3, ConstantsAssumption
  <2>5. KeepsUp(a, pc[a], mem[a], host[a], origin[a], res[a])
    BY DEF ETagInv
  <2> HIDE DEF e
  <2>6. /\ \/ fleet[f].snap \notin Accepts[host[a].installed] \/ "validate" \in Faults
           \/ /\ host[a].disk = [cfg |-> fleet[f].snap, glob |-> globals[a]]
              /\ mem[a].applied = origin[a].gen
        /\ mem[a].desired = Wanted(Effective(f))
    BY <2>1, <2>2, <2>4, <2>5 DEF KeepsUp, ETagHolds
  <2>7. ASSUME a \in Installers, Effective(f) \in SemVer
        PROVE  Effective(f) \in {Shown[host[a].installed], mem[a].failed}
    <3>1. mem[a].desired = Effective(f) /\ Effective(f) # None
      BY <2>6, <2>7, ConstantsAssumption DEF Wanted
    <3> QED
      BY <2>5, <2>7, <3>1 DEF KeepsUp, NothingToInstall
  <2> QED
    BY <2>6, <2>7 DEF Acceptable
<1> QED
  BY <1>1, ETagInit, ETagStep, TypeCorrect, PTL DEF Spec

\* An install is only ever started right after a poll that brought a new
\* answer: whatever reconcileVersion finds on a 304 (agent.go, cycle) has been
\* installed already, or has failed and is remembered.
THEOREM InstallsFollowAnswers ==
    Spec => [][\A a \in Agents : Install(a) \/ InstallFails(a) \/ InstallReloadFails(a)
                                 => pc[a] = "update"]_vars
<1>1. ASSUME ETagInv, NEW a \in Agents, Install(a) \/ InstallFails(a) \/ InstallReloadFails(a)
      PROVE  pc[a] = "update"
  <2>1. MustInstall(a)
    BY <1>1 DEF Install, InstallFails, InstallReloadFails, InstallThen
  <2>2. KeepsUp(a, pc[a], mem[a], host[a], origin[a], res[a])
    BY <1>1 DEF ETagInv
  <2> QED
    BY <2>1, <2>2 DEF MustInstall, KeepsUp, NothingToInstall
<1>2. ETagInv /\ [Next]_vars
      => [\A a \in Agents : Install(a) \/ InstallFails(a) \/ InstallReloadFails(a)
                            => pc[a] = "update"]_vars
  BY <1>1
<1> QED
  BY <1>2, ETagInit, ETagStep, TypeCorrect, PTL DEF Spec
-----------------------------------------------------------------------------
(* A cycle on a current answer is enough. *)

Current(a) == ETagOf(Served(member[a]), globals[a], Effective(member[a]))

\* The agent has the ETag of what it would be served, or works on that answer.
CaughtUp(a) ==
    Reachable(a) =>
        Current(a) = IF pc[a] \in {"update", "certs", "apply", "reload"} THEN AnswerETag(a)
                     ELSE mem[a].etag

\* Nothing that an answer is made of changes.
ServerQuiet == UNCHANGED <<fleet, globalPin, member, globals>>

LEMMA QuietCurrent ==
    ASSUME ServerQuiet, NEW a \in Agents
    PROVE  (Reachable(a)' <=> Reachable(a)) /\ Current(a)' = Current(a)
BY DEF ServerQuiet, Reachable, Servable, Current, ETagOf, Served, Effective

LEMMA FinishCatchesUp ==
    ASSUME TypeOK, ServerQuiet, NEW a \in Agents, NEW m, Finish(a, m), CaughtUp(a),
           pc[a] \in {"apply", "reload"}, m.etag = AnswerETag(a)
    PROVE  CaughtUp(a)'
<1>1. pc'[a] = "report" /\ mem'[a] = m
  BY DEF Finish, TypeOK
<1>2. Reachable(a)' => Current(a)' = mem'[a].etag
  BY <1>1, QuietCurrent DEF CaughtUp
<1> QED
  BY <1>1, <1>2 DEF CaughtUp

LEMMA OwnCaughtUp ==
    ASSUME TypeOK, ServerQuiet, NEW a \in Agents, CaughtUp(a), AgentStep(a) \/ FaultStep(a),
           ~Crash(a), ~WriteCertsFails(a)
    PROVE  CaughtUp(a)'
<1>0. mem[a] \in AgentMem
  BY DEF TypeOK
<1> DEFINE Works(p) == p \in {"update", "certs", "apply", "reload"}
           Kept == Works(pc[a]) = Works(pc'[a]) /\ mem'[a].etag = mem[a].etag /\ res'[a] = res[a]
<1>1. CASE Kept
  <2>1. AnswerETag(a)' = AnswerETag(a)
    BY <1>1 DEF AnswerETag, ETagOf
  <2> QED
    BY <1>1, <2>1, QuietCurrent DEF CaughtUp
<1>2. CASE PollNotModified(a)
  <2>1. mem'[a].etag = mem[a].etag
    BY <1>0, <1>2 DEF PollNotModified, AgentMem, TypeOK
  <2> QED
    BY <1>1, <1>2, <2>1 DEF PollNotModified, TypeOK
<1>3. CASE PollChanged(a)
  <2>1. Reachable(a) /\ mem[a].etag # Current(a) /\ pc[a] = "idle"
    BY <1>3 DEF PollChanged, Unchanged, Reachable, Current
  <2> QED
    BY <2>1 DEF CaughtUp
<1>4. CASE SkipInstall(a) \/ WriteCerts(a) \/ Swap(a) \/ SendReport(a)
  BY <1>1, <1>4 DEF SkipInstall, AfterReconcile, WriteCerts, Swap, SendReport, TypeOK
<1>5. CASE Install(a) \/ InstallReloadFails(a)
  <2>1. PICK r : InstallThen(a, r)
    BY <1>5 DEF Install, InstallReloadFails
  <2>2. mem'[a].etag = mem[a].etag
    BY <1>0, <2>1 DEF InstallThen, AgentMem, TypeOK
  <2> QED
    BY <1>1, <2>1, <2>2 DEF InstallThen, AfterReconcile, TypeOK
<1>6. CASE InstallFails(a)
  <2>1. mem'[a].etag = mem[a].etag
    BY <1>0, <1>6 DEF InstallFails, AgentMem, TypeOK
  <2> QED
    BY <1>1, <1>6, <2>1 DEF InstallFails, AfterReconcile, TypeOK
<1>7. CASE Reject(a) \/ ValidateFails(a)
  <2>1. Rejected(a).etag = AnswerETag(a)
    BY <1>0 DEF Rejected, AgentMem
  <2> QED
    BY <1>7, <2>1, FinishCatchesUp DEF Reject, ValidateFails, Refuse
<1>8. CASE Reload(a) \/ ApplyFails(a) \/ ReloadFails(a)
  <2>1. /\ Applied(a, TRUE, "ok").etag = AnswerETag(a)
        /\ Applied(a, FALSE, "reload_failed").etag = AnswerETag(a)
    BY <1>0 DEF Applied, AgentMem
  <2> QED
    BY <1>8, <2>1, FinishCatchesUp DEF Reload, ApplyFails, ReloadFails
<1>9. CASE ReportLost(a) \/ ReportTimesOut(a)
  BY <1>1, <1>9 DEF ReportLost, ReportTimesOut, TypeOK
<1> QED
  BY <1>2, <1>3, <1>4, <1>5, <1>6, <1>7, <1>8, <1>9 DEF AgentStep, FaultStep

\* A poll that brings an answer lets the agent catch up with the server, and it
\* stays so through rejections, failed installs, failed reloads and lost
\* reports until the server changes: only a restart and a failed write of
\* certificate files (which cache no ETag, agent.go) make it poll again.
\* With NotModifiedIsConverged: one cycle that works on the last answer is
\* enough for a host to converge.
THEOREM PollsCatchUp ==
    Spec => [][\A a \in Agents :
                 /\ PollChanged(a) => CaughtUp(a)'
                 /\ CaughtUp(a) /\ ServerQuiet /\ ~Crash(a) /\ ~WriteCertsFails(a)
                    => CaughtUp(a)']_vars
<1>1. ASSUME TypeOK, [Next]_vars, NEW a \in Agents, PollChanged(a)
      PROVE  CaughtUp(a)'
  <2>1. /\ pc'[a] = "update" /\ UNCHANGED server
        /\ res'[a].cfg = Served(member[a]) /\ res'[a].glob = globals[a]
        /\ res'[a].ver = Effective(member[a])
    BY <1>1 DEF PollChanged, TypeOK
  <2>2. ServerQuiet
    BY <2>1 DEF ServerQuiet, server
  <2>3. AnswerETag(a)' = Current(a)
    BY <2>1 DEF AnswerETag, ETagOf, Current
  <2> QED
    BY <2>1, <2>2, <2>3, QuietCurrent DEF CaughtUp
<1>2. ASSUME TypeOK, [Next]_vars, NEW a \in Agents, CaughtUp(a), ServerQuiet,
             ~Crash(a), ~WriteCertsFails(a)
      PROVE  CaughtUp(a)'
  <2>1. CASE Alone(a)
    <3>1. AnswerETag(a)' = AnswerETag(a)
      BY <2>1 DEF Alone, AnswerETag, ETagOf
    <3> QED
      BY <1>2, <2>1, <3>1, QuietCurrent DEF Alone, CaughtUp
  <2> QED
    BY <1>2, <2>1, AloneOrOwn, OwnCaughtUp
<1>3. TypeOK /\ [Next]_vars
      => [\A a \in Agents :
            /\ PollChanged(a) => CaughtUp(a)'
            /\ CaughtUp(a) /\ ServerQuiet /\ ~Crash(a) /\ ~WriteCertsFails(a)
               => CaughtUp(a)']_vars
  BY <1>1, <1>2
<1> QED
  BY <1>3, TypeCorrect, PTL DEF Spec
=============================================================================
