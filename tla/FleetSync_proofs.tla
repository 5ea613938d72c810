--------------------------- MODULE FleetSync_proofs ---------------------------
(***************************************************************************)
(* Proofs about FleetSync, for any number of agents, fleets and configs.   *)
(***************************************************************************)
EXTENDS FleetSync, TLAPS

\* A new agent process knows nothing but the version it reads.
LEMMA FreshMemType ==
    ASSUME NEW v \in MaybeVersion
    PROVE  FreshMem(v) \in AgentMem
BY ConstantsAssumption DEF FreshMem, AgentMem, MaybeVersion, ReportStates

LEMMA InitType == Init => TypeOK
<1> SUFFICES ASSUME Init PROVE TypeOK
  OBVIOUS
<1>1. mem \in [Agents -> AgentMem]
  BY FreshMemType, ConstantsAssumption DEF Init
<1>2. fleet \in [Fleets -> FleetRow]
  BY DEF Init, FleetRow, MaybeVersion
<1>3. row \in [Agents -> InstanceRow]
  BY DEF Init, InstanceRow, MaybeVersion
<1>4. host \in [Agents -> HostState]
  BY ConstantsAssumption DEF Init, HostState
<1>5. origin \in [Agents -> Origin]
  BY DEF Init, Origin
<1>6. published \in [Fleets -> Seq(Configs)]
  BY DEF Init
<1>7. pc \in [Agents -> Steps] /\ tries \in [Agents -> Nat] /\ ops \in Nat /\ faults \in Nat
  BY DEF Init, Steps
<1>8. /\ res \in [Agents -> Answer \cup {None}]
      /\ late \in [Agents -> SUBSET Report]
      /\ globalPin \in MaybeVersion
      /\ member \in [Agents -> Fleets \cup {None}]
  BY DEF Init, MaybeVersion
<1> QED
  BY <1>1, <1>2, <1>3, <1>4, <1>5, <1>6, <1>7, <1>8 DEF Init, TypeOK

\* Operators change the control plane only.
LEMMA OperatorType == TypeOK /\ OperatorStep => TypeOK'
<1> SUFFICES ASSUME TypeOK, OperatorStep PROVE TypeOK'
  OBVIOUS
<1>1. ASSUME NEW f \in Fleets, Deploy(f) PROVE TypeOK'
  <2>1. fleet[f] \in FleetRow /\ draft[f] \in Configs
    BY DEF TypeOK
  <2>2. fleet[f].gen + 1 \in Nat
    BY <2>1 DEF FleetRow
  <2>3. [fleet[f] EXCEPT !.snap = draft[f], !.gen = fleet[f].gen + 1,
                         !.readable = TRUE] \in FleetRow
    BY <2>1, <2>2 DEF FleetRow
  <2>4. fleet' \in [Fleets -> FleetRow]
    BY <1>1, <2>3 DEF Deploy, TypeOK
  <2>5. published' \in [Fleets -> Seq(Configs)]
    BY <1>1, <2>1 DEF Deploy, TypeOK
  <2> QED
    BY <1>1, <2>4, <2>5 DEF TypeOK, Deploy
<1>2. ASSUME NEW f \in Fleets, NEW c \in Configs, Edit(f, c) PROVE TypeOK'
  BY <1>2 DEF TypeOK, Edit
<1>3. ASSUME NEW f \in Fleets, NEW v \in MaybeVersion, PinVersion(f, v) PROVE TypeOK'
  <2>1. fleet[f] \in FleetRow
    BY DEF TypeOK
  <2>2. [fleet[f] EXCEPT !.pin = v] \in FleetRow
    BY <2>1 DEF FleetRow
  <2> QED
    BY <1>3, <2>2 DEF TypeOK, PinVersion, Operate
<1>4. ASSUME NEW f \in Fleets, NEW a \in Agents, Join(a, f) PROVE TypeOK'
  BY <1>4 DEF TypeOK, Join, Operate
<1>5. ASSUME NEW v \in MaybeVersion, SetGlobalVersion(v) PROVE TypeOK'
  BY <1>5 DEF TypeOK, SetGlobalVersion, Operate
<1>6. ASSUME NEW a \in Agents, Leave(a) PROVE TypeOK'
  BY <1>6 DEF TypeOK, Leave, Operate
<1>7. ASSUME NEW a \in Agents, NEW g \in Globals, SetGlobals(a, g) PROVE TypeOK'
  BY <1>7 DEF TypeOK, SetGlobals, Operate
<1>8. ASSUME RotateKey PROVE TypeOK'
  <2>1. ASSUME NEW f \in Fleets
        PROVE  [fleet[f] EXCEPT !.readable = (fleet[f].snap = None)] \in FleetRow
    <3>1. fleet[f] \in FleetRow
      BY DEF TypeOK
    <3> QED
      BY <3>1 DEF FleetRow
  <2>2. fleet' \in [Fleets -> FleetRow]
    BY <1>8, <2>1 DEF RotateKey
  <2> QED
    BY <1>8, <2>2 DEF TypeOK, RotateKey, Operate
<1> QED
  BY <1>1, <1>2, <1>3, <1>4, <1>5, <1>6, <1>7, <1>8 DEF OperatorStep

\* What an agent works on keeps its type, one record at a time.
LEMMA MessageType ==
    ASSUME TypeOK, NEW a \in Agents
    PROVE  Message(a) \in Report
<1>1. mem[a] \in AgentMem
  BY DEF TypeOK
<1> QED
  BY <1>1 DEF Message, AgentMem, Report

LEMMA ReceivedType ==
    ASSUME TypeOK, NEW a \in Agents, NEW m \in Report, Received(a, m)
    PROVE  row' \in [Agents -> InstanceRow]
<1>1. row[a] \in InstanceRow /\ row \in [Agents -> InstanceRow]
  BY DEF TypeOK
<1>2. [applied |-> m.applied, status |-> m.status, fresh |-> TRUE,
       version |-> IF m.version # None THEN m.version ELSE row[a].version] \in InstanceRow
  BY <1>1 DEF InstanceRow, Report, ReportStates
<1> QED
  BY <1>1, <1>2 DEF Received

LEMMA AnswerETagType ==
    ASSUME NEW a \in Agents, res[a] \in Answer
    PROVE  AnswerETag(a) \in ETag
BY DEF AnswerETag, ETagOf, ETag, Answer

LEMMA AppliedType ==
    ASSUME NEW a \in Agents, mem[a] \in AgentMem, res[a] \in Answer,
           NEW h \in BOOLEAN, NEW s \in ReportStates
    PROVE  Applied(a, h, s) \in AgentMem
<1>1. AnswerETag(a) \in ETag
  BY AnswerETagType
<1>2. res[a].gen \in Nat
  BY DEF Answer
<1> QED
  BY <1>1, <1>2 DEF Applied, AgentMem

LEMMA FinishType ==
    ASSUME TypeOK, NEW a \in Agents, NEW m \in AgentMem, Finish(a, m),
           host' \in [Agents -> HostState], faults' \in Nat
    PROVE  TypeOK'
<1>1. /\ mem' \in [Agents -> AgentMem]
      /\ pc' \in [Agents -> Steps]
      /\ res' \in [Agents -> Answer \cup {None}]
  BY DEF TypeOK, Finish, Steps
<1> QED
  BY <1>1 DEF TypeOK, Finish, server

LEMMA RefuseType ==
    ASSUME TypeOK, ControlOK, NEW a \in Agents, Refuse(a), faults' \in Nat
    PROVE  TypeOK'
<1>1. mem[a] \in AgentMem /\ res[a] \in Answer
  BY DEF TypeOK, ControlOK, Refuse
<1>2. AnswerETag(a) \in ETag
  BY <1>1, AnswerETagType
<1>3. Rejected(a) \in AgentMem
  BY <1>1, <1>2 DEF Rejected, AgentMem, ReportStates
<1>4. host' \in [Agents -> HostState]
  BY DEF Refuse, TypeOK
<1> QED
  BY <1>3, <1>4, FinishType DEF Refuse

LEMMA InstallType ==
    ASSUME TypeOK, NEW a \in Agents, NEW r \in Content \cup {None},
           InstallThen(a, r), faults' \in Nat
    PROVE  TypeOK'
<1>0. mem[a] \in AgentMem /\ host[a] \in HostState
  BY DEF TypeOK
<1>1. mem[a].desired \in MaybeVersion
  BY <1>0 DEF AgentMem
<1>2. Shown[mem[a].desired] \in MaybeVersion /\ None \in MaybeVersion
  BY <1>1, ConstantsAssumption DEF MaybeVersion
<1>3. [mem[a] EXCEPT !.version = Shown[mem[a].desired],
                     !.failed = IF Shown[mem[a].desired] = mem[a].desired
                                THEN None ELSE mem[a].desired] \in AgentMem
  BY <1>0, <1>1, <1>2 DEF AgentMem
<1>4. [host[a] EXCEPT !.installed = mem[a].desired, !.running = r] \in HostState
  BY <1>0, <1>1 DEF HostState
<1>5. mem' \in [Agents -> AgentMem] /\ host' \in [Agents -> HostState]
  BY <1>3, <1>4 DEF InstallThen, TypeOK
<1>6. tries' \in [Agents -> Nat] /\ pc' \in [Agents -> Steps]
  BY DEF InstallThen, TypeOK, AfterReconcile, Steps
<1> QED
  BY <1>5, <1>6 DEF InstallThen, TypeOK, server

LEMMA EffectiveType ==
    ASSUME TypeOK, NEW f \in Fleets \cup {None}
    PROVE  Effective(f) \in MaybeVersion
<1>1. f # None => fleet[f] \in FleetRow
  BY DEF TypeOK
<1> QED
  BY <1>1 DEF Effective, FleetRow, TypeOK

\* A poll that found something new carries a complete answer.
LEMMA PollAnswerType ==
    ASSUME TypeOK, NEW a \in Agents, PollChanged(a)
    PROVE  /\ res'[a] \in Answer
           /\ res' \in [Agents -> Answer \cup {None}]
<1> DEFINE f == member[a]
           r == [fleet |-> f, gen |-> fleet[f].gen, cfg |-> Served(f),
                 glob |-> globals[a], ver |-> Effective(f)]
<1>1. f \in Fleets /\ fleet[f] \in FleetRow /\ globals[a] \in Globals
  BY DEF TypeOK, PollChanged
<1>2. Effective(f) \in MaybeVersion
  BY <1>1, EffectiveType
<1>3. Served(f) \in Configs
  BY <1>1 DEF PollChanged, Unchanged, Servable, Served, FleetRow
<1>4. r \in Answer
  BY <1>1, <1>2, <1>3 DEF Answer, FleetRow
<1>5. res' = [res EXCEPT ![a] = r] /\ res \in [Agents -> Answer \cup {None}]
  BY DEF PollChanged, TypeOK
<1> HIDE DEF r
<1> QED
  BY <1>4, <1>5

LEMMA AgentType ==
    ASSUME TypeOK, ControlOK, NEW a \in Agents, AgentStep(a)
    PROVE  TypeOK'
<1> USE DEF server
<1>0. /\ mem[a] \in AgentMem /\ host[a] \in HostState /\ row[a] \in InstanceRow
      /\ pc[a] \in {"certs", "apply", "reload"} => res[a] \in Answer
  BY DEF TypeOK, ControlOK
<1>1. CASE PollNotModified(a)
  <2>1. [mem[a] EXCEPT !.status = "ok"] \in AgentMem
    BY <1>0 DEF AgentMem, ReportStates
  <2> QED
    BY <1>1, <2>1 DEF TypeOK, PollNotModified, Steps
<1>2. CASE PollChanged(a)
  <2> DEFINE f == member[a]
             v == IF Effective(f) \in SemVer THEN Effective(f) ELSE None
  <2>1. f \in Fleets /\ Effective(f) \in MaybeVersion /\ None \in MaybeVersion
    BY <1>2, EffectiveType DEF TypeOK, PollChanged, MaybeVersion
  <2>5. [mem[a] EXCEPT !.desired = v] \in AgentMem
    BY <1>0, <2>1 DEF AgentMem
  <2>6. /\ res' \in [Agents -> Answer \cup {None}]
        /\ mem' \in [Agents -> AgentMem]
    BY <1>2, <2>5, PollAnswerType DEF PollChanged, TypeOK
  <2>7. tries' \in [Agents -> Nat] /\ pc' \in [Agents -> Steps]
    BY <1>2 DEF PollChanged, TypeOK, Steps
  <2> QED
    BY <1>2, <2>6, <2>7 DEF PollChanged, TypeOK
<1>3. CASE SkipInstall(a)
  BY <1>3 DEF TypeOK, SkipInstall, AfterReconcile, Steps
<1>4. CASE Install(a)
  <2>1. host[a].disk \in Content \cup {None} /\ faults' \in Nat
    BY <1>0, <1>4 DEF HostState, Install, TypeOK
  <2> QED
    BY <1>4, <2>1, InstallType DEF Install
<1>5. CASE WriteCerts(a)
  <2>1. res[a].cfg \in Configs
    BY <1>0, <1>5 DEF WriteCerts, Answer
  <2>2. [host[a] EXCEPT !.certs = IF res[a].cfg \in WithCerts THEN res[a].cfg
                                  ELSE host[a].certs] \in HostState
    BY <1>0, <2>1 DEF HostState
  <2>3. host' \in [Agents -> HostState]
    BY <1>5, <2>2 DEF WriteCerts, TypeOK
  <2> QED
    BY <1>5, <2>3 DEF WriteCerts, TypeOK, Steps
<1>6. CASE Reject(a)
  BY <1>6, RefuseType DEF Reject, TypeOK
<1>7. CASE Swap(a)
  <2>1. res[a] \in Answer
    BY <1>0, <1>7 DEF Swap
  <2>2. [host[a] EXCEPT !.disk = [cfg |-> res[a].cfg, glob |-> res[a].glob]] \in HostState
    BY <1>0, <2>1 DEF HostState, Content, Answer
  <2>3. [fleet |-> res[a].fleet, gen |-> res[a].gen] \in Origin
    BY <2>1 DEF Origin, Answer
  <2>4. /\ host' \in [Agents -> HostState] /\ origin' \in [Agents -> Origin]
        /\ pc' \in [Agents -> Steps]
    BY <1>7, <2>2, <2>3 DEF Swap, TypeOK, Steps
  <2> QED
    BY <1>7, <2>4 DEF Swap, TypeOK
<1>8. CASE Reload(a)
  <2>1. Applied(a, TRUE, "ok") \in AgentMem
    BY <1>0, <1>8, AppliedType DEF Reload, ReportStates
  <2>2. [host[a] EXCEPT !.running = host[a].disk] \in HostState
    BY <1>0 DEF HostState
  <2>3. host' \in [Agents -> HostState] /\ faults' \in Nat
    BY <1>8, <2>2 DEF Reload, TypeOK
  <2> QED
    BY <1>8, <2>1, <2>3, FinishType DEF Reload
<1>9. CASE SendReport(a)
  <2>1. row' \in [Agents -> InstanceRow]
    BY <1>9, MessageType, ReceivedType DEF SendReport
  <2> QED
    BY <1>9, <2>1 DEF SendReport, TypeOK, Steps
<1> QED
  BY <1>1, <1>2, <1>3, <1>4, <1>5, <1>6, <1>7, <1>8, <1>9 DEF AgentStep

LEMMA FaultType ==
    ASSUME TypeOK, ControlOK, NEW a \in Agents, FaultStep(a)
    PROVE  TypeOK'
<1> USE DEF server
<1>0. /\ mem[a] \in AgentMem /\ host[a] \in HostState
      /\ pc[a] \in {"certs", "apply", "reload"} => res[a] \in Answer
  BY DEF TypeOK, ControlOK
<1>f. faults' \in Nat
  <2>1. \E kind \in FaultKinds : Fault(kind)
    BY ConstantsAssumption
       DEF FaultStep, InstallFails, InstallReloadFails, WriteCertsFails, ValidateFails,
           ApplyFails, ReloadFails, ReportLost, ReportTimesOut, Crash, FaultKinds
  <2>2. faults \in Nat
    BY DEF TypeOK
  <2> QED
    BY <2>1, <2>2 DEF Fault
<1>1. CASE InstallFails(a)
  <2>1. [mem[a] EXCEPT !.failed = mem[a].desired] \in AgentMem
    BY <1>0 DEF AgentMem
  <2>2. /\ mem' \in [Agents -> AgentMem] /\ tries' \in [Agents -> Nat]
        /\ pc' \in [Agents -> Steps]
    BY <1>1, <2>1 DEF InstallFails, TypeOK, AfterReconcile, Steps
  <2> QED
    BY <1>1, <1>f, <2>2 DEF InstallFails, TypeOK
<1>2. CASE InstallReloadFails(a)
  <2>1. host[a].running \in Content \cup {None}
    BY <1>0 DEF HostState
  <2> QED
    BY <1>2, <1>f, <2>1, InstallType DEF InstallReloadFails
<1>3. CASE WriteCertsFails(a)
  <2>1. CertsFailed(a) \in AgentMem
    BY <1>0 DEF CertsFailed, AgentMem, ReportStates
  <2>2. \A c \in {host[a].certs, "torn"} : [host[a] EXCEPT !.certs = c] \in HostState
    BY <1>0 DEF HostState
  <2>3. host' \in [Agents -> HostState]
    BY <1>3, <2>2 DEF WriteCertsFails, TypeOK
  <2> QED
    BY <1>3, <1>f, <2>1, <2>3, FinishType DEF WriteCertsFails
<1>4. CASE ApplyFails(a)
  <2>1. Applied(a, FALSE, "reload_failed") \in AgentMem
    BY <1>0, <1>4, AppliedType DEF ApplyFails, ReportStates
  <2>2. host' \in [Agents -> HostState]
    BY <1>4 DEF ApplyFails, TypeOK
  <2> QED
    BY <1>4, <1>f, <2>1, <2>2, FinishType DEF ApplyFails
<1>5. CASE ReloadFails(a)
  <2>1. Applied(a, FALSE, "reload_failed") \in AgentMem
    BY <1>0, <1>5, AppliedType DEF ReloadFails, ReportStates
  <2>2. host' \in [Agents -> HostState]
    BY <1>5 DEF ReloadFails, TypeOK
  <2> QED
    BY <1>5, <1>f, <2>1, <2>2, FinishType DEF ReloadFails
<1>6. CASE ReportLost(a)
  BY <1>6, <1>f DEF ReportLost, TypeOK, Steps
<1>7. CASE ReportTimesOut(a)
  <2>1. late' \in [Agents -> SUBSET Report]
    BY <1>7, MessageType DEF ReportTimesOut, TypeOK
  <2> QED
    BY <1>7, <1>f, <2>1 DEF ReportTimesOut, TypeOK, Steps
<1>8. CASE Crash(a)
  <2>1. FreshMem(host[a].installed) \in AgentMem
    BY <1>0, FreshMemType DEF HostState
  <2>2. mem' \in [Agents -> AgentMem] /\ res' \in [Agents -> Answer \cup {None}]
    BY <1>8, <2>1 DEF Crash, TypeOK
  <2>3. tries' \in [Agents -> Nat] /\ pc' \in [Agents -> Steps]
    BY <1>8 DEF Crash, TypeOK, Steps
  <2>4. [host[a] EXCEPT !.certs = "torn"] \in HostState
    BY <1>0 DEF HostState
  <2>5. host' \in [Agents -> HostState]
    BY <1>8, <2>4 DEF Crash, TypeOK
  <2> QED
    BY <1>8, <1>f, <2>2, <2>3, <2>5 DEF Crash, TypeOK
<1>9. CASE ValidateFails(a)
  BY <1>9, <1>f, RefuseType DEF ValidateFails
<1> QED
  BY <1>1, <1>2, <1>3, <1>4, <1>5, <1>6, <1>7, <1>8, <1>9 DEF FaultStep

LEMMA NetworkType ==
    ASSUME TypeOK, NEW a \in Agents, NetworkStep(a) \/ GoStale(a)
    PROVE  TypeOK'
<1> USE DEF server
<1>1. ASSUME NEW m \in late[a], DeliverLate(a, m) PROVE TypeOK'
  <2>1. m \in Report
    BY DEF TypeOK
  <2>2. row' \in [Agents -> InstanceRow]
    BY <1>1, <2>1, ReceivedType DEF DeliverLate
  <2>3. late' \in [Agents -> SUBSET Report]
    BY <1>1 DEF DeliverLate, TypeOK
  <2> QED
    BY <1>1, <2>2, <2>3 DEF DeliverLate, TypeOK
<1>2. CASE GoStale(a)
  <2>1. row[a] \in InstanceRow
    BY DEF TypeOK
  <2>2. [row[a] EXCEPT !.fresh = FALSE] \in InstanceRow
    BY <2>1 DEF InstanceRow
  <2> QED
    BY <1>2, <2>2 DEF GoStale, TypeOK
<1> QED
  BY <1>1, <1>2 DEF NetworkStep

\* No step leaves a cycle without the answer it works on.
LEMMA ControlStep == TypeOK /\ ControlOK /\ [Next]_vars => ControlOK'
<1> SUFFICES ASSUME TypeOK, ControlOK, [Next]_vars PROVE ControlOK'
  OBVIOUS
<1> USE DEF ControlOK, server
<1>1. CASE OperatorStep
  <2>1. UNCHANGED <<pc, res>>
    BY <1>1 DEF OperatorStep, Deploy, Edit, PinVersion, SetGlobalVersion, SetGlobals,
                Join, Leave, RotateKey, Operate
  <2> QED
    BY <2>1
<1>2. ASSUME NEW a \in Agents, AgentStep(a) PROVE ControlOK'
  <2>1. CASE PollChanged(a)
    <3>1. res'[a] # None
      BY <2>1, PollAnswerType, ConstantsAssumption
    <3> QED
      BY <2>1, <3>1 DEF PollChanged, TypeOK
  <2>2. CASE PollNotModified(a) \/ SkipInstall(a) \/ Install(a) \/ WriteCerts(a)
             \/ Swap(a) \/ SendReport(a)
    BY <2>2 DEF PollNotModified, SkipInstall, Install, InstallThen, WriteCerts, Swap,
                SendReport, AfterReconcile, TypeOK
  <2>3. CASE Reject(a) \/ Reload(a)
    BY <2>3 DEF Reject, Refuse, Reload, Finish, TypeOK
  <2> QED
    BY <1>2, <2>1, <2>2, <2>3 DEF AgentStep
<1>3. ASSUME NEW a \in Agents, NetworkStep(a) \/ GoStale(a) PROVE ControlOK'
  BY <1>3 DEF NetworkStep, DeliverLate, GoStale
<1>4. ASSUME NEW a \in Agents, FaultStep(a) PROVE ControlOK'
  <2>1. CASE InstallFails(a) \/ InstallReloadFails(a) \/ ReportLost(a) \/ ReportTimesOut(a)
    BY <2>1 DEF InstallFails, InstallReloadFails, InstallThen, ReportLost, ReportTimesOut,
                AfterReconcile, TypeOK
  <2>2. CASE \/ WriteCertsFails(a) \/ ValidateFails(a) \/ ApplyFails(a) \/ ReloadFails(a)
             \/ Crash(a)
    BY <2>2 DEF WriteCertsFails, ValidateFails, Refuse, ApplyFails, ReloadFails, Crash, Finish, TypeOK
  <2> QED
    BY <1>4, <2>1, <2>2 DEF FaultStep
<1>5. CASE UNCHANGED vars
  BY <1>5 DEF vars
<1> QED
  BY <1>1, <1>2, <1>3, <1>4, <1>5 DEF Next

LEMMA TypeStep == TypeOK /\ ControlOK /\ [Next]_vars => TypeOK'
<1> SUFFICES ASSUME TypeOK, ControlOK, [Next]_vars PROVE TypeOK'
  OBVIOUS
<1>1. CASE UNCHANGED vars
  BY <1>1 DEF vars, TypeOK
<1> QED
  BY <1>1, OperatorType, AgentType, NetworkType, FaultType DEF Next

\* Every variable keeps its type, whatever operators, agents and failures do.
THEOREM TypeCorrect == Spec => [](TypeOK /\ ControlOK)
<1>1. Init => ControlOK
  BY DEF Init, ControlOK
<1> QED
  BY <1>1, InitType, ControlStep, TypeStep, PTL DEF Spec

=============================================================================
