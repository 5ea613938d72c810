------------------------------ MODULE FleetSync ------------------------------
(***************************************************************************)
(* The publish-and-converge loop of VortexFlow: an operator deploys a      *)
(* fleet's configuration on the control plane (api/v1/fleets.py), each     *)
(* agent polls it (api/v1/agent.py), brings Vector to the desired version, *)
(* writes certificate files, validates, swaps and reloads (agent/agent.go, *)
(* agent/vector.go) and reports back; the control plane derives a status   *)
(* for the operator (services/fleet_view.py).                              *)
(*                                                                         *)
(* A configuration is a value; what depends on its text (does `vector      *)
(* validate` accept it, does it carry certificate files) is given by       *)
(* constants.  A poll is served in one transaction; the agent's work on    *)
(* the answer is split where a crash or a server step can fall in between. *)
(***************************************************************************)
EXTENDS Integers, Sequences

CONSTANTS
    Agents,          \* agent-mode instances, each with its host
    Fleets,
    Configs,         \* what a fleet's topology renders to, cert files included
    Globals,         \* per-host settings merged in when a config is served
    Versions,        \* Vector version strings an operator can ask for
    None,            \* "" and NULL: no fleet, no config, no version, ...
    SemVer,          \* the versions the agent takes as strict semver
    Shown,           \* Shown[v]: what `vector --version` parses to once v is installed
    Accepts,         \* Accepts[v]: the configs `vector validate` of version v accepts
    Blocked,         \* configs whose render has blocking errors (bind collisions)
    ServerVerdict,   \* ServerVerdict[c]: "valid", "invalid" or "unavailable"
    WithCerts,       \* configs that carry certificate files
    Installers,      \* agents with a VECTOR_INSTALL_CMD
    InitVersion,     \* the Vector version hosts start with
    Faults,          \* the kinds of failure that may happen
    MaxGen,          \* bound: deploys per fleet
    MaxOps,          \* bound: operator actions other than edits and deploys
    MaxFaults        \* bound: failures

FaultKinds == {"certWrite", "validate", "preSwap", "reload", "install", "crash",
               "loseReport", "lateReport"}

MaybeVersion == Versions \cup {None}
Verdicts == {"valid", "invalid", "unavailable"}

\* What the variables hold.
Content == [cfg : Configs, glob : Globals]
ETag == [cfg : Configs, glob : Globals, ver : MaybeVersion]
Answer == [fleet : Fleets, gen : Nat, cfg : Configs, glob : Globals, ver : MaybeVersion]
ReportStates == {"ok", "validate_failed", "reload_failed"}
Report == [applied : Nat, healthy : BOOLEAN, status : ReportStates, version : MaybeVersion]
FleetRow == [gen : Nat, snap : Configs \cup {None}, readable : BOOLEAN, pin : MaybeVersion]
InstanceRow == [applied : Nat \cup {-1}, status : ReportStates \cup {None},
                version : MaybeVersion, fresh : BOOLEAN]
Steps == {"idle", "heartbeat", "update", "certs", "apply", "reload", "report"}
AgentMem == [etag : ETag \cup {None}, applied : Nat, healthy : BOOLEAN,
             version : MaybeVersion, desired : MaybeVersion, failed : MaybeVersion,
             status : ReportStates]
HostState == [disk : Content \cup {None}, running : Content \cup {None},
              certs : Configs \cup {None, "torn"}, installed : MaybeVersion]
Origin == [fleet : Fleets \cup {None}, gen : Nat]

ASSUME ConstantsAssumption ==
    /\ None \notin Fleets \cup Configs \cup Globals \cup Versions
    /\ None \notin Content /\ None \notin Answer /\ None \notin ETag
    /\ "torn" \notin Configs
    /\ SemVer \subseteq Versions
    /\ Shown \in [MaybeVersion -> MaybeVersion]
    /\ Accepts \in [MaybeVersion -> SUBSET Configs]
    /\ Blocked \subseteq Configs
    /\ ServerVerdict \in [Configs -> Verdicts]
    /\ WithCerts \subseteq Configs
    /\ Installers \subseteq Agents
    /\ InitVersion \in MaybeVersion
    /\ Faults \subseteq FaultKinds
    /\ MaxGen \in Nat /\ MaxOps \in Nat /\ MaxFaults \in Nat

VARIABLES
    \* control plane (database)
    draft,       \* draft[f]: what f's topology renders to right now
    fleet,       \* fleet[f]: [gen, snap, readable, pin]
    globalPin,   \* general.desired_vector_version
    member,      \* member[a]: the instance's fleet_id
    globals,     \* globals[a]: data_dir, expire_metrics_secs
    row,         \* row[a]: what the agent last reported, and whether lately
    late,        \* late[a]: reports the agent gave up on, still being delivered
    \* agent process
    pc,          \* where the cycle is
    mem,         \* the Agent struct, and the status it is about to report
    res,         \* the 200 answer being worked on
    \* host
    host,        \* [disk, running, certs, installed]
    \* history
    published,   \* published[f]: the snapshots f deployed, in order
    origin,      \* origin[a]: the deploy that the file on disk came from
    tries,       \* tries[a]: installs since the desired version last changed
    \* bounds
    ops, faults

server == <<draft, fleet, globalPin, member, globals, published, ops>>
vars == <<draft, fleet, globalPin, member, globals, row, late, pc, mem, res,
          host, published, origin, tries, ops, faults>>

TypeOK ==
    /\ draft \in [Fleets -> Configs]
    /\ fleet \in [Fleets -> FleetRow]
    /\ globalPin \in MaybeVersion
    /\ member \in [Agents -> Fleets \cup {None}]
    /\ globals \in [Agents -> Globals]
    /\ row \in [Agents -> InstanceRow]
    /\ late \in [Agents -> SUBSET Report]
    /\ pc \in [Agents -> Steps]
    /\ mem \in [Agents -> AgentMem]
    /\ res \in [Agents -> Answer \cup {None}]
    /\ host \in [Agents -> HostState]
    /\ published \in [Fleets -> Seq(Configs)]
    /\ origin \in [Agents -> Origin]
    /\ tries \in [Agents -> Nat]
    /\ ops \in Nat /\ faults \in Nat

\* While the cycle works on a 200 it holds the answer.
ControlOK == \A a \in Agents : pc[a] \in {"update", "certs", "apply", "reload"} => res[a] # None

-----------------------------------------------------------------------------
\* Mutated: "nothing applied yet" is -1.
FreshMemUnapplied(v) ==
    [etag |-> None, applied |-> -1, healthy |-> TRUE, version |-> Shown[v],
     desired |-> None, failed |-> None, status |-> "ok"]

\* NewAgent, and the version Run reads before its first cycle.
FreshMem(v) ==
    [etag |-> None, applied |-> 0, healthy |-> TRUE, version |-> Shown[v],
     desired |-> None, failed |-> None, status |-> "ok"]

Init ==
    /\ draft \in [Fleets -> Configs]
    /\ fleet = [f \in Fleets |-> [gen |-> 0, snap |-> None, readable |-> TRUE, pin |-> None]]
    /\ globalPin = None
    /\ member \in [Agents -> Fleets]
    /\ globals \in [Agents -> Globals]
    /\ row = [a \in Agents |-> [applied |-> -1, status |-> None, version |-> None,
                                fresh |-> FALSE]]
    /\ late = [a \in Agents |-> {}]
    /\ pc = [a \in Agents |-> "idle"]
    /\ mem = [a \in Agents |-> FreshMem(InitVersion)]
    /\ res = [a \in Agents |-> None]
    /\ host = [a \in Agents |-> [disk |-> None, running |-> None, certs |-> None,
                                 installed |-> InitVersion]]
    /\ published = [f \in Fleets |-> <<>>]
    /\ origin = [a \in Agents |-> [fleet |-> None, gen |-> 0]]
    /\ tries = [a \in Agents |-> 0]
    /\ ops = 0 /\ faults = 0

-----------------------------------------------------------------------------
(* The control plane: operators. *)

\* A fleet's own pin wins over the global default.
Effective(f) == IF f # None /\ fleet[f].pin # None THEN fleet[f].pin ELSE globalPin

\* Somebody edits the topology; nothing is published.
Edit(f, c) ==
    /\ c # draft[f]
    /\ draft' = [draft EXCEPT ![f] = c]
    /\ UNCHANGED <<fleet, globalPin, member, globals, row, late, pc, mem, res, host,
                   published, origin, tries, ops, faults>>

\* deploy_fleet: refuse a blocked or invalid render, else publish the snapshot
\* under the next generation.  "unavailable" passes: no member is in local mode.
Deploy(f) ==
    /\ fleet[f].gen < MaxGen
    /\ draft[f] \notin Blocked
    /\ ServerVerdict[draft[f]] # "invalid"
    /\ fleet' = [fleet EXCEPT ![f] = [@ EXCEPT !.snap = draft[f], !.gen = fleet[f].gen + 1,
                                               !.readable = TRUE]]
    /\ published' = [published EXCEPT ![f] = Append(@, draft[f])]
    /\ UNCHANGED <<draft, globalPin, member, globals, row, late, pc, mem, res, host,
                   origin, tries, ops, faults>>

Operate ==
    /\ ops < MaxOps
    /\ ops' = ops + 1
    /\ UNCHANGED <<draft, row, late, pc, mem, res, host, published, origin, tries, faults>>

\* update_fleet with a desired_vector_version.
PinVersion(f, v) ==
    /\ Operate
    /\ v # fleet[f].pin
    /\ fleet' = [fleet EXCEPT ![f] = [@ EXCEPT !.pin = v]]
    /\ UNCHANGED <<globalPin, member, globals>>

\* The general setting desired_vector_version.
SetGlobalVersion(v) ==
    /\ Operate
    /\ v # globalPin
    /\ globalPin' = v
    /\ UNCHANGED <<fleet, member, globals>>

\* update_instance: a host's data_dir or metric expiry.  No deploy is needed.
SetGlobals(a, g) ==
    /\ Operate
    /\ g # globals[a]
    /\ globals' = [globals EXCEPT ![a] = g]
    /\ UNCHANGED <<fleet, globalPin, member>>

\* add_instance_to_fleet: the row's applied_generation is left as it is.
Join(a, f) ==
    /\ Operate
    /\ f # member[a]
    /\ member' = [member EXCEPT ![a] = f]
    /\ UNCHANGED <<fleet, globalPin, globals>>

\* remove_instance_from_fleet.
Leave(a) ==
    /\ Operate
    /\ member[a] # None
    /\ member' = [member EXCEPT ![a] = None]
    /\ UNCHANGED <<fleet, globalPin, globals>>

\* The at-rest key is rotated without re-encrypting: snapshots stop decoding.
RotateKey ==
    /\ Operate
    /\ fleet' = [f \in Fleets |-> [fleet[f] EXCEPT !.readable = (fleet[f].snap = None)]]
    /\ UNCHANGED <<globalPin, member, globals>>

-----------------------------------------------------------------------------
(* One cycle of the agent. *)

\* Mutated: the topology is rendered for every poll.
LiveRender(f) == draft[f]

\* agent_config serves the last deployed snapshot, or 304 when there is none
\* that it can read.
Served(f) == fleet[f].snap
Servable(f) == fleet[f].snap # None /\ fleet[f].readable

\* Mutated: an ETag of the config alone; one that leaves the globals out.
ConfigETag(c, g, v) == [cfg |-> c, glob |-> g, ver |-> None]
FleetETag(c, g, v) == [cfg |-> c, glob |-> None, ver |-> v]

\* The ETag covers content, globals and version - not the generation.
ETagOf(c, g, v) == [cfg |-> c, glob |-> g, ver |-> v]
Unchanged(a) ==
    \/ ~Servable(member[a])
    \/ mem[a].etag = ETagOf(Served(member[a]), globals[a], Effective(member[a]))

PollNotModified(a) ==
    /\ pc[a] = "idle" /\ member[a] # None
    /\ Unchanged(a)
    /\ pc' = [pc EXCEPT ![a] = "heartbeat"]
    /\ mem' = [mem EXCEPT ![a] = [@ EXCEPT !.status = "ok"]]
    /\ UNCHANGED <<server, row, late, res, host, origin, tries, faults>>

\* The version is taken over before anything else; one that is no semver counts as none.
PollChanged(a) ==
    LET f == member[a]
        v == IF Effective(f) \in SemVer THEN Effective(f) ELSE None
    IN  /\ pc[a] = "idle" /\ f # None
        /\ ~Unchanged(a)
        /\ res' = [res EXCEPT ![a] = [fleet |-> f, gen |-> fleet[f].gen,
                                      cfg |-> Served(f), glob |-> globals[a],
                                      ver |-> Effective(f)]]
        /\ mem' = [mem EXCEPT ![a] = [@ EXCEPT !.desired = v]]
        /\ tries' = [tries EXCEPT ![a] = IF v = mem[a].desired THEN @ ELSE 0]
        /\ pc' = [pc EXCEPT ![a] = "update"]
        /\ UNCHANGED <<server, row, late, host, origin, faults>>

\* Mutated: an unchanged poll is not reported.
SilentHeartbeat(a) == IF pc[a] = "heartbeat" THEN "idle" ELSE "certs"

\* cycle goes on: a 304 reports, a 200 writes certificate files first.
AfterReconcile(a) == IF pc[a] = "heartbeat" THEN "report" ELSE "certs"

\* Mutated: no memory of the target that failed.
MustInstallAgain(a) ==
    /\ mem[a].desired \notin {None, mem[a].version}
    /\ a \in Installers

\* reconcileVersion: something to do, an installer, and not the target that failed last.
MustInstall(a) ==
    /\ mem[a].desired \notin {None, mem[a].version, mem[a].failed}
    /\ a \in Installers

SkipInstall(a) ==
    /\ pc[a] \in {"heartbeat", "update"}
    /\ ~MustInstall(a)
    /\ pc' = [pc EXCEPT ![a] = AfterReconcile(a)]
    /\ UNCHANGED <<server, row, late, mem, res, host, origin, tries, faults>>

\* Install, reload, read the version back; remember a target that did not show.
InstallThen(a, running) ==
    LET want == mem[a].desired
    IN  /\ pc[a] \in {"heartbeat", "update"}
        /\ MustInstall(a)
        /\ host' = [host EXCEPT ![a] = [@ EXCEPT !.installed = want, !.running = running]]
        /\ mem' = [mem EXCEPT ![a] =
               [@ EXCEPT !.version = Shown[want],
                         !.failed = IF Shown[want] = want THEN None ELSE want]]
        /\ tries' = [tries EXCEPT ![a] = @ + 1]
        /\ pc' = [pc EXCEPT ![a] = AfterReconcile(a)]
        /\ UNCHANGED <<server, row, late, res, origin>>

Install(a) == InstallThen(a, host[a].disk) /\ UNCHANGED faults

\* writeConfigFiles, before the config that refers to them.
WriteCerts(a) ==
    /\ pc[a] = "certs"
    /\ host' = [host EXCEPT ![a] =
           [@ EXCEPT !.certs = IF res[a].cfg \in WithCerts THEN res[a].cfg
                                                         ELSE host[a].certs]]
    /\ pc' = [pc EXCEPT ![a] = "apply"]
    /\ UNCHANGED <<server, row, late, mem, res, origin, tries, faults>>

AnswerETag(a) == ETagOf(res[a].cfg, res[a].glob, res[a].ver)

\* The end of a cycle that worked on a 200: remember m, then report it.
Finish(a, m) ==
    /\ mem' = [mem EXCEPT ![a] = m]
    /\ pc' = [pc EXCEPT ![a] = "report"]
    /\ res' = [res EXCEPT ![a] = None]
    /\ UNCHANGED <<server, row, late, origin, tries>>

\* Mutated: a rejected generation counts as applied.
RejectedAsApplied(a) ==
    [mem[a] EXCEPT !.etag = AnswerETag(a), !.applied = res[a].gen,
                   !.status = "validate_failed"]

\* `vector validate` rejects the candidate: cache its ETag, touch nothing.
Rejected(a) == [mem[a] EXCEPT !.etag = AnswerETag(a), !.status = "validate_failed"]

Refuse(a) ==
    /\ pc[a] = "apply"
    /\ Finish(a, Rejected(a))
    /\ UNCHANGED host

Reject(a) ==
    /\ Refuse(a)
    /\ res[a].cfg \notin Accepts[host[a].installed]
    /\ UNCHANGED faults

\* The candidate is accepted and renamed into place.
Swap(a) ==
    /\ pc[a] = "apply"
    /\ res[a].cfg \in Accepts[host[a].installed]
    /\ host' = [host EXCEPT ![a] =
           [@ EXCEPT !.disk = [cfg |-> res[a].cfg, glob |-> res[a].glob]]]
    /\ origin' = [origin EXCEPT ![a] = [fleet |-> res[a].fleet, gen |-> res[a].gen]]
    /\ pc' = [pc EXCEPT ![a] = "reload"]
    /\ UNCHANGED <<server, row, late, mem, res, tries, faults>>

\* Mutated: the agent forgets to count itself unhealthy after a failure.
AppliedUnnoticed(a, healthy, status) ==
    [mem[a] EXCEPT !.etag = AnswerETag(a), !.applied = res[a].gen, !.status = status]

Applied(a, healthy, status) ==
    [mem[a] EXCEPT !.etag = AnswerETag(a), !.applied = res[a].gen,
                   !.healthy = healthy, !.status = status]

Reload(a) ==
    /\ pc[a] = "reload"
    /\ host' = [host EXCEPT ![a] = [@ EXCEPT !.running = host[a].disk]]
    /\ Finish(a, Applied(a, TRUE, "ok"))
    /\ UNCHANGED faults

Message(a) ==
    [applied |-> mem[a].applied, healthy |-> mem[a].healthy,
     status |-> mem[a].status, version |-> mem[a].version]

\* agent_status keeps the generation and the status; it drops vector_healthy.
Received(a, m) ==
    row' = [row EXCEPT ![a] =
        [applied |-> m.applied, status |-> m.status, fresh |-> TRUE,
         version |-> IF m.version # None THEN m.version ELSE row[a].version]]

SendReport(a) ==
    /\ pc[a] = "report"
    /\ Received(a, Message(a))
    /\ pc' = [pc EXCEPT ![a] = "idle"]
    /\ UNCHANGED <<server, late, mem, res, host, origin, tries, faults>>

\* A report whose sender timed out reaches the database after all.
DeliverLate(a, m) ==
    /\ Received(a, m)
    /\ late' = [late EXCEPT ![a] = @ \ {m}]
    /\ UNCHANGED <<server, pc, mem, res, host, origin, tries, faults>>

\* Three minutes pass without a report: the agent is shown as offline.
GoStale(a) ==
    /\ row[a].fresh
    /\ row' = [row EXCEPT ![a] = [@ EXCEPT !.fresh = FALSE]]
    /\ UNCHANGED <<server, late, pc, mem, res, host, origin, tries, faults>>

-----------------------------------------------------------------------------
(* Failures. *)

Fault(kind) ==
    /\ kind \in Faults
    /\ faults < MaxFaults
    /\ faults' = faults + 1

InstallFails(a) ==
    /\ Fault("install")
    /\ pc[a] \in {"heartbeat", "update"}
    /\ MustInstall(a)
    /\ mem' = [mem EXCEPT ![a] = [@ EXCEPT !.failed = mem[a].desired]]
    /\ tries' = [tries EXCEPT ![a] = @ + 1]
    /\ pc' = [pc EXCEPT ![a] = AfterReconcile(a)]
    /\ UNCHANGED <<server, row, late, res, host, origin>>

\* The restart after an install fails; that is only logged.
InstallReloadFails(a) == Fault("reload") /\ InstallThen(a, host[a].running)

\* Mutated: the agent goes on counting itself healthy.
CertsFailedUnnoticed(a) == [mem[a] EXCEPT !.status = "reload_failed"]

\* The write of a cert file failed: no ETag is kept, so that the next poll tries again.
CertsFailed(a) == [mem[a] EXCEPT !.healthy = FALSE, !.status = "reload_failed"]

\* A cert file cannot be written; those before it in the list already are.
WriteCertsFails(a) ==
    /\ Fault("certWrite")
    /\ pc[a] = "certs" /\ res[a].cfg \in WithCerts
    /\ \E c \in {host[a].certs, "torn"} :
           host' = [host EXCEPT ![a] = [@ EXCEPT !.certs = c]]
    /\ Finish(a, CertsFailed(a))

\* `vector validate` cannot be run, or is killed: taken for a rejection.
ValidateFails(a) == Fault("validate") /\ Refuse(a)

\* Apply fails before the rename took effect (mkdir, temp file, write, rename).
ApplyFails(a) ==
    /\ Fault("preSwap")
    /\ pc[a] = "apply"
    /\ Finish(a, Applied(a, FALSE, "reload_failed"))
    /\ UNCHANGED host

ReloadFails(a) ==
    /\ Fault("reload")
    /\ pc[a] = "reload"
    /\ Finish(a, Applied(a, FALSE, "reload_failed"))
    /\ UNCHANGED host

ReportLost(a) ==
    /\ Fault("loseReport")
    /\ pc[a] = "report"
    /\ pc' = [pc EXCEPT ![a] = "idle"]
    /\ UNCHANGED <<server, row, late, mem, res, host, origin, tries>>

ReportTimesOut(a) ==
    /\ Fault("lateReport")
    /\ pc[a] = "report"
    /\ late' = [late EXCEPT ![a] = @ \cup {Message(a)}]
    /\ pc' = [pc EXCEPT ![a] = "idle"]
    /\ UNCHANGED <<server, row, mem, res, host, origin, tries>>

\* The agent process dies and systemd starts it again: all it knew is gone, and
\* the certificate files it was writing may be written in part.
Crash(a) ==
    /\ Fault("crash")
    /\ \/ UNCHANGED host
       \/ /\ pc[a] = "certs" /\ res[a].cfg \in WithCerts
          /\ host' = [host EXCEPT ![a] = [@ EXCEPT !.certs = "torn"]]
    /\ mem' = [mem EXCEPT ![a] = FreshMem(host[a].installed)]
    /\ pc' = [pc EXCEPT ![a] = "idle"]
    /\ res' = [res EXCEPT ![a] = None]
    /\ tries' = [tries EXCEPT ![a] = 0]
    /\ UNCHANGED <<server, row, late, origin>>

-----------------------------------------------------------------------------
OperatorStep ==
    \/ \E f \in Fleets : \/ Deploy(f)
                         \/ \E c \in Configs : Edit(f, c)
                         \/ \E v \in MaybeVersion : PinVersion(f, v)
                         \/ \E a \in Agents : Join(a, f)
    \/ \E v \in MaybeVersion : SetGlobalVersion(v)
    \/ \E a \in Agents : \/ Leave(a)
                         \/ \E g \in Globals : SetGlobals(a, g)
    \/ RotateKey

\* What the agent's loop does when nothing fails.
AgentStep(a) ==
    \/ PollNotModified(a) \/ PollChanged(a)
    \/ SkipInstall(a) \/ Install(a)
    \/ WriteCerts(a) \/ Reject(a) \/ Swap(a) \/ Reload(a)
    \/ SendReport(a)

NetworkStep(a) == \E m \in late[a] : DeliverLate(a, m)

FaultStep(a) ==
    \/ InstallFails(a) \/ InstallReloadFails(a)
    \/ WriteCertsFails(a) \/ ValidateFails(a) \/ ApplyFails(a) \/ ReloadFails(a)
    \/ ReportLost(a) \/ ReportTimesOut(a) \/ Crash(a)

Next ==
    \/ OperatorStep
    \/ \E a \in Agents : AgentStep(a) \/ NetworkStep(a) \/ GoStale(a) \/ FaultStep(a)

Spec == Init /\ [][Next]_vars

\* The agent's loop never ends (Run), and a request in the server is served.
Fairness == \A a \in Agents : WF_vars(AgentStep(a)) /\ WF_vars(NetworkStep(a))
FairSpec == Spec /\ Fairness

-----------------------------------------------------------------------------
(* What the operator sees (derive_status, agent mode). *)

Drift(a) ==
    /\ Effective(member[a]) # None /\ row[a].version # None
    /\ row[a].version # Effective(member[a])

\* Mutated: off by one.
OneBehind(a) == member[a] # None /\ row[a].applied < fleet[member[a]].gen - 1

Behind(a) == member[a] # None /\ row[a].applied < fleet[member[a]].gen

Status(a) ==
    CASE ~row[a].fresh -> "offline"
      [] row[a].fresh /\ row[a].status \in {"validate_failed", "reload_failed"} -> "degraded"
      [] OTHER -> IF Behind(a) \/ Drift(a) THEN "degraded" ELSE "healthy"

-----------------------------------------------------------------------------
(* Safety. *)

SingleFleet == \A f, g \in Fleets : f = g

\* The file on a host is always a configuration that some deploy published -
\* never a topology edit that was not deployed - and passed the gate of that
\* deploy and some version's `vector validate` (agent_config, Apply).
DiskIsPublished ==
    \A a \in Agents : host[a].disk # None =>
        /\ origin[a].fleet \in Fleets
        /\ origin[a].gen \in 1 .. Len(published[origin[a].fleet])
        /\ host[a].disk.cfg = published[origin[a].fleet][origin[a].gen]
        /\ host[a].disk.cfg \notin Blocked
        /\ \E v \in MaybeVersion : host[a].disk.cfg \in Accepts[v]

\* A report never claims a generation newer than the one the file on disk came
\* from, however late it is delivered.  It needs one fleet (generations of two
\* fleets do not compare) and no Apply that fails before the swap, which the
\* agent records as applied.
ReportsNeverAhead ==
    "preSwap" \notin Faults /\ SingleFleet =>
        \A a \in Agents :
            /\ row[a].applied =< origin[a].gen
            /\ mem[a].applied =< origin[a].gen
            /\ \A m \in late[a] : m.applied =< origin[a].gen

\* So when the control plane shows an instance on the fleet's generation
\* (config_synced), the host has the deployed file - under the same hypotheses.
SyncedMeansOnDisk ==
    "preSwap" \notin Faults /\ SingleFleet =>
        \A a \in Agents :
            member[a] # None /\ row[a].applied = fleet[member[a]].gen
                /\ fleet[member[a]].gen > 0
            => /\ host[a].disk # None
               /\ host[a].disk.cfg = fleet[member[a]].snap

\* "healthy: Checked in and converged" means that Vector on that host runs the
\* configuration the fleet last deployed, though reports were lost, came late or
\* out of order and agents crashed.  On top of what SyncedMeansOnDisk needs, no
\* reload may fail: agent_status drops vector_healthy, and the 304 that follows
\* a failed reload is reported as "ok".
HealthyIsRunning ==
    "preSwap" \notin Faults /\ "reload" \notin Faults /\ SingleFleet =>
        \A a \in Agents :
            Status(a) = "healthy" /\ member[a] # None /\ fleet[member[a]].gen > 0
            => /\ host[a].running # None
               /\ host[a].running.cfg = fleet[member[a]].snap

\* Vector is about to be reloaded: after a swap, or after an install.
LoadsSoon(a) ==
    \/ pc[a] = "reload"
    \/ pc[a] \in {"heartbeat", "update"} /\ MustInstall(a)

\* The last answer the agent remembers is not the file on disk: it was
\* rejected, a step of its cycle failed, or the agent has restarted.
Unsettled(a) ==
    ~mem[a].healthy \/ mem[a].etag = None \/ mem[a].etag.cfg # host[a].disk.cfg

\* Whenever the agent has Vector load the file on disk - after a swap (Apply),
\* or after an install (reconcileVersion), which comes before this cycle's
\* certificate files are written - the certificate files on the host are that
\* file's own.  The one exception is a restart after an install while an
\* earlier answer is unsettled: its certificate files may be on the host, whole
\* or torn, beside the old configuration.
ReloadSeesItsCerts ==
    \A a \in Agents :
        LoadsSoon(a) /\ host[a].disk # None /\ host[a].disk.cfg \in WithCerts
        => host[a].certs = host[a].disk.cfg \/ (pc[a] # "reload" /\ Unsettled(a))

\* The (expensive) install command runs at most once per target: again only
\* after the desired version changed or the agent restarted (failedVersion).
AtMostOneTry == \A a \in Agents : tries[a] =< 1

\* As long as an agent counts itself healthy (vector_healthy of its reports),
\* the generation it holds as applied is the one the file on disk came from, and
\* Vector runs that file: over rejections, failed writes, swaps, reloads and
\* installs, restarts of Vector for a new version, and moves between fleets.
AppliedIsRunning ==
    \A a \in Agents :
        pc[a] # "reload" /\ mem[a].healthy /\ mem[a].applied > 0
        => mem[a].applied = origin[a].gen /\ host[a].running = host[a].disk

-----------------------------------------------------------------------------
(* Convergence; the liveness is about when operators and failures have calmed down. *)

Reachable(a) == member[a] # None /\ Servable(member[a])
Acceptable(a) == fleet[member[a]].snap \in Accepts[host[a].installed]

\* An agent that is told "not modified" and counts itself healthy has nothing
\* left to do: its host has the deployed file unless its Vector rejects it, the
\* generation it reports is that file's, and its Vector is the desired one
\* unless the install of just that version was tried in vain.  The agent keeps
\* its ETag through rejections, failed installs and failed writes (cycle), so a
\* wrong one would cut the host off from what was deployed.  A run of `vector
\* validate` that fails counts as a rejection, so without the first hypothesis
\* it does cut the host off.
NotModifiedIsConverged ==
    \A a \in Agents :
        pc[a] = "idle" /\ Reachable(a) /\ Unchanged(a) /\ mem[a].healthy
        => /\ "validate" \notin Faults /\ Acceptable(a) =>
                /\ host[a].disk = [cfg |-> fleet[member[a]].snap, glob |-> globals[a]]
                /\ mem[a].applied = origin[a].gen
           /\ a \in Installers /\ Effective(member[a]) \in SemVer =>
                Effective(member[a]) \in {Shown[host[a].installed], mem[a].failed}

\* A cycle that failed left the agent with an ETag that is the current one: no
\* poll will make it try again.  Apply failed before the rename, or certificate
\* files could not be written and then the fleet went back to what it had before.
Misled(a) == ~mem[a].healthy /\ Unchanged(a)

\* Every host ends up with the deployed configuration and its own globals on
\* disk, unless its Vector rejects that configuration or a failure misled it
\* (a `vector validate` that could not run counts as a rejection).
DiskConverges ==
    "validate" \notin Faults => \A a \in Agents : <>[](Reachable(a) /\ Acceptable(a) =>
        \/ host[a].disk = [cfg |-> fleet[member[a]].snap, glob |-> globals[a]]
        \/ Misled(a))

\* What the agent last reported is eventually a generation whose content is the
\* deployed one (in one fleet): the report catches up with the host.
ReportConverges ==
    "validate" \notin Faults => \A a \in Agents : <>[](Reachable(a) /\ Acceptable(a) =>
        \/ /\ row[a].applied \in 1 .. Len(published[member[a]])
           /\ published[member[a]][row[a].applied] = fleet[member[a]].snap
        \/ Misled(a))

\* An agent with an installer ends up on the desired Vector version, when that
\* is a semver that shows as itself and its install was not tried in vain.
VersionConverges ==
    \A a \in Installers : <>[](
        Reachable(a) /\ Effective(member[a]) \in SemVer
            /\ Shown[Effective(member[a])] = Effective(member[a])
        => \/ Effective(member[a]) \in {Shown[host[a].installed], mem[a].failed}
           \/ Misled(a))

-----------------------------------------------------------------------------
\* FleetSync implements Rollout: a deploy publishes, a swap adopts.
R == INSTANCE Rollout WITH
        config <- [a \in Agents |-> IF host[a].disk = None THEN None
                                                          ELSE host[a].disk.cfg]
ImplementsRollout == R!Spec
=============================================================================
