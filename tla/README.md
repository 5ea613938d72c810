# VortexFLOW in TLA+

VortexFLOW is a control plane for fleets of [Vector](https://vector.dev) hosts.
Operators draw a topology in a web UI, a FastAPI backend renders it to a Vector
configuration and publishes it per fleet, a Go agent on every host pulls it,
validates it, swaps it in and reports back; the backend watches the fleet, opens
and resolves events, and notifies channels.

This directory holds TLA+ modules for the parts of that system whose correctness
is a matter of order: what happens when edits, deploys, polls, crashes, lost
messages, several browser tabs and several workers interleave. TLC checks small instances
(`tlc -config X.cfg M`); TLAPS checks the proofs, for every value of the
constants (`tlapm M.tla`).

Contents:
1. The system: parts, state, operations, interactions
2. Modules and how they correspond to the code
3. Runs: what each checks, and the bounds
4. Fairness
5. What is proved
6. Findings and observations
7. What is not modelled

## 1. The system

### Publish and converge (`agent/`, `api/v1/agent.py`, `api/v1/fleets.py`, `services/fleet_view.py`)

State: in the database a fleet has a generation, an encrypted snapshot of the last
deployed configuration and an optional pinned Vector version; an instance has its
fleet, its per-host globals, and what its agent last reported (applied generation,
status, version, time). The agent keeps an ETag, the applied generation, its
health, the desired version and the version whose install failed - in memory only.
The host keeps the configuration file, certificate files, the installed Vector,
and the configuration the running Vector has loaded.

Operations: edit the topology (nothing is published); deploy (render, validate,
publish under the next generation); pin a version per fleet or globally; change a
host's globals; move an instance between fleets; poll (304 or a new
configuration); install a version; write certificate files; `vector validate`,
rename, reload; report.

Interaction: the agent calls the backend over HTTP; nothing is pushed. A poll is
one transaction, but the agent works on its answer for a long time, while
operators go on.

Hard: the agent may crash at any point and forgets everything while its host
forgets nothing; each of install, certificate writing, rename and reload may fail;
reports get lost or arrive after a later one; the ETag decides whether a host
hears of a change at all.

What makes it correct: a host holds only configurations that were published and
never goes back inside a fleet; a report never claims more than the host has;
"healthy" means that the deployed configuration runs; hosts converge when things
calm down; an expensive install is not repeated for ever.

### Events and notifications (`services/event_detector.py`, `services/notify.py`, `services/retention.py`, the workers in `main.py`)

State: the events table (at most one open event per dedup key), notification
channels, the outbox of deliveries (one per event, channel and transition, with
status, attempts and next attempt).

Operations: a detection pass reads the conditions - some from the database, some
from VictoriaMetrics - and commits which events open and which resolve; a second
transaction enqueues deliveries; the dispatcher lists due deliveries, claims each
with `FOR UPDATE SKIP LOCKED`, sends, and commits the outcome; a failure is retried
with a backoff up to `MAX_ATTEMPTS`; an all-clear waits for its alert; a daily
sweep deletes rows by age; administrators create, change and delete channels.

Interaction: detection runs in the background worker of every backend replica and
in every dashboard request; only workers dispatch.

Hard: two passes at once, a pass and the sweep, several dispatchers with stale
candidate lists, a worker stopped between the send and the commit or between the
two transactions, VictoriaMetrics going away between two of its queries.

What makes it correct: messages of one event arrive in order and are not repeated
without a cause; metrics that cannot be read do not clear an event; no delivery
stays pending for ever; events follow the conditions.

### Browser sessions (`frontend/src/lib/api.ts`, `lib/auth.tsx`, `api/v1/auth.py`, `services/session.py`, `redis_client.py`)

State: the tabs of a browser share the access token in `localStorage` and the refresh
cookie; each tab has its own `_refreshing` flag and queue. Redis holds a key per stored
refresh token (`rt:`), per live session (`session:`) and per revoked access token.

Operations: log in; load a page and ask who the token belongs to; call the API; refresh
after a 401, while other calls of the tab queue; log out. On the server: validate a
session, consume a refresh token, issue a pair, revoke, end a session.

Interaction: HTTP calls; the handlers of several calls interleave at every Redis call.

Hard: two tabs present the same cookie; a logout overtakes a refresh that is already past
its check; a page is reloaded while its refresh is in a handler; Redis fails open; an
answer is lost after the server has acted.

What makes it correct: a session that was ended stays ended; a refresh token is exchanged
once; a tab is signed out only for a cause; no call hangs in the queue.

### Topology editing (`pages/Flow.tsx`, `FleetTopologyCanvas.tsx`, `StageEditor.tsx`, `RouteEditor.tsx`, `lib/deleteGuard.ts`, `components.py`, `routes.py`, `transform_stages.py`, `services/wiring.py`)

State: the rows of sources, stages, routes and sinks with the ids they name; in each open
Flow page the lists it last loaded (`dataRef`), a spinner, an error, open drawers.

Operations: connect two nodes, cut an edge or several, insert a remap into an edge, add a
node, edit or delete it in a drawer or on the catalog page, delete by force after a 409.
Every gesture writes whole lists computed from what the page has, then loads again.

Interaction: pages only meet in the tables. A handler checks the tables in one statement
and writes in another, without a lock.

Hard: gestures of one page overlap, the loads they end with cross; two editors write the
same row; a request fails after the server has done it; a node is deleted between another
handler's check and its commit.

What makes it correct: no reference dangles, no circle of remaps, a gesture changes what it
is about and nothing else, the canvas ends on what the tables hold and always comes back.

### Overlapping deploys and local-mode hosts (`fleets.py`, `ConfigModal` in `pages/Fleets.tsx`, `services/config_render.py`)

State: the fleet's generation and snapshot, the configuration files of local-mode hosts,
and in each config dialog the blocking errors, message and result it shows.

Operations: open the dialog (preview), deploy, show the answer; on the server: read the
fleet, render, validate, check for local-mode members, update the row, write the files of
local-mode hosts, commit.

Interaction: two deploys meet in the row, which the UPDATE keeps locked until the
transaction ends, in the files, and in the generation the agents report.

Hard: the generation was read before the lock was taken; files are written before the
commit, and stay when it fails; a host joins between the check for local members and the
write; the answer is lost.

What makes it correct: local files follow the row; a green badge means the deployed content;
nothing unchecked reaches a local host; every deploy is answered and agents end up on the
last one.

### The other parts

Login limits, users and tokens; break-glass recovery; rendering and secrets; certificates;
re-encryption; single sign-on; registration; startup and migrations; AI generation and the
VRL runner; live metrics and tap; the MCP server; the rest of the web frontend; contracts
and packaging. They are listed with their sources in `PROJECT.json`; section 7 says why
they have no module.

## 2. Modules

| module | what it is |
|---|---|
| `Rollout` | abstract: operators publish, hosts adopt publications and never go back inside a fleet |
| `FleetSync` | the publish-and-converge loop; implements `Rollout` |
| `FleetSync_proofs`, `FleetHistory_proofs` | its theorems |
| `Alerts` | abstract: what somebody who watches a channel may rely on |
| `Notify` | detection, outbox and dispatch; implements `Alerts` |
| `Notify_proofs`, `NotifyOrder_proofs` | its theorems |
| `Sessions`, `Sessions_proofs` | browser tabs, the HTTP client and the session handlers |
| `Wiring`, `Wiring_proofs` | the wiring graph: what a row may name, who references it, cycles |
| `Flow`, `Flow_proofs` | the Flow pages and the handlers they call; extends `Wiring` |
| `Deploys`, `Deploys_proofs` | `deploy_fleet` at its awaits, several config dialogs, local-mode files |
| `MCFleetSync`, `MCNotify`, `MCSessions`, `MCFlow` | values for the constants (`Deploys` needs none) |

`FleetSync` has one deploy as one step and agents in detail; `Deploys` has the deploy in
detail and a whole cycle of an agent as one step. They share the poll that compares
contents, the generation and the local and agent-mode hosts of one fleet.

`PROJECT.json` maps every definition to the lines it models. Definitions whose
comment starts with "Mutated:" or "Mutant:" are variants of the definition below them, with the
kind of slip a programmer could make; each property is known to fail for at least
one of them.

### FleetSync

A configuration is a model value. What depends on its text is a constant function
of it: `Blocked` (the render has blocking errors), `ServerVerdict` (what the
server-side validation says), `Accepts[v]` (what `vector validate` of version `v`
accepts), `WithCerts` (it carries certificate files). `Shown[v]` is what
`vector --version` is parsed to once `v` is installed.

The agent's cycle is split where something else can come in between:
`pc = idle -> heartbeat | update -> certs -> apply -> reload -> report -> idle`.

| code | action |
|---|---|
| `agent.go` `cycle`, 304 | `PollNotModified` |
| `client.go` `FetchConfig`, `agent.py` `agent_config` | `PollChanged` |
| `reconcileVersion` | `SkipInstall`, `Install`, `InstallFails`, `InstallReloadFails` |
| `writeConfigFiles` | `WriteCerts`, `WriteCertsFails` |
| `vector.go` `Apply` | `Reject`, `ValidateFails`, `Swap`, `Reload`, `ApplyFails`, `ReloadFails` |
| `report`, `agent_status` | `SendReport`, `ReportLost`, `ReportTimesOut`, `DeliverLate` |
| process restart | `Crash` |
| `deploy_fleet`, `update_fleet`, `update_instance`, membership, settings | `Deploy`, `PinVersion`, `SetGlobals`, `Join`, `Leave`, `SetGlobalVersion` |
| `derive_status` | `Status` |

`published`, `origin` and `tries` are history variables: the code has no such
state, the properties speak about it.

Abstractions: `deploy_fleet` is one step, and its members are all in agent mode.
The generation is bounded by `MaxGen`, operators by `MaxOps`, failures by
`MaxFaults`; edits are not bounded. An agent's cycle that receives an error from a
poll just starts over, which is stuttering. Time is abstracted: `GoStale` may
happen whenever a row is fresh. `LoadsSoon(a)` names the two places where Vector is made
to load the file on disk: after a swap, and after an install (`reconcileVersion`), which
comes before this cycle's certificate files are written.

`Faults` says which failures may happen in an instance:

| kind | action | what fails |
|---|---|---|
| `certWrite` | `WriteCertsFails` | a certificate file cannot be written, those before it are |
| `validate` | `ValidateFails` | `vector validate` cannot be run or is killed |
| `preSwap` | `ApplyFails` | `Apply` fails before the rename |
| `reload` | `ReloadFails`, `InstallReloadFails` | the reload command |
| `install` | `InstallFails` | the install command |
| `crash` | `Crash` | the agent process |
| `loseReport`, `lateReport` | `ReportLost`, `ReportTimesOut` | a report is lost, or is delivered after its sender gave up |

### Notify

`Procs` are the background workers and the dashboard requests. A process goes
through `pc = idle -> probe -> commit -> enqueue`, and a worker on to
`list -> claim -> send -> record -> claim ... -> idle`.

| code | action |
|---|---|
| `_active_conditions` | `Observe` (fetch), then `Probe` (`vm_reachable`, open events) |
| `_reconcile` | `Commit`, `CommitFails` |
| `enqueue_deliveries` | `Enqueue` |
| `dispatch_pending` | `List`, `Skip`, `Disabled`, `DropClear`, `Defer`, `Claim` |
| `_send` | `Send`, `SendFails`, `ReplyLost` |
| outcome and commit, `_record_failure` | `Record` |
| the worker's sleep; a backoff that ends | `Sleep`, `TimePasses` |
| cancellation, lost database connection | `Abort` |
| `prune_old_records` | `PruneEvent`, `PruneDelivery` |
| channel API | `SetChannel`, `DeleteChannel` |

The row locks are real: `claim[p]` is the row a dispatcher holds from `Claim` to
`Record` or `Abort`; a DELETE waits for it, another dispatcher skips it. Time is
the flag `due` of a row, which a failure or deferral clears and `TimePasses` sets.
`got` counts the messages that arrived; it is history.

Abstractions: one sweep deletes one row here (the code deletes all that are old
enough; the order does not matter to the properties). `Old` says that no process is
in the middle of work on something that is at least a day old - a retention is
given in days, a pass takes seconds. The batch limit of 50 and the order by
`next_attempt_at` are left out: any subset of due rows in any order is more
behaviour, not less. `dispatch_pending` may use a channel object that its session
loaded for the previous row (`expire_on_commit=False`): a channel disabled in the
meantime may get one more message, which no property here excludes. Retention counts from
`created_at` (`retention.py:42`), so an event that stayed open for days could in the code be
pruned in the moment between its resolution and the enqueue of its all-clear; `Old` leaves
that out. `Enqueue` is one step: a channel deleted between its SELECT and its INSERT makes
the transaction fail and loses what the pass had to announce, which is the same loss as
stopping there (`Abort` at `enqueue`). The branch
"channel or event no longer exists" cannot be reached, since the foreign keys
cascade. The probe of VictoriaMetrics and the query of open events are one step:
only the process itself reads the probe's result. The severity of an event is that
of its key (the code fixes it when the event opens).

### Sessions

A token pair is a number: the access token and the refresh token minted together have the
same one. A call is one record that goes through the stages of the request, the refresh it
may lead and the handlers on the server:
`sent -> bad -> refresh -> consumed -> issue -> store -> renewed -> sent`.

| code | action |
|---|---|
| `api.ts` request interceptor; pages | `Ask`, `Login`, `Logout` |
| `auth.tsx` `loadUser`, `login`, `logout` | `Open`, `Succeed`, `Fail`, `Reject` |
| `api.ts` response interceptor | `Queue`, `Lead`, `Renew`, `Deny` |
| `get_current_user` | `Answer` |
| `auth.py` `login`, `session.issue` | `Authenticate`, `Start`, `Store` |
| `auth.py` `refresh`, `consume_refresh_token`, `session.validate` | `Consume`, `Validate` |
| `auth.py` `logout` | `Revoke`, `Drop`, `End` |
| TTLs, administrators, Redis | `ExpireToken`, `IdleOut`, `AgeOut`, `Deactivate`, `RedisDown`, `RedisUp` |
| stopped handlers, lost answers, pages that are left | `Break`, `Open`, `Drain` |

Abstractions: one user; access tokens expire in the order they were minted (they all live
equally long); when Redis is down every check passes and every write is lost, as
`redis_client.py` does it. `Renew` sets the cookie and the access token in one step; the
browser sets the first when the answer arrives and the second in its callback. `over`, `excused`, `spentBy`, `unguarded`, `forgone` and `refused`
are history.

### Wiring and Flow

`refs[n]` is the set of ids the row of `n` names. An operation is a gesture with the
writes it sends one after the other, computed when it is made (`plan`), and the load it ends
with: `sent -> checked -> ok | used | bad -> (next write) -> list -> idle`.

| code | action |
|---|---|
| `onConnect` | `Connect` |
| `onEdgesDelete`, unwire | `Cut`, `CutTwo` |
| insert remap | `Splice` |
| the add menu and the catalog page | `Add`, `Remove` |
| drawers (`StageEditor`, `RouteEditor`) | `Open`, `Save`, `RemoveOpen`, `Close` |
| `deleteGuard.ts` | `Confirm` |
| `load`, Retry | `Read`, `Show`, `LoadFails`, `Retry` |
| the `.then` and `catch` of a gesture | `Succeed`, `Fail` |
| create, update and delete handlers | `Check`, `Apply`, `ApplyFails`, `Insert`, `Erase` |
| lost requests and answers | `Lose` |
| `find_references`, `ensure_deletable`, the checks of inputs | `References`, `InUse`, `Valid` |
| `wouldCycle` | `Reaches`, as "in every closed set" instead of a search |

The three lists of a load are read at different moments (`Read(k, T)`). A PATCH writes a
column only when its value differs from the row the handler loaded, as the ORM does
(`Column`). Abstractions: rows are their wiring only; the order of ids in a list is left
out; a click between the two writes of one deletion is left out, and so is opening a drawer
while another one's save is under way. The two lists of a route (`source_ids`, the sinks of
its branches) are one set and one column: the UI puts no id into both, the handlers would
take any id in either (`routes.py:47`), and the code compares and writes them separately.
`Check` is one step, though `find_references` reads three tables one after the other: a
reference that moves from one of them to another meanwhile is left out. `RemoveOpen` closes
the drawer also when the delete is cancelled or fails, where the code leaves it open with the
form it had: as far as the tables go this is a drawer that was opened again. `behind`, `overtaken`,
`shaky`, `drifted`, `forced` and `raced` are history.

### Deploys

| code | action |
|---|---|
| `ConfigModal`: open, preview | `Open`, `Preview`, `PreviewFails` |
| `ConfigModal`: the Deploy button, its answer | `Deploy`, `Answer`, `LoseAnswer`, `Close` |
| `deploy_fleet`: the fleet is loaded | `ReadFleet` |
| render, blocking errors, `validate_config` | `Render` |
| the check for local-mode members | `CheckLocals` |
| autoflush of the row before the instances are queried | `Update` |
| `write_local_config` for each local-mode host | `WriteFile`, `WriteFails` |
| commit; an exception, a failing commit, a crash | `Commit`, `Abort` |
| edits, members, agents | `Edit`, `Join`, `Leave`, `Poll` |

The query for the members flushes the changed row first, so PostgreSQL holds its lock from
then until the transaction ends; `writing` is the holder. `Poll` stands for a whole cycle
of an agent that works. `wrote`, `unvalidated`, `spoiled`, `late` and `muddled` are history.

## 3. Runs

| run | instance | shows |
|---|---|---|
| `fleet_safety` | 1 host, 2 fleets, 2 configurations, 2 versions; every failure but lost reports and `validate`; 1 failure | `ImplementsRollout`, `ReloadSeesItsCerts`, `AppliedIsRunning`, `AtMostOneTry`, `NotModifiedIsConverged`, `TypeOK` |
| `fleet_reported` | 1 host, 1 fleet, 3 configurations (one blocked), 2 versions; lost, late and reordered reports, crashes, failed installs, certificate writes and runs of `vector validate`; 2 failures | `DiskIsPublished`, `ReportsNeverAhead`, `SyncedMeansOnDisk`, `HealthyIsRunning` |
| `fleet_converges` | 1 host, 1 fleet, 2 configurations that both carry certificate files, 2 per-host globals, 2 versions, 2 operations; every failure but `validate`; 1 failure; fair | `DiskConverges`, `VersionConverges`, `ReportConverges` |
| `notify_outbox` | 2 workers, 1 metric key, 1 channel that may be muted or deleted, 2 attempts, 2 failures, 1 operation | `ImplementsAlerts`, `RepeatsNeedFailures`, `SteadyAllClearIsTrue`, `PendingSettles`, `TypeOK` |
| `notify_events` | 1 worker and 1 dashboard request, up to 4 events per key, 3 kinds of channel settings, no failures; fair | `EventsFollow`, `AlertsReachOutbox`, `AllClearFollows` |
| `sessions` | 2 tabs with a call each, 1 login, 3 token pairs, 1 fault (end of a session, Redis outage, stopped handler, lost answer, page left) | `OverStaysOver`, `OneHeir`, `RefusedForACause`, `TypeOK` |
| `session_calls` | 1 tab with 2 calls at once, otherwise the same; fair | `QueuedHaveLeader`, `EveryCallSettles` |
| `flow_gestures` | 1 page, 2 gestures that may overlap, a source, a remap, a sink and a remap to be added; loads that cross or overtake each other; 1 request or load fails; fair | `FreshCanvas`, `CanvasComesBack`, `CyclesNeedBlindWrites`, `EditsStick`, `SpliceKeepsFlow`, `TypeOK` |
| `flow_editors` | 2 pages with a gesture each, 2 remaps and a route; 1 failure | `DanglingHasCause` |
| `deploys` | 2 dialogs, 1 local and 1 agent host, 4 contents (one blocked, one that `vector validate` rejects), 2 deploys, 1 edit, 2 moves, 1 failure; fair | `FilesFollow`, `GreenMeansCurrent`, `LocalsAreGated`, `DeploysEnd`, `AgentsFollow`, `TypeOK` |
| `cuts_restore`, `generation_reused` | the same without failures | a statement of the repository that the code refutes, see section 6 |

What the properties say, and what it takes to break them:

- `ImplementsRollout` - `ETagOf`, `Served` and the order of install, validate and
  rename must keep unpublished edits and old answers off the hosts.
- `SyncedMeansOnDisk`, `ReportsNeverAhead` - an answer that was fetched before a
  deploy and applied after it; a report delivered after a later one.
- `HealthyIsRunning` - combines the row, the fleet, the membership and what Vector
  has loaded, while reports are lost, come late and out of order and agents crash. Its
  hypotheses are part of the formula: one fleet, no failed reload, no `Apply` that fails
  before the rename. Without them the code does not keep it (section 6), so it says nothing
  about a moved instance or about the 304 after a failed reload.
- `AppliedIsRunning` - what an agent that counts itself healthy holds as applied, against
  the file on the host and what Vector has loaded: across rejections, failures of `Apply`
  before and after the rename, failed reloads, crashes and installs. It has no hypothesis;
  an `Apply` that failed before the rename is counted as applied, but never as healthy.
- `ReloadSeesItsCerts` - certificate files are written before the configuration
  that refers to them, are torn by a failure or a crash, and are written again before Vector
  loads a file they belong to. It is about both loads, the one after a swap and the one after
  an install; the second comes before certificate files are written again, so it excepts an
  agent whose last answer is `Unsettled` (section 6).
- `AtMostOneTry` - a target that never shows is installed once per change of the
  desired version and per agent process, on 200s and 304s alike.
- `NotModifiedIsConverged` - the agent keeps its ETag through rejections, failed installs
  and failed writes; a wrong one would cut the host off from what was deployed for good.
- `DiskConverges`, `VersionConverges`, `ReportConverges` - `<>[]`: finitely many
  operations and failures, then the loop goes on for ever. They except a host that is
  `Misled`: a failed cycle left its agent with an ETag that is the current one, so that no
  poll makes it try again (section 6). `NotModifiedIsConverged` says that this happens to no
  agent that counts itself healthy.
- `ImplementsAlerts` - alert first, then the all-clear, and no alert after it, per
  event and channel, whatever is retried, pruned or dispatched at the same time.
- `RepeatsNeedFailures` - `FOR UPDATE SKIP LOCKED` with the second look at the
  status keeps dispatchers from repeating each other's messages.
- `SteadyAllClearIsTrue` - an outage does not clear events, as long as
  VictoriaMetrics does not come back in the middle of a pass.
- `PendingSettles` - retries end and an all-clear never waits for ever, even when
  its alert was pruned or its channel muted.
- `OverStaysOver` - logout, idling out, two refreshes and a Redis outage against each
  other: a session comes back only through a refresh that had passed its check before.
- `OneHeir` - `GETDEL` is what keeps two tabs from exchanging one cookie twice.
- `RefusedForACause` - the refresh queue keeps one tab from spending the cookie under
  itself; being signed out needs another tab or a lost answer.
- `QueuedHaveLeader`, `EveryCallSettles` - whatever the refresh ends in, the queue is
  emptied by it, and `_refreshing` is never left set.
- `DanglingHasCause` - the check of a delete and the checks of creates and updates
  against each other: what remains is the window between check and commit.
- `FreshCanvas`, `CanvasComesBack` - loads of one page that cross, fail, or miss a write.
- `EditsStick` - writes of whole lists touch the one edge of the gesture, as long as nobody
  wrote since the page was up to date.
- `SpliceKeepsFlow` - create first, rewire then: stopping in between interrupts nothing.
- `CyclesNeedBlindWrites` - only the canvas checks for circles, so only a write that did
  not see the current row can close one.
- `FilesFollow` - two deploys that write the same files and the same row, and undone ones.
- `GreenMeansCurrent` - the generation in the row against the one an agent reports.
- `LocalsAreGated` - the window between the check for local-mode members and the write.
- `DeploysEnd`, `AgentsFollow` - the lock is always released; agents compare contents, so
  even a generation used twice does not keep them off the last deploy.
- `EventsFollow`, `AlertsReachOutbox`, `AllClearFollows` - whoever sees a
  transition first, worker or dashboard, the event and its rows end up right.

Why the bounds are enough: a host interacts with others only through its fleet, so
one host shows every interleaving with the control plane; two fleets are needed for
moves, two generations for "behind" and for an answer that is overtaken, two
configurations and two versions to tell old from new. Two workers are needed for
the races of the outbox, a third adds none: a row is held by one, looked at by the
other. `MaxEvents = 4` in `notify_events` is never reached: with 5 the number of
states is the same. In `sessions` the races are between two holders of one cookie, and
within a tab between a call that leads a refresh and one that waits; both at once exceed
what TLC can enumerate, so they are two runs. One login and three pairs let a pair be
minted, exchanged and its successor be used; a single fault ends a session at every point.
`flow_gestures` has the smallest pipeline in which an edge can be drawn, cut twice into the
same node, spliced and closed to a circle; `flow_editors` has every kind of drawer and
of reference, with one gesture per editor since a race needs one of each. In `deploys` two
deploys are enough to overlap, and a third (12.8 million states, checked once outside the
listed runs) violates nothing either. Deadlock checking is off in `fleet_safety` and
`fleet_reported`, where an instance that left its fleet has nothing left to do
when the bounds on operations are used up, and in the runs of `Sessions`, `Flow` and
`Deploys`, where users stop once logins, gestures or deploys are used up; that nothing
stops in the middle there is what `EveryCallSettles`, `CanvasComesBack` and `DeploysEnd`
say. In `fleet_converges` and in the runs of `Notify` it is on.

## 4. Fairness

- `FleetSync`: `WF(AgentStep(a))` - `Run` in `agent.go` is an endless loop with
  timeouts on every call, so a cycle that can go on does. `WF(NetworkStep(a))` - a
  request whose client gave up is still served. Nothing is assumed of operators,
  and no failure has to happen or to stop; the bounds make them finite, as the
  properties (`<>[]`) require.
- `Notify`: `WF(ProcStep(p))` for workers (`_notification_worker` loops for ever and
  every call in it has a timeout); for dashboard requests only once they have
  started; `WF(TimePasses(d))` - clocks go on. Nothing is assumed of
  VictoriaMetrics, conditions or operators.
- `Sessions`: `WF(Handle(c) \/ Settle(c))` - a request that reached the server is handled
  to its end (or `Break` happens), its answer arrives and its callback runs; Redis calls
  have timeouts. Nothing is assumed of users, clocks or of Redis coming back.
- `Flow`: `WF(Handle(k) \/ Settle(k))` - the same for the writes and loads of a gesture; a
  409 dialog is answered one way or the other (`window.confirm` blocks the page).
- `Deploys`: `WF(Handle(d) \/ Wait(d))` - a handler goes on when the row is free and its
  answer arrives; `WF(Poll(a))` - the agent's loop, as in `FleetSync`.

## 5. What is proved

All theorems hold for every value of the constants under `ConstantsAssumption`
(well-typed constants; `None` is no configuration, row and so on). Some properties carry
hypotheses of their own in the formula - which failures do not happen, that there is one
fleet - and so do the theorems about them. There is no other assumption.

`FleetSync_proofs`, `FleetHistory_proofs`:

- `TypeCorrect`: `Spec => [](TypeOK /\ ControlOK)`. `TypeOK` alone is not
  inductive: the steps that work on an answer need `res[a] # None`, which is
  `ControlOK`.
- `DiskCorrect`: `[]DiskIsPublished`, from the inductive `HistoryInv`: a fleet's row is
  the last entry of its history (`HistoryOK`); an answer being worked on is an entry
  of the history and no older than the file (`AnswerOK`); a host without a file has
  no origin. Every step but `Deploy`, `PollChanged` and `Swap` is `Quiet` and leaves
  these alone, which `StepKinds` shows once for all.
- `RolloutCorrect`: `Spec => ImplementsRollout`. A deploy is `Publish`, a swap is
  `Adopt` (by `AnswerOK`), everything else stutters.
- `ReportsCorrect`, `SyncedCorrect`: with the additional invariant `ReportInv`; every
  step passes on claims that were already made, or makes one from a file that is on
  disk (`StepClaims`).
- `CertsCorrect`, `AppliedCorrect`: `[]ReloadSeesItsCerts` and `[]AppliedIsRunning`, whatever
  fails, from one invariant, `LoadInv`. The certificate files fit the answer from the moment
  they are written until the cycle ends, and they fit the file on disk as long as the last
  answer is settled (`CertsFit`); a healthy agent's generation is that of its file, and
  outside the moment between rename and reload Vector runs it (`RunsApplied`). A step that
  would break either also makes the agent unhealthy, gives it another ETag or restarts it.
- `TriesCorrect`: `[]AtMostOneTry`. `TriedOnce` adds that after a try the agent remembers the
  target as installed or as failed, which is why `MustInstall` is false. A step is of the
  agent itself or leaves it alone (`AloneOrOwn`).
- `NotModifiedCorrect`: `[]NotModifiedIsConverged`, whatever fails. The invariant `ETagInv`
  says what a cached ETag stands for (`ETagHolds`): the content of an answer whose version
  was installed or has failed, and whose file was swapped in or rejected, unless the agent
  is not healthy. It adds that between cycles nothing is left to install, so an answer's
  version is dealt with before its ETag is kept.
- `InstallsFollowAnswers`: an action property, from the same invariant: the reconciliation
  on a 304 never finds an install to run. `PollsCatchUp`: after a poll with a new answer the
  agent has caught up, and stays so until the server changes, the agent restarts or a
  certificate file cannot be written.
- `HealthyCorrect`: `[]HealthyIsRunning`, with the hypotheses it has: one fleet, no failed
  reload, no `Apply` that fails before the rename. The invariant `RunningInv` names,
  for every host, a generation that Vector runs and that no claim - in the row, in the agent,
  on its way - exceeds. A row that shows the fleet's generation leaves that generation no
  choice. Without the hypotheses the property is false (section 6).

`Notify_proofs`, `NotifyOrder_proofs`:

- `NotifyType`, `RepeatsBounded`, `MessagesInOrder` (`Spec => ImplementsAlerts`), from
  one inductive invariant, `NotifyInv`:
  a row is held by at most one process and stays pending meanwhile (`ClaimOK`);
  what is to be enqueued belongs to one process (`NewsOK`);
  nothing exists yet for an event whose alerts are not enqueued (`FreshOK`);
  an all-clear exists only for a resolved event (`ClearOK`);
  what is marked as sent has arrived (`SentOK`);
  once an all-clear is on its way its alert has arrived and is not pending
  (`OrderOK`); an all-clear that arrived and was pruned does not come back
  (`PrunedOK`); a pending row arrived at most once per failure, plus once if its
  sender is about to record it (`CountOK`).
  The hard part is that an alert cannot become pending again after its all-clear:
  the only way is `Enqueue`, by the one process that opened the event, and `FreshOK`
  says that nothing arrived before that. The steps are gathered by what they do to
  the outbox - `Looks`, `Settles`, `Removes`, and one lemma each for `Commit`,
  `Enqueue`, `Claim`, sending, `Record` and `Abort`.
- `SteadyClears`: `Spec => SteadyAllClearIsTrue`, with the invariant `SeenOK`: a pass
  misses only metrics, and only when it could not read them.
- `NoAlertForgotten`, `NoAllClearForgotten`, `AttemptsCount`: see below.

`Sessions_proofs` (any number of tabs, calls, pairs, sessions and faults):

- `TypeCorrect`: typing and that a call names only pairs and sessions that exist.
- `OverRemainsOver`: `[]OverStaysOver`. A session in `over` can only be made live by a call
  in `issue`; the invariant says that every such call of an ended session is excused.
- `OneHeirAlways`: `[]OneHeir`. A stored refresh token has no heir and nobody is exchanging
  it (`SpentOnce`, `HeirsAreSpent`); once taken it has one exchanger, or an heir, or neither;
  a pair that is about to be stored has not been used by anybody (`NotYetStored`).
- `QueuedAlwaysHaveLeader`: `[]QueuedHaveLeader`, with `QInv`. It adds `KindFits`: no login
  or logout ever waits for a refresh or reaches its first stages, so only the tab's own
  leader can clear `_refreshing`. The steps that can disturb it are `Lead`, `Renew`, `Deny`
  and `Open`.
- `RefusalsHaveCauses`: `[]RefusedForACause`, with `Causes`, on top of `QInv`. A token the
  browser holds was stored once, so a token that is missing was spent or given up
  (`HeldAccounted`). A token that only tab `t` spent is either still being served for `t`
  or is no longer the cookie, and `t` is not sending it (`SpenderHears`); one leader in a
  tab rules out that it is both. Pages that were left account for what they sent
  (`OrphansForgone`), and a new pair is not used before it is stored (`NewUnseen`).
- `CallsComeCloser`: see below. It needs `KindFits` once more: a login that reached the
  stages of a refresh would go round.

`Wiring_proofs`: `FewerEdges`, `AllowedEdge` and `SplicedEdge` - taking references away, an
edge the check of the canvas lets through, and a splice close no circle. Together they are
the reason behind `CyclesNeedBlindWrites`.

`Flow_proofs`: `TypeCorrect`; `DanglingExplained`: `[]DanglingHasCause`. The invariant adds
that what a write past its check names exists, or was erased meanwhile and is in
`forced` or `raced`. `CanvasIsFresh`: `[]FreshCanvas`. Only the gestures that draw on the
canvas send more than one write, and none of them deletes a node or meets a 409
(`PlansFit`); a load that nobody overtook has the tables it has read as they are
(`ReadingsFit`); and a page that does not show the tables has an operation that will load
them, or knows that others wrote, or shows an error (`FreshOrReloading`).
`CirclesNeedBlindWrites`, `EditsAlwaysStick` and `SplicesKeepFlow`:
`[]CyclesNeedBlindWrites`, `EditsStick` and `SpliceKeepsFlow`, from one invariant, `EInv`.
Rows and checked writes name only nodes that have existed, and a node that is still to be
created is new and belongs to one operation (`RowsFit`), so a new stage is read by nobody.
A gesture that is not shaky was made while nothing was under way on a page that shows the
tables - by `FreshCanvas` - and its writes still start from the rows as they are
(`AllAimed`): its own first write is about another row, and every write of somebody else
makes it shaky. What an aimed update does to the graph is then one of the three lemmas of
`Wiring_proofs`, or `NewNode`; `GrownFlow` and `SplicedFlow` say the same of flows.

`Deploys_proofs`: `TypeCorrect` (with: the deploys in `files` are exactly those that hold the
row); `FilesAreTheRows`: `[]FilesFollow`, with the invariant `FilesInv` - at most one deploy
holds the row, its hosts are written or still to be written, and every other member that is
not spoiled holds the snapshot; `GreenIsCurrent`: `[]GreenMeansCurrent`;
`LocalsGetCheckedFiles`: `[]LocalsAreGated`, with the invariant `GateInv` - a deploy that
could not be validated has no local hosts to write but those that joined late.

Deploys one after the other: `SerialDeploysAdvance` and `SerialGreenIsCurrent` assume that
no two deploys are under way (`[]OneAtATime`), and nothing else. Then every deploy advances the
generation, which is what the documentation says of each of them, and an agent
with the fleet's generation runs what was deployed last. They are the other half of the
finding `generation_reused`: overlapping is the one thing that breaks that sentence.

### The safety part of the liveness properties

TLAPS 1.4.5 has no rules for fairness and ENABLED, so that something happens in the end is
TLC's to check. What a liveness argument rests on otherwise - nothing is lost on the
way, and every step goes forward - is safety, and proved for every value of the constants:

| liveness (TLC) | proved |
|---|---|
| `DiskConverges`, `VersionConverges` | `PollsCatchUp`: one cycle that works on the last answer is enough; `NotModifiedCorrect`: an agent that stops because of a 304 and is healthy has what was deployed |
| `AlertsReachOutbox` | `NoAlertForgotten`: the row is there, or a process is between its commit and the enqueue |
| `AllClearFollows` | `NoAllClearForgotten`: the same for the all-clear once the alert's row exists |
| `PendingSettles` | `AttemptsCount`: who lets go of a pending row has settled it or used up an attempt; a settled row stays settled |
| `EveryCallSettles` | `CallsComeCloser`: a rank goes down with each step of a call; `QueuedAlwaysHaveLeader`: a parked call has a refresh it waits for |
| `CanvasComesBack` | `SpinnersHaveLoads`: a spinner has a load under way; `LoadsAdvance`: a load reads each table once and takes the spinner away |
| `DeploysEnd` | `DeploysComeCloser`: fewer steps or fewer files are left after each step |
| `AgentsFollow` | `SettledAgentsFollow`: an agent whose ETag is that of the row has what the row holds, or rejected it |

`NoAlertForgotten` and `NoAllClearForgotten` assume `Calm` steps: no process is stopped, no
channel changed, no old row deleted. That is less than the `Undisturbed` of the properties
they belong to, since endpoints may fail as they like. Section 6 says what happens without
it. There is no such theorem for `ReportConverges`, where a report may
be lost and only the next cycle makes up for it, and for `EventsFollow`, whose safety part is
a single step of `Commit`.

Every safety property that a passing run checks is proved. Model-checked only: the eleven
liveness properties themselves.

## 6. Findings and observations

Each of these runs refutes a statement of the repository:

- `cuts_restore` - `onEdgesDelete` computes every update from the lists as they were before
  the gesture, so when two deleted edges lead into one node, the second PATCH puts the first
  edge back (`FleetTopologyCanvas.tsx:331`).
- `generation_reused` - `deploy_fleet` adds one to the generation it read before it rendered
  and validated (`fleets.py:541`, `fleets.py:608`): overlapping deploys publish different
  contents under one number, and a slow one puts the counter back.

Seen while modelling, and not given a run.

Publish and converge:

- A failed write of certificate files keeps the ETag of an earlier answer
  (`agent.go:118`). When the fleet then goes back to that earlier content the poll is
  answered 304, so the host stays where the failed cycle left it - on a version or with
  certificate files of the other configuration - until the next change, and its next
  report is "ok" but not healthy. `Misled` excepts this from the convergence properties.
- The restart after an install (`agent.go:179`) loads the file on disk before the cycle's
  certificate files are written. When an earlier cycle wrote certificate files and then failed
  or was rejected, Vector comes up with the old configuration and the other one's files, or
  torn ones. `ReloadSeesItsCerts` excepts just that.
- Every error of the command `vector validate` is taken for a rejection (`vector.go:96`), also
  when it could not be started or was killed. The agent caches the ETag (`agent.go:129`; the
  comment at `agent.go:115` calls a rejection deterministic), so the host stays on its old
  configuration and the 304s that follow report `ok`; the generation it reports stays behind.
  `NotModifiedIsConverged`, `DiskConverges` and `ReportConverges` assume that this does not
  happen.
- The reconciliation on a 304, which is to retry a version that did not converge, never
  installs anything (`InstallsFollowAnswers`): what is left to do was done or has failed in
  the cycle that brought the answer.
- One cycle after a failed reload the 304 reports `ok` and the instance is shown healthy,
  although Vector still runs the old configuration (`agent.go`, `cycle`).
- An `Apply` that fails before the rename is recorded as applied; nothing retries.
- `applied_generation` survives a move to another fleet and is compared with the wrong
  counter.
- The ETag leaves the generation out, so deploying the same content again leaves agents
  "out of date" until the content changes.
- After an error the agent backs off up to five minutes (`agent.go:50`), longer than the
  three minutes after which it is shown as offline.
- A fleet of agent-mode hosts is deployed without validation when no Vector is
  reachable from the server (`fleets.py:578`), while `agent.py:138` and
  `deployed_config.py:10` call the served snapshot validated. Hosts validate
  themselves, so nothing unvalidated reaches a disk (`DiskIsPublished`).
- Certificate files are replaced before the candidate is validated
  (`agent.go:118`, `vector.go:67`): a rejected candidate leaves new certificates under
  the old configuration.
- A desired version spelled with a leading `v` installs and then shows as drift for
  ever, since `vector --version` is parsed without it (`agent.go:21`, `agent.go:183`).
- The new binary is installed before the candidate is validated (`agent.go:111`), so a
  rejected candidate can leave the old file under a binary that does not accept it.
- A fleet that was never deployed is answered 304, so its pinned version never
  reaches the hosts (`agent.py:141`).

Events and notifications:

- `vm_reachable` is asked after the metrics were fetched (`event_detector.py:93`); when
  VictoriaMetrics comes back in between, an event whose condition holds is resolved and its
  all-clear sent. `SteadyAllClearIsTrue` excludes just that.
- A worker cancelled between the send and the commit sends the message again, which the
  comment above the commit excludes.
- A crash between the two transactions of a pass loses the notification: the event
  is recorded, so no later pass sees the transition (`event_detector.py:231`,
  `notify.py:104`). `AlertsReachOutbox` therefore assumes that nothing stops.
- When one process resolves an event before another has enqueued its alert, the
  all-clear finds no alert row and is never enqueued (`notify.py:141`);
  `AllClearFollows` therefore starts from an alert that is in the outbox. The same
  happens when the alert's row was pruned.
- A sweep with an event retention also deletes events that are still open
  (`retention.py:42`); the next pass opens them again and sends a second alert.
- The claim looks at the status again but not at `next_attempt_at` (`notify.py:201`), so
  two dispatchers may try a failing row twice within one backoff.
- A dispatcher updates the channel's row while it holds a delivery; deleting the
  channel takes the locks in the other order, so the two may deadlock and one is
  rolled back by the database.

Sessions:

- A refresh that has passed `session.validate` (`auth.py:369`) re-arms the session
  (`auth.py:375`, `session.py:49`) even when a logout has ended it in between; the window is
  two Redis calls.
- A tab whose refresh lost the race against another tab removes the token that the other
  tab has just stored, and goes to `/login` (`api.ts:95`); the other tab is signed out with
  it at its next page load.
- Recovery: `get_ttl` is asked for a key that GETDEL has just removed (`recovery.py:90`), so
  after one wrong guess the token is gone, although the comment says it is put back.

Editing and deploying:

- `dataRef` is patched when the answer arrives, not when the drag is made, so two quick drags
  into one node still overwrite each other, although the comment on `dataRef` excludes it
  (`FleetTopologyCanvas.tsx:194`, `:299`).
- A drawer saves the inputs it was opened with (`StageEditor.tsx:61`), so an edge drawn
  meanwhile is removed again.
- After a refused deploy the dialog shows its message in place of the body
  (`Fleets.tsx:451`), so the blocking errors it speaks of are not on the page.
- Agent-mode hosts, whose deploy status is "pending", get the red cross of a failure in the
  list of results (`Fleets.tsx:538`).
- `validate_config` is a synchronous call of a subprocess inside an async handler
  (`config_render.py:559`): the one uvicorn process of the image answers nobody, agents
  included, until Vector has finished.
- When a tap is started again, the `finally` of the first stream marks the second as stopped
  (`LiveTap.tsx:171`).

## 7. What is not modelled

`PROJECT.json` lists every component with its status; the reasons, by kind:

- No state that several steps share: login limits, users, roles and API tokens (a few reads
  and one commit per request), certificates, registration, live metrics, tap and the MCP
  server (reads), AI generation and the VRL runner (calls of external programs).
- Protocol parsing: the identity providers. The session an SSO login ends in is minted as in
  `Sessions`.
- One-off steps: migrations run before anything else; re-encryption is one transaction, run
  while the backend is down.
- Break-glass recovery is a single handler; what is wrong with its order of calls is in
  section 6.
- Rendering is a pure function of a fleet's tables, long in data: names, VRL, TOML. Every
  module takes what it renders as a value. The references it reads are in `Wiring`.
- The rest of the web frontend: forms and tables that send one request and show its answer.
  Of the 39507 lines of TypeScript 23574 are a generated catalog of Vector's components, and
  most of the others are JSX, form fields and labels. The parts that keep state over several
  requests are modelled: the HTTP client and the signed-in user, the Flow page, the
  deploy dialog. This is why the map covers a small share of the TypeScript, and no
  faithful model would cover much more of it.

Inside the modelled parts these are left out: registration and token checks, deleting a
fleet or an instance, installs that time out (`FleetSync`); acknowledging an event, the
batch limit, the wording of messages (`Notify`); `allow_unvalidated`, which the dialog never
sends, the Validate button, a change of a host's push mode, a render whose queries straddle
an edit (`Deploys`); what a node is apart from its wiring, names, layout and the routes page,
which edits like the drawer (`Flow`).
