------------------------------- MODULE Notify -------------------------------
(***************************************************************************)
(* Fleet events and their notifications.  A process - the background       *)
(* worker of a backend replica, or a request for the dashboard - compares  *)
(* the conditions it observes with the open events                         *)
(* (services/event_detector.py), commits what opened and what resolved,    *)
(* and in a second transaction puts deliveries for the channels into an    *)
(* outbox (services/notify.py).  A worker goes on to dispatch the outbox.  *)
(*                                                                         *)
(* A process is stopped where it awaits something that others can observe: *)
(* between reading the metrics and the database, before each commit, and   *)
(* around the send.  Time is what makes a row due again.                   *)
(***************************************************************************)
EXTENDS Integers, FiniteSets

CONSTANTS
    Workers,      \* background workers, one per backend replica
    Dashboards,   \* requests for the dashboard
    Keys,         \* dedup keys: a kind of condition on one resource
    MetricKeys,   \* those that are read from VictoriaMetrics
    Channels,     \* notification channels
    Settings,     \* the settings an operator gives a channel
    Severity,     \* Severity[k]: the severity an event of key k gets
    None,
    MaxAttempts,  \* MAX_ATTEMPTS
    Faults,       \* the kinds of failure that may happen
    MaxEvents,    \* bound: events per key
    MaxChanges,   \* bound: changes of conditions and of VictoriaMetrics
    MaxOps,       \* bound: changes of channels, and sweeps
    MaxFaults     \* bound: failures

Procs == Workers \cup Dashboards
Severities == 1 .. 2         \* warning, critical
FaultKinds == {"abort", "refused", "noReply"}

Transitions == {"opened", "resolved"}
Event == Keys \X (1 .. MaxEvents)
Subject == Event \X Channels
Delivery == Subject \X Transitions
Steps == {"idle", "probe", "commit", "enqueue", "list", "claim", "send", "record"}

\* What the variables hold.
EventState == {"unborn", "open", "resolved", "deleted"}
ChannelState == {"unborn", "enabled", "disabled", "deleted"}
Channel == [state : ChannelState, onResolve : BOOLEAN, min : Severities]
OutboxRow == {r \in [status : {"pending", "sent", "failed"}, attempts : 0 .. MaxAttempts,
                    due : BOOLEAN] : r.status = "pending" => r.attempts < MaxAttempts}
Observation == [seen : SUBSET Keys, truth : SUBSET Keys, metrics : BOOLEAN,
                up : BOOLEAN, open : SUBSET Event]
News == [opened : SUBSET Event, resolved : SUBSET Event]

ASSUME ConstantsAssumption ==
    /\ MetricKeys \subseteq Keys
    /\ Settings \subseteq {s \in Channel : s.state \in {"enabled", "disabled"}}
    /\ Severity \in [Keys -> Severities]
    /\ None \notin OutboxRow /\ None \notin Delivery
    /\ MaxAttempts \in Nat \ {0}
    /\ Faults \subseteq FaultKinds
    /\ MaxEvents \in Nat /\ MaxChanges \in Nat /\ MaxOps \in Nat /\ MaxFaults \in Nat

VARIABLES
    cond,       \* cond[k]: does the condition hold right now?
    vm,         \* does VictoriaMetrics answer?
    event,      \* event[e]: the events table
    channel,    \* channel[c]: the notification channel
    outbox,     \* outbox[d]: the delivery row, None when there is none
    pc,         \* where a process is
    obs,        \* obs[p]: what its detection pass has read
    news,       \* news[p]: the transitions it committed and has not enqueued
    todo,       \* todo[p]: the candidates it listed
    claim,      \* claim[p]: the row it holds FOR UPDATE
    ok,         \* ok[p]: did the send return without an error?
    got,        \* history: how often each message arrived
    changes, ops, faults   \* bounds

vars == <<cond, vm, event, channel, outbox, pc, obs, news, todo, claim, ok, got,
          changes, ops, faults>>
env == <<cond, vm, changes>>

TypeOK ==
    /\ cond \in [Keys -> BOOLEAN] /\ vm \in BOOLEAN
    /\ event \in [Event -> EventState]
    /\ channel \in [Channels -> Channel]
    /\ outbox \in [Delivery -> OutboxRow \cup {None}]
    /\ pc \in [Procs -> Steps]
    /\ obs \in [Procs -> Observation]
    /\ news \in [Procs -> News]
    /\ todo \in [Procs -> SUBSET Delivery]
    /\ claim \in [Procs -> Delivery \cup {None}]
    /\ ok \in [Procs -> BOOLEAN]
    /\ got \in [Delivery -> Nat]
    /\ changes \in Nat /\ ops \in Nat /\ faults \in Nat

NoObservation == [seen |-> {}, truth |-> {}, metrics |-> FALSE, up |-> FALSE, open |-> {}]
Planned == [state |-> "unborn", onResolve |-> FALSE, min |-> 1]
NoNews == [opened |-> {}, resolved |-> {}]

Init ==
    /\ cond \in [Keys -> BOOLEAN] /\ vm = TRUE
    /\ event = [e \in Event |-> "unborn"]
    /\ channel \in [Channels -> {Planned} \cup Settings]
    /\ outbox = [d \in Delivery |-> None]
    /\ pc = [p \in Procs |-> "idle"]
    /\ obs = [p \in Procs |-> NoObservation]
    /\ news = [p \in Procs |-> NoNews]
    /\ todo = [p \in Procs |-> {}]
    /\ claim = [p \in Procs |-> None]
    /\ ok = [p \in Procs |-> FALSE]
    /\ got = [d \in Delivery |-> 0]
    /\ changes = 0 /\ ops = 0 /\ faults = 0

Open(e) == event[e] = "open"
Enabled(c) == channel[c].state = "enabled"
Locked(d) == \E p \in Procs : claim[p] = d
Goto(p, step) == pc' = [pc EXCEPT ![p] = step]

-----------------------------------------------------------------------------
(* The world: conditions come and go, and so does VictoriaMetrics. *)

Changes ==
    /\ changes < MaxChanges
    /\ changes' = changes + 1
    /\ UNCHANGED <<event, channel, outbox, pc, obs, news, todo, claim, ok, got, ops, faults>>

ConditionChanges(k) ==
    /\ Changes
    /\ cond' = [cond EXCEPT ![k] = ~@]
    /\ UNCHANGED vm

VmChanges ==
    /\ Changes
    /\ vm' = ~vm
    /\ UNCHANGED cond

-----------------------------------------------------------------------------
(* Detection (_active_conditions, _reconcile). *)

\* The conditions; metrics that cannot be read count as zero.
Observe(p) ==
    LET truth == {k \in Keys : cond[k]}
    IN  /\ pc[p] = "idle"
        /\ obs' = [obs EXCEPT ![p] =
               [NoObservation EXCEPT !.seen = IF vm THEN truth ELSE truth \ MetricKeys,
                                     !.truth = truth, !.metrics = vm]]
        /\ Goto(p, "probe")
        /\ UNCHANGED <<env, event, channel, outbox, news, todo, claim, ok, got, ops, faults>>

\* vm_reachable, and then the open events.
Probe(p) ==
    /\ pc[p] = "probe"
    /\ obs' = [obs EXCEPT ![p] = [@ EXCEPT !.up = vm, !.open = {e \in Event : Open(e)}]]
    /\ Goto(p, "commit")
    /\ UNCHANGED <<env, event, channel, outbox, news, todo, claim, ok, got, ops, faults>>

\* Mutated: the index on the keys is not restricted to open events.
InsertsOnce(p, k) ==
    /\ k \in obs[p].seen
    /\ \A e \in Event : event[e] # "unborn" => e[1] # k

\* INSERT ... ON CONFLICT DO NOTHING on the open events' keys.
Inserts(p, k) ==
    /\ k \in obs[p].seen
    /\ \A e \in obs[p].open : e[1] # k
    /\ \A e \in Event : Open(e) => e[1] # k

\* Mutated: an outage of the metrics clears their events.
ClearsInOutage(p, e) == e \in obs[p].open /\ e[1] \notin obs[p].seen

Clears(p, e) ==
    /\ e \in obs[p].open /\ e[1] \notin obs[p].seen
    /\ obs[p].up \/ e[1] \notin MetricKeys

FirstUnborn(k) == {e \in Event : /\ e[1] = k /\ event[e] = "unborn"
                                 /\ \A n \in 1 .. (e[2] - 1) : event[<<k, n>>] # "unborn"}

\* An event to resolve was pruned: the flush fails and the pass ends without effect.
CommitFails(p) ==
    /\ pc[p] = "commit"
    /\ \E e \in Event : Clears(p, e) /\ event[e] = "deleted"
    /\ obs' = [obs EXCEPT ![p] = NoObservation]
    /\ Goto(p, "idle")
    /\ UNCHANGED <<env, event, channel, outbox, news, todo, claim, ok, got, ops, faults>>

Commit(p) ==
    LET opened == UNION {FirstUnborn(k) : k \in {j \in Keys : Inserts(p, j)}}
        resolved == {e \in Event : Clears(p, e)}
    IN  /\ pc[p] = "commit"
        /\ \A e \in resolved : event[e] # "deleted"
        /\ event' = [e \in Event |-> IF e \in resolved THEN "resolved"
                                     ELSE IF e \in opened THEN "open" ELSE event[e]]
        /\ news' = [news EXCEPT ![p] = [opened |-> opened, resolved |-> resolved]]
        /\ obs' = [obs EXCEPT ![p] = NoObservation]
        /\ Goto(p, "enqueue")
        /\ UNCHANGED <<env, channel, outbox, todo, claim, ok, got, ops, faults>>

-----------------------------------------------------------------------------
(* The outbox (enqueue_deliveries). *)

\* Mutated: the all-clear is wanted only when the alert was sent already.
WantsSentClear(e, c) ==
    channel[c].onResolve /\ outbox[<<<<e, c>>, "opened">>] # None
        /\ outbox[<<<<e, c>>, "opened">>].status = "sent"

\* An all-clear is for channels that were to hear the alert.
WantsClear(e, c) == channel[c].onResolve /\ outbox[<<<<e, c>>, "opened">>] # None

WantsAlert(e, c) == Severity[e[1]] >= channel[c].min

NewRow == [status |-> "pending", attempts |-> 0, due |-> TRUE]

\* Mutated: only the worker enqueues.
WantedByWorker(p) ==
    {d \in Delivery :
        LET e == d[1][1]
            c == d[1][2]
        IN  /\ p \in Workers /\ outbox[d] = None /\ Enabled(c)
            /\ \/ d[2] = "opened" /\ e \in news[p].opened /\ WantsAlert(e, c)
               \/ d[2] = "resolved" /\ e \in news[p].resolved /\ WantsClear(e, c)}

\* ON CONFLICT DO NOTHING: a row that exists stays as it is.
Wanted(p) ==
    {d \in Delivery :
        LET e == d[1][1]
            c == d[1][2]
        IN  /\ outbox[d] = None /\ Enabled(c)
            /\ \/ d[2] = "opened" /\ e \in news[p].opened /\ WantsAlert(e, c)
               \/ d[2] = "resolved" /\ e \in news[p].resolved /\ WantsClear(e, c)}

Enqueue(p) ==
    /\ pc[p] = "enqueue"
    /\ outbox' = [d \in Delivery |-> IF d \in Wanted(p) THEN NewRow ELSE outbox[d]]
    /\ news' = [news EXCEPT ![p] = NoNews]
    /\ Goto(p, IF p \in Workers THEN "list" ELSE "idle")
    /\ UNCHANGED <<env, event, channel, obs, todo, claim, ok, got, ops, faults>>

-----------------------------------------------------------------------------
(* Dispatch (dispatch_pending). *)

Pending(d) == outbox[d] # None /\ outbox[d].status = "pending"

List(p) ==
    /\ pc[p] = "list"
    /\ todo' = [todo EXCEPT ![p] = {d \in Delivery : Pending(d) /\ outbox[d].due}]
    /\ Goto(p, "claim")
    /\ UNCHANGED <<env, event, channel, outbox, obs, news, claim, ok, got, ops, faults>>

\* The batch is done; the worker sleeps until its next tick.
Sleep(p) ==
    /\ pc[p] = "claim" /\ todo[p] = {}
    /\ Goto(p, "idle")
    /\ UNCHANGED <<env, event, channel, outbox, obs, news, todo, claim, ok, got, ops, faults>>

Take(p, d) ==
    /\ pc[p] = "claim" /\ d \in todo[p]
    /\ todo' = [todo EXCEPT ![p] = @ \ {d}]
    /\ UNCHANGED <<env, event, channel, obs, news, ok, got, ops, faults>>

Settle(d, status) == outbox' = [outbox EXCEPT ![d] = [@ EXCEPT !.status = status]]

\* Mutated: the status is not looked at again.
FreeUnseen(d) == outbox[d] # None /\ ~Locked(d)

\* FOR UPDATE SKIP LOCKED, and the status once more.
Free(d) == Pending(d) /\ ~Locked(d)

\* Somebody else has the row, or it needs no work any more.
Skip(p, d) ==
    /\ Take(p, d) /\ ~Free(d)
    /\ UNCHANGED <<outbox, pc, claim>>

Disabled(p, d) ==
    /\ Take(p, d) /\ Free(d)
    /\ ~Enabled(d[1][2])
    /\ Settle(d, "failed")
    /\ UNCHANGED <<pc, claim>>

\* Mutated: an alert that was pruned counts as pending.
AlertOrPending(d) ==
    LET row == outbox[<<d[1], "opened">>] IN IF row = None THEN "pending" ELSE row.status

\* What the alert of an all-clear has come to (_resolve_ready).
AlertStatus(d) ==
    LET row == outbox[<<d[1], "opened">>] IN IF row = None THEN "none" ELSE row.status

\* Mutated: a pending alert does not hold the all-clear back.
ReadyEarly(d) == d[2] = "resolved" => AlertStatus(d) \in {"sent", "pending"}

Ready(d) == d[2] = "resolved" => AlertStatus(d) = "sent"

\* The alert gave up, so nobody needs an all-clear.
DropClear(p, d) ==
    /\ Take(p, d) /\ Free(d)
    /\ Enabled(d[1][2]) /\ ~Ready(d) /\ AlertStatus(d) \in {"failed", "none"}
    /\ Settle(d, "failed")
    /\ UNCHANGED <<pc, claim>>

\* The alert is still on its way: look again later.
Defer(p, d) ==
    /\ Take(p, d) /\ Free(d)
    /\ Enabled(d[1][2]) /\ ~Ready(d) /\ AlertStatus(d) = "pending"
    /\ outbox' = [outbox EXCEPT ![d] = [@ EXCEPT !.due = FALSE]]
    /\ UNCHANGED <<pc, claim>>

Claim(p, d) ==
    /\ Take(p, d) /\ Free(d)
    /\ Enabled(d[1][2]) /\ Ready(d)
    /\ claim' = [claim EXCEPT ![p] = d]
    /\ Goto(p, "send")
    /\ UNCHANGED outbox

\* _send returns: did the message arrive, and does the worker know?
Sent(p, arrives, knows) ==
    /\ pc[p] = "send"
    /\ got' = IF arrives THEN [got EXCEPT ![claim[p]] = got[claim[p]] + 1] ELSE got
    /\ ok' = [ok EXCEPT ![p] = knows]
    /\ Goto(p, "record")
    /\ UNCHANGED <<env, event, channel, outbox, obs, news, todo, claim, ops>>

Send(p) == Sent(p, TRUE, TRUE) /\ UNCHANGED faults

\* Mutated: it gives up one attempt too late.
FailedLate(row) ==
    IF row.attempts + 1 > MaxAttempts
    THEN [row EXCEPT !.attempts = row.attempts + 1, !.status = "failed"]
    ELSE [row EXCEPT !.attempts = row.attempts + 1, !.due = FALSE]

\* _record_failure: try again later, or give up.
Failed(row) ==
    IF row.attempts + 1 >= MaxAttempts
    THEN [row EXCEPT !.attempts = row.attempts + 1, !.status = "failed"]
    ELSE [row EXCEPT !.attempts = row.attempts + 1, !.due = FALSE]

\* The outcome is committed, which releases the row.
Record(p) ==
    /\ pc[p] = "record"
    /\ outbox' = [outbox EXCEPT ![claim[p]] =
           IF ok[p] THEN [@ EXCEPT !.status = "sent"] ELSE Failed(outbox[claim[p]])]
    /\ claim' = [claim EXCEPT ![p] = None]
    /\ ok' = [ok EXCEPT ![p] = FALSE]
    /\ Goto(p, "claim")
    /\ UNCHANGED <<env, event, channel, obs, news, todo, got, ops, faults>>

\* The backoff of a row is over.
TimePasses(d) ==
    /\ Pending(d) /\ ~outbox[d].due
    /\ outbox' = [outbox EXCEPT ![d] = [@ EXCEPT !.due = TRUE]]
    /\ UNCHANGED <<env, event, channel, pc, obs, news, todo, claim, ok, got, ops, faults>>

-----------------------------------------------------------------------------
(* Operators and the retention sweep; a DELETE waits for a locked row. *)

Operate ==
    /\ ops < MaxOps
    /\ ops' = ops + 1
    /\ UNCHANGED <<env, pc, obs, news, todo, claim, ok, got, faults>>

\* create_channel and update_channel.
SetChannel(c, settings) ==
    /\ Operate
    /\ channel[c].state # "deleted"
    /\ channel[c] # settings
    /\ channel' = [channel EXCEPT ![c] = settings]
    /\ UNCHANGED <<event, outbox>>

\* The rows among gone disappear.
Delete(gone) ==
    /\ \A d \in gone : ~Locked(d)
    /\ outbox' = [d \in Delivery |-> IF d \in gone THEN None ELSE outbox[d]]

DeleteChannel(c) ==
    /\ Operate
    /\ channel[c].state \in {"enabled", "disabled"}
    /\ channel' = [channel EXCEPT ![c] = [@ EXCEPT !.state = "deleted"]]
    /\ Delete({d \in Delivery : d[1][2] = c})
    /\ UNCHANGED event

\* What is pruned is a day old at least: no process is still about to enqueue it.
Old(e) == \A p \in Procs : e \notin news[p].opened \cup news[p].resolved

\* prune_old_records: by age alone, whatever the state of the row.
PruneEvent(e) ==
    /\ Operate
    /\ Old(e)
    /\ event[e] \in {"open", "resolved"}
    /\ event' = [event EXCEPT ![e] = "deleted"]
    /\ Delete({d \in Delivery : d[1][1] = e})
    /\ UNCHANGED channel

PruneDelivery(d) ==
    /\ Operate
    /\ Old(d[1][1])
    /\ d[2] = "resolved" => \A p \in Procs : d[1][1] \notin obs[p].open
    /\ outbox[d] # None
    /\ Delete({d})
    /\ UNCHANGED <<event, channel>>

-----------------------------------------------------------------------------
(* Failures. *)

Fault(kind) ==
    /\ kind \in Faults
    /\ faults < MaxFaults
    /\ faults' = faults + 1

\* The process stops, is cancelled, or loses its database: what it had not
\* committed is rolled back, its row is released, and it starts over.
Abort(p) ==
    /\ Fault("abort")
    /\ pc[p] # "idle"
    /\ Goto(p, "idle")
    /\ obs' = [obs EXCEPT ![p] = NoObservation]
    /\ news' = [news EXCEPT ![p] = NoNews]
    /\ todo' = [todo EXCEPT ![p] = {}]
    /\ claim' = [claim EXCEPT ![p] = None]
    /\ ok' = [ok EXCEPT ![p] = FALSE]
    /\ UNCHANGED <<env, event, channel, outbox, got, ops>>

\* The endpoint cannot be reached, or it refuses.
SendFails(p) == Fault("refused") /\ Sent(p, FALSE, FALSE)

\* The message arrives, the answer does not.
ReplyLost(p) == Fault("noReply") /\ Sent(p, TRUE, FALSE)

-----------------------------------------------------------------------------
ProcStep(p) ==
    \/ Observe(p) \/ Probe(p) \/ Commit(p) \/ CommitFails(p) \/ Enqueue(p)
    \/ List(p) \/ Sleep(p)
    \/ \E d \in todo[p] : \/ Skip(p, d) \/ Disabled(p, d) \/ DropClear(p, d)
                          \/ Defer(p, d) \/ Claim(p, d)
    \/ Send(p) \/ Record(p)

FaultStep(p) == Abort(p) \/ SendFails(p) \/ ReplyLost(p)

WorldStep ==
    \/ \E k \in Keys : ConditionChanges(k)
    \/ VmChanges
    \/ \E c \in Channels : DeleteChannel(c) \/ \E s \in Settings : SetChannel(c, s)
    \/ \E e \in Event : PruneEvent(e)
    \/ \E d \in Delivery : PruneDelivery(d)

Next ==
    \/ \E p \in Procs : ProcStep(p) \/ FaultStep(p)
    \/ WorldStep
    \/ \E d \in Delivery : TimePasses(d)

Spec == Init /\ [][Next]_vars

\* _notification_worker loops for ever and a request is served to its end; the
\* clock goes on.
Fairness ==
    /\ \A p \in Workers : WF_vars(ProcStep(p))
    /\ \A p \in Dashboards : WF_vars(pc[p] # "idle" /\ ProcStep(p))
    /\ \A d \in Delivery : WF_vars(TimePasses(d))
FairSpec == Spec /\ Fairness

-----------------------------------------------------------------------------
(* Safety. *)

\* For every event and channel the messages come in order: an all-clear only
\* after the alert arrived, and no alert after it - whatever is retried, pruned
\* or dispatched at once (_resolve_ready, FOR UPDATE SKIP LOCKED).
A == INSTANCE Alerts WITH Subjects <- Subject
ImplementsAlerts == A!Spec

\* Dispatchers never repeat a message that they know has gone out; only a
\* failure - a lost answer, a worker stopped before its commit - repeats one,
\* and each failure at most once.
RepeatsNeedFailures == \A d \in Delivery : got[d] =< 1 + faults

Resolves(p) == pc[p] = "commit" /\ pc'[p] = "enqueue"

\* An event is resolved only by a pass that found its condition cleared - a
\* metric it could not read is no such finding - as long as VictoriaMetrics does
\* not come back in the middle of the pass (_reconcile, vm_reachable).
SteadyAllClearIsTrue ==
    [][\A p \in Procs : Resolves(p) /\ (obs[p].up => obs[p].metrics)
            => \A e \in news'[p].resolved : e[1] \notin obs[p].truth]_vars

-----------------------------------------------------------------------------
(* Liveness. *)

HasOpen(k) == \E e \in Event : e[1] = k /\ Open(e)

\* The events settle on the conditions: one that lasts is open, one that stays
\* away is not, if VictoriaMetrics answers in the end.
EventsFollow ==
    \A k \in Keys : <>[]vm =>
        /\ <>[]cond[k] => <>[]HasOpen(k)
        /\ <>[]~cond[k] => <>[]~HasOpen(k)

\* Every delivery is sent or given up in the end; an all-clear does not wait for
\* ever for its alert.
PendingSettles == \A d \in Delivery : Pending(d) ~> ~Pending(d)

\* Nobody stops a process, changes a channel or deletes old rows.
Undisturbed == MaxOps = 0 /\ MaxFaults = 0

\* Whoever notices an event first, worker or dashboard, an alert is put into the
\* outbox for every enabled channel that wants its severity.
AlertsReachOutbox ==
    Undisturbed => \A e \in Event, c \in Channels :
        Open(e) /\ Enabled(c) /\ WantsAlert(e, c) ~> outbox[<<<<e, c>>, "opened">>] # None

\* When the alert is in the outbox while the event is open, in whatever state,
\* the all-clear follows into the outbox once the event is resolved.
AllClearFollows ==
    Undisturbed => \A e \in Event, c \in Channels :
        [](/\ Open(e) /\ outbox[<<<<e, c>>, "opened">>] # None
           /\ Enabled(c) /\ channel[c].onResolve
           => [](event[e] = "resolved"
                   => <>(outbox[<<<<e, c>>, "resolved">>] # None)))
=============================================================================
