---------------------------- MODULE Notify_proofs ----------------------------
(***************************************************************************)
(* Proofs about Notify, for any number of processes, keys and channels.    *)
(***************************************************************************)
EXTENDS Notify, TLAPS

\* A process holds a row exactly while it sends and records; nobody else holds
\* the row, and it stays pending.
ClaimOK ==
    /\ \A p \in Procs : claim[p] # None <=> pc[p] \in {"send", "record"}
    /\ \A p \in Procs : claim[p] # None => Pending(claim[p])
    /\ \A p, q \in Procs : claim[p] # None /\ claim[p] = claim[q] => p = q

\* What a process has committed and not enqueued: an event it opened is its own
\* and nothing was ever sent for it; an event it resolved is resolved.
NewsOK ==
    /\ \A p \in Procs : pc[p] # "enqueue" => news[p] = NoNews
    /\ \A p \in Procs : \A e \in news[p].opened :
           /\ event[e] \in {"open", "resolved"}
           /\ \A q \in Procs : e \in news[q].opened => p = q
    /\ \A p \in Procs : \A e \in news[p].resolved : event[e] = "resolved"
    /\ \A p \in Procs : \A e \in obs[p].open : event[e] # "unborn"

\* Nothing is sent for an event that does not exist or is not enqueued yet, and
\* an all-clear is for events that are over.
Fresh(e) == event[e] = "unborn" \/ \E p \in Procs : e \in news[p].opened
FreshOK ==
    \A e \in Event, c \in Channels, t \in Transitions :
        Fresh(e) => outbox[<<<<e, c>>, t>>] = None /\ got[<<<<e, c>>, t>>] = 0

\* An all-clear exists only for an event that is over.
ClearOK ==
    \A e \in Event, c \in Channels :
        outbox[<<<<e, c>>, "resolved">>] # None => event[e] = "resolved"

\* What is marked as sent, or is about to be, has arrived.
SentOK ==
    /\ \A d \in Delivery : outbox[d] # None /\ outbox[d].status = "sent" => got[d] > 0
    /\ \A p \in Procs : pc[p] = "record" /\ ok[p] => got[claim[p]] > 0

\* Once the all-clear is on its way the alert has arrived and is not pending.
OrderOK ==
    \A s \in Subject :
        got[<<s, "resolved">>] > 0 \/ (\E p \in Procs : claim[p] = <<s, "resolved">>)
        => got[<<s, "opened">>] > 0 /\ ~Pending(<<s, "opened">>)

\* An all-clear that arrived and whose row was pruned is not enqueued again.
Over(e) == /\ event[e] \in {"resolved", "deleted"}
           /\ \A p \in Procs : e \notin news[p].resolved
           /\ event[e] = "resolved" => \A p \in Procs : e \notin obs[p].open
PrunedOK ==
    \A e \in Event, c \in Channels :
        outbox[<<<<e, c>>, "resolved">>] = None /\ got[<<<<e, c>>, "resolved">>] > 0
        => channel[c].state = "deleted" \/ Over(e)

\* A pending row may have arrived once per failure, plus once if its sender is
\* about to record it.
CountOK ==
    \A d \in Delivery :
        /\ got[d] =< 1 + faults
        /\ Pending(d) => got[d] =< faults
                         \/ \E p \in Procs : claim[p] = d /\ pc[p] = "record" /\ ok[p]

NotifyInv == /\ TypeOK /\ ClaimOK /\ NewsOK /\ FreshOK /\ ClearOK
             /\ SentOK /\ OrderOK /\ PrunedOK /\ CountOK

-----------------------------------------------------------------------------
(* Types. *)

LEMMA DeliveryParts ==
    ASSUME NEW d \in Delivery
    PROVE  /\ d[1] \in Subject /\ d[2] \in Transitions /\ d = <<d[1], d[2]>>
           /\ d[1][1] \in Event /\ d[1][2] \in Channels /\ d[1] = <<d[1][1], d[1][2]>>
BY DEF Delivery, Subject

LEMMA SubjectParts ==
    ASSUME NEW e \in Event, NEW c \in Channels
    PROVE  /\ <<e, c>> \in Subject
           /\ <<<<e, c>>, "opened">> \in Delivery
           /\ <<<<e, c>>, "resolved">> \in Delivery
BY DEF Delivery, Subject, Transitions

LEMMA NewRowType == NewRow \in OutboxRow /\ NewRow # None
<1>1. MaxAttempts \in Nat \ {0} /\ None \notin OutboxRow
  BY ConstantsAssumption
<1>2. NewRow \in OutboxRow
  BY <1>1 DEF NewRow, OutboxRow
<1> QED
  BY <1>1, <1>2

\* A row that is looked at, deferred, settled or failed keeps its type.
LEMMA RowType ==
    ASSUME NEW r \in OutboxRow, r.status = "pending"
    PROVE  /\ [r EXCEPT !.status = "sent"] \in OutboxRow
           /\ [r EXCEPT !.status = "failed"] \in OutboxRow
           /\ [r EXCEPT !.due = FALSE] \in OutboxRow
           /\ [r EXCEPT !.due = TRUE] \in OutboxRow
           /\ Failed(r) \in OutboxRow
<1>1. /\ r \in [status : {"pending", "sent", "failed"}, attempts : 0 .. MaxAttempts,
                due : BOOLEAN]
      /\ r.attempts < MaxAttempts
  BY DEF OutboxRow
<1>2. r.attempts + 1 \in 0 .. MaxAttempts
  BY <1>1, ConstantsAssumption
<1>3. /\ [r EXCEPT !.status = "sent"] \in OutboxRow
      /\ [r EXCEPT !.status = "failed"] \in OutboxRow
      /\ [r EXCEPT !.due = FALSE] \in OutboxRow
      /\ [r EXCEPT !.due = TRUE] \in OutboxRow
  BY <1>1 DEF OutboxRow
<1>4. CASE r.attempts + 1 >= MaxAttempts
  <2>1. Failed(r) = [r EXCEPT !.attempts = r.attempts + 1, !.status = "failed"]
    BY <1>4 DEF Failed
  <2>2. [r EXCEPT !.attempts = r.attempts + 1, !.status = "failed"] \in OutboxRow
    BY <1>1, <1>2 DEF OutboxRow
  <2> QED
    BY <1>3, <2>1, <2>2
<1>5. CASE ~(r.attempts + 1 >= MaxAttempts)
  <2>1. Failed(r) = [r EXCEPT !.attempts = r.attempts + 1, !.due = FALSE]
    BY <1>5 DEF Failed
  <2>2. r.attempts + 1 < MaxAttempts
    BY <1>1, <1>5, ConstantsAssumption
  <2>3. [r EXCEPT !.attempts = r.attempts + 1, !.due = FALSE] \in OutboxRow
    BY <1>1, <1>2, <2>2 DEF OutboxRow
  <2> QED
    BY <1>3, <2>1, <2>3
<1> QED
  BY <1>4, <1>5

LEMMA InitType == Init => TypeOK
<1> SUFFICES ASSUME Init PROVE TypeOK
  OBVIOUS
<1>1. Planned \in Channel /\ Settings \subseteq Channel
  BY ConstantsAssumption DEF Planned, Channel, ChannelState, Severities
<1>2. channel \in [Channels -> Channel]
  BY <1>1 DEF Init
<1>3. obs \in [Procs -> Observation] /\ news \in [Procs -> News]
  BY DEF Init, NoObservation, Observation, NoNews, News
<1>4. event \in [Event -> EventState] /\ pc \in [Procs -> Steps]
  BY DEF Init, EventState, Steps
<1> QED
  BY <1>2, <1>3, <1>4 DEF Init, TypeOK

\* A row that a process may work on.
LEMMA PendingType ==
    ASSUME TypeOK, NEW d \in Delivery, Pending(d)
    PROVE  outbox[d] \in OutboxRow /\ outbox[d].status = "pending"
BY DEF TypeOK, Pending

LEMMA WorldType == TypeOK /\ WorldStep => TypeOK'
<1> SUFFICES ASSUME TypeOK, WorldStep PROVE TypeOK'
  OBVIOUS
<1>1. ASSUME NEW k \in Keys, ConditionChanges(k) PROVE TypeOK'
  BY <1>1 DEF TypeOK, ConditionChanges, Changes
<1>2. ASSUME VmChanges PROVE TypeOK'
  BY <1>2 DEF TypeOK, VmChanges, Changes
<1>3. ASSUME NEW c \in Channels, DeleteChannel(c) PROVE TypeOK'
  <2>1. channel[c] \in Channel
    BY DEF TypeOK
  <2>2. [channel[c] EXCEPT !.state = "deleted"] \in Channel
    BY <2>1 DEF Channel, ChannelState
  <2>3. channel' \in [Channels -> Channel]
    BY <1>3, <2>2 DEF TypeOK, DeleteChannel
  <2>4. outbox' \in [Delivery -> OutboxRow \cup {None}]
    BY <1>3 DEF TypeOK, DeleteChannel, Delete
  <2> QED
    BY <1>3, <2>3, <2>4 DEF TypeOK, DeleteChannel, Operate, env
<1>4. ASSUME NEW c \in Channels, NEW s \in Settings, SetChannel(c, s) PROVE TypeOK'
  <2>1. s \in Channel
    BY ConstantsAssumption
  <2>2. channel' \in [Channels -> Channel]
    BY <1>4, <2>1 DEF TypeOK, SetChannel
  <2> QED
    BY <1>4, <2>2 DEF TypeOK, SetChannel, Operate, env
<1>5. ASSUME NEW e \in Event, PruneEvent(e) PROVE TypeOK'
  <2>1. outbox' \in [Delivery -> OutboxRow \cup {None}]
    BY <1>5 DEF TypeOK, PruneEvent, Delete
  <2>2. event' \in [Event -> EventState]
    BY <1>5 DEF TypeOK, PruneEvent, EventState
  <2> QED
    BY <1>5, <2>1, <2>2 DEF TypeOK, PruneEvent, Operate, env
<1>6. ASSUME NEW d \in Delivery, PruneDelivery(d) PROVE TypeOK'
  <2>1. outbox' \in [Delivery -> OutboxRow \cup {None}]
    BY <1>6 DEF TypeOK, PruneDelivery, Delete
  <2> QED
    BY <1>6, <2>1 DEF TypeOK, PruneDelivery, Operate, env
<1> QED
  BY <1>1, <1>2, <1>3, <1>4, <1>5, <1>6 DEF WorldStep

\* The rows and the claim that a sender works on.
LEMMA ClaimType ==
    ASSUME TypeOK, ClaimOK, NEW p \in Procs, pc[p] \in {"send", "record"}
    PROVE  /\ claim[p] \in Delivery /\ Pending(claim[p])
           /\ outbox[claim[p]] \in OutboxRow /\ outbox[claim[p]].status = "pending"
<1>1. claim[p] # None /\ claim[p] \in Delivery
  BY DEF TypeOK, ClaimOK
<1>2. Pending(claim[p])
  BY <1>1 DEF ClaimOK
<1> QED
  BY <1>1, <1>2, PendingType

\* Dispatching one candidate.
LEMMA TakeType ==
    ASSUME TypeOK, NEW p \in Procs, NEW d \in todo[p],
           Skip(p, d) \/ Disabled(p, d) \/ DropClear(p, d) \/ Defer(p, d) \/ Claim(p, d)
    PROVE  TypeOK'
<1>1. d \in Delivery /\ todo' \in [Procs -> SUBSET Delivery]
  BY DEF TypeOK, Skip, Disabled, DropClear, Defer, Claim, Take
<1>2. ASSUME Skip(p, d) PROVE TypeOK'
  BY <1>1, <1>2 DEF TypeOK, Skip, Take, env
<1>3. ASSUME Disabled(p, d) PROVE TypeOK'
  <2>1. Pending(d)
    BY <1>3 DEF Disabled, Free
  <2>2. [outbox[d] EXCEPT !.status = "failed"] \in OutboxRow
    BY <1>1, <2>1, PendingType, RowType
  <2>3. outbox' \in [Delivery -> OutboxRow \cup {None}]
    BY <1>3, <2>2 DEF TypeOK, Disabled, Settle
  <2> QED
    BY <1>1, <1>3, <2>3 DEF TypeOK, Disabled, Take, env
<1>4. ASSUME DropClear(p, d) PROVE TypeOK'
  <2>1. Pending(d)
    BY <1>4 DEF DropClear, Free
  <2>2. [outbox[d] EXCEPT !.status = "failed"] \in OutboxRow
    BY <1>1, <2>1, PendingType, RowType
  <2>3. outbox' \in [Delivery -> OutboxRow \cup {None}]
    BY <1>4, <2>2 DEF TypeOK, DropClear, Settle
  <2> QED
    BY <1>1, <1>4, <2>3 DEF TypeOK, DropClear, Take, env
<1>5. ASSUME Defer(p, d) PROVE TypeOK'
  <2>1. Pending(d)
    BY <1>5 DEF Defer, Free
  <2>2. [outbox[d] EXCEPT !.due = FALSE] \in OutboxRow
    BY <1>1, <2>1, PendingType, RowType
  <2>3. outbox' \in [Delivery -> OutboxRow \cup {None}]
    BY <1>5, <2>2 DEF TypeOK, Defer
  <2> QED
    BY <1>1, <1>5, <2>3 DEF TypeOK, Defer, Take, env
<1>6. ASSUME Claim(p, d) PROVE TypeOK'
  BY <1>1, <1>6 DEF TypeOK, Claim, Take, Goto, Steps, env
<1> QED
  BY <1>2, <1>3, <1>4, <1>5, <1>6

LEMMA ProcType ==
    ASSUME TypeOK, ClaimOK, NEW p \in Procs, ProcStep(p) \/ FaultStep(p)
    PROVE  TypeOK'
<1>0. obs[p] \in Observation /\ NoObservation \in Observation /\ NoNews \in News
  BY DEF TypeOK, NoObservation, Observation, NoNews, News
<1>1. ASSUME Observe(p) PROVE TypeOK'
  <2> DEFINE truth == {k \in Keys : cond[k]}
             seen == IF vm THEN truth ELSE truth \ MetricKeys
  <2>1. [NoObservation EXCEPT !.seen = seen, !.truth = truth, !.metrics = vm]
        \in Observation
    BY <1>0 DEF TypeOK, Observation
  <2>2. obs' \in [Procs -> Observation]
    BY <1>1, <2>1 DEF TypeOK, Observe
  <2> QED
    BY <1>1, <2>2 DEF TypeOK, Observe, Goto, Steps, env
<1>2. ASSUME Probe(p) PROVE TypeOK'
  <2>1. [obs[p] EXCEPT !.up = vm, !.open = {e \in Event : Open(e)}] \in Observation
    BY <1>0 DEF TypeOK, Observation
  <2>2. obs' \in [Procs -> Observation]
    BY <1>2, <2>1 DEF TypeOK, Probe
  <2> QED
    BY <1>2, <2>2 DEF TypeOK, Probe, Goto, Steps, env
<1>3. ASSUME Commit(p) PROVE TypeOK'
  <2> DEFINE opened == UNION {FirstUnborn(k) : k \in {j \in Keys : Inserts(p, j)}}
             resolved == {e \in Event : Clears(p, e)}
  <2>1. opened \in SUBSET Event /\ resolved \in SUBSET Event
    BY DEF FirstUnborn
  <2>2. news' \in [Procs -> News]
    BY <1>3, <2>1 DEF TypeOK, Commit, News
  <2>3. event' \in [Event -> EventState]
    BY <1>3 DEF TypeOK, Commit, EventState
  <2>4. obs' \in [Procs -> Observation]
    BY <1>0, <1>3 DEF TypeOK, Commit
  <2> QED
    BY <1>3, <2>2, <2>3, <2>4 DEF TypeOK, Commit, Goto, Steps, env
<1>4. ASSUME CommitFails(p) PROVE TypeOK'
  BY <1>0, <1>4 DEF TypeOK, CommitFails, Goto, Steps, env
<1>5. ASSUME Enqueue(p) PROVE TypeOK'
  <2>1. outbox' \in [Delivery -> OutboxRow \cup {None}]
    BY <1>5, NewRowType DEF TypeOK, Enqueue
  <2> QED
    BY <1>0, <1>5, <2>1 DEF TypeOK, Enqueue, Goto, Steps, env
<1>6. ASSUME List(p) PROVE TypeOK'
  BY <1>6 DEF TypeOK, List, Goto, Steps, env
<1>7. ASSUME Sleep(p) PROVE TypeOK'
  BY <1>7 DEF TypeOK, Sleep, Goto, Steps, env
<1>8. ASSUME NEW arrives \in BOOLEAN, NEW knows \in BOOLEAN, Sent(p, arrives, knows),
             faults' \in Nat
      PROVE  TypeOK'
  <2>1. claim[p] \in Delivery /\ got[claim[p]] \in Nat
    BY <1>8, ClaimType DEF Sent, TypeOK
  <2>2. got' \in [Delivery -> Nat]
    BY <1>8, <2>1 DEF TypeOK, Sent
  <2> QED
    BY <1>8, <2>2 DEF TypeOK, Sent, Goto, Steps, env
<1>9. ASSUME Send(p) PROVE TypeOK'
  BY <1>8, <1>9 DEF Send, TypeOK
<1>10. ASSUME Record(p) PROVE TypeOK'
  <2>1. claim[p] \in Delivery /\ outbox[claim[p]] \in OutboxRow
        /\ outbox[claim[p]].status = "pending"
    BY <1>10, ClaimType DEF Record
  <2>2. /\ [outbox[claim[p]] EXCEPT !.status = "sent"] \in OutboxRow
        /\ Failed(outbox[claim[p]]) \in OutboxRow
    BY <2>1, RowType
  <2>3. outbox' \in [Delivery -> OutboxRow \cup {None}]
    BY <1>10, <2>1, <2>2 DEF TypeOK, Record
  <2> QED
    BY <1>10, <2>3 DEF TypeOK, Record, Goto, Steps, env
<1>11. ASSUME Abort(p) PROVE TypeOK'
  <2>1. obs' \in [Procs -> Observation] /\ news' \in [Procs -> News]
    BY <1>0, <1>11 DEF TypeOK, Abort
  <2>2. pc' \in [Procs -> Steps] /\ todo' \in [Procs -> SUBSET Delivery]
    BY <1>11 DEF TypeOK, Abort, Goto, Steps
  <2>3. claim' \in [Procs -> Delivery \cup {None}] /\ ok' \in [Procs -> BOOLEAN]
    BY <1>11 DEF TypeOK, Abort
  <2>4. faults' \in Nat
    BY <1>11 DEF TypeOK, Abort, Fault
  <2>5. UNCHANGED <<cond, vm, changes, event, channel, outbox, got, ops>>
    BY <1>11 DEF Abort, env
  <2> QED
    BY <2>1, <2>2, <2>3, <2>4, <2>5 DEF TypeOK
<1>12. ASSUME SendFails(p) \/ ReplyLost(p) PROVE TypeOK'
  <2>1. faults' \in Nat
    BY <1>12 DEF SendFails, ReplyLost, Sent, Fault, TypeOK
  <2>2. Sent(p, FALSE, FALSE) \/ Sent(p, TRUE, FALSE)
    BY <1>12 DEF SendFails, ReplyLost
  <2> QED
    BY <1>8, <2>1, <2>2
<1> QED
  BY <1>1, <1>2, <1>3, <1>4, <1>5, <1>6, <1>7, <1>9, <1>10, <1>11, <1>12, TakeType
     DEF ProcStep, FaultStep

LEMMA TimeType == ASSUME TypeOK, NEW d \in Delivery, TimePasses(d) PROVE TypeOK'
<1>1. [outbox[d] EXCEPT !.due = TRUE] \in OutboxRow
  BY PendingType, RowType DEF TimePasses
<1>2. outbox' \in [Delivery -> OutboxRow \cup {None}]
  BY <1>1 DEF TypeOK, TimePasses
<1> QED
  BY <1>2 DEF TypeOK, TimePasses, env
=============================================================================
