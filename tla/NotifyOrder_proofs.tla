-------------------------- MODULE NotifyOrder_proofs --------------------------
(***************************************************************************)
(* NotifyInv is inductive: the order in which messages arrive, and how     *)
(* often.  The steps of Notify are gathered by what they do to the outbox. *)
(***************************************************************************)
EXTENDS Notify_proofs

LEMMA InitInv == Init => NotifyInv
<1> SUFFICES ASSUME Init PROVE NotifyInv
  OBVIOUS
<1>1. TypeOK
  BY InitType
<1>2. /\ \A p \in Procs : pc[p] = "idle" /\ claim[p] = None
      /\ \A p \in Procs : news[p] = NoNews /\ obs[p] = NoObservation
      /\ \A d \in Delivery : outbox[d] = None /\ got[d] = 0
      /\ faults = 0
  BY DEF Init
<1>3. ClaimOK
  BY <1>2 DEF ClaimOK
<1>4. NewsOK
  <2>1. \A p \in Procs : /\ news[p].opened = {} /\ news[p].resolved = {}
                         /\ obs[p].open = {}
    BY <1>2 DEF NoNews, NoObservation
  <2>2. \A p \in Procs : news[p] = NoNews
    BY <1>2
  <2> QED
    BY <2>1, <2>2 DEF NewsOK
<1>5. FreshOK
  <2>1. ASSUME NEW e \in Event, NEW c \in Channels, NEW t \in Transitions
        PROVE  <<<<e, c>>, t>> \in Delivery
    BY DEF Delivery, Subject
  <2> QED
    BY <1>2, <2>1 DEF FreshOK
<1>6. ClearOK /\ PrunedOK
  <2>1. ASSUME NEW e \in Event, NEW c \in Channels
        PROVE  /\ outbox[<<<<e, c>>, "resolved">>] = None
               /\ ~(got[<<<<e, c>>, "resolved">>] > 0)
    <3>1. <<<<e, c>>, "resolved">> \in Delivery
      BY SubjectParts
    <3>2. got[<<<<e, c>>, "resolved">>] = 0
      BY <1>2, <3>1
    <3> QED
      BY <1>2, <3>1, <3>2
  <2> QED
    BY <2>1 DEF ClearOK, PrunedOK
<1>7. SentOK
  BY <1>2 DEF SentOK
<1>8. OrderOK
  <2>1. ASSUME NEW s \in Subject PROVE <<s, "resolved">> \in Delivery
    BY DEF Delivery, Transitions
  <2>2. ASSUME NEW s \in Subject PROVE \A p \in Procs : claim[p] # <<s, "resolved">>
    <3>1. None \notin Delivery
      BY ConstantsAssumption
    <3> QED
      BY <1>2, <2>1, <3>1
  <2> QED
    BY <1>2, <2>1, <2>2 DEF OrderOK
<1>9. CountOK
  BY <1>2 DEF CountOK, Pending
<1> QED
  BY <1>1, <1>3, <1>4, <1>5, <1>6, <1>7, <1>8, <1>9 DEF NotifyInv

-----------------------------------------------------------------------------
(* Steps that look: no row, event, message or claim changes. *)

Looks ==
    /\ UNCHANGED <<event, outbox, news, claim, ok, got, faults>>
    /\ \A q \in Procs : \A e \in obs'[q].open : e \in obs[q].open \/ Open(e)
    /\ \A c \in Channels : channel[c].state = "deleted" => channel'[c].state = "deleted"
    /\ \A q \in Procs : \/ pc'[q] = pc[q]
                        \/ /\ pc[q] \notin {"enqueue", "send", "record"}
                           /\ pc'[q] \notin {"send", "record"}

LEMMA LooksInv == NotifyInv /\ Looks => (ClaimOK /\ NewsOK /\ FreshOK /\ ClearOK
                                         /\ SentOK /\ OrderOK /\ PrunedOK /\ CountOK)'
<1> SUFFICES ASSUME NotifyInv, Looks
             PROVE  (ClaimOK /\ NewsOK /\ FreshOK /\ ClearOK
                     /\ SentOK /\ OrderOK /\ PrunedOK /\ CountOK)'
  OBVIOUS
<1>0. \A d : Pending(d)' = Pending(d)
  BY DEF Looks, Pending
<1>1. ClaimOK'
  BY <1>0 DEF NotifyInv, Looks, ClaimOK
<1>2. NewsOK'
  BY DEF NotifyInv, Looks, NewsOK, Open
<1>3. FreshOK'
  BY DEF NotifyInv, Looks, FreshOK, Fresh
<1>4. ClearOK'
  BY DEF NotifyInv, Looks, ClearOK
<1>5. SentOK'
  BY DEF NotifyInv, Looks, SentOK
<1>6. OrderOK'
  BY <1>0 DEF NotifyInv, Looks, OrderOK
<1>7. PrunedOK'
  BY DEF NotifyInv, Looks, PrunedOK, Over, Open
<1>8. CountOK'
  BY <1>0 DEF NotifyInv, Looks, CountOK
<1> QED
  BY <1>1, <1>2, <1>3, <1>4, <1>5, <1>6, <1>7, <1>8

-----------------------------------------------------------------------------
(* Steps that change one pending row: it stays pending, or it is given up.  *)

Settles(d) ==
    /\ Pending(d)
    /\ outbox'[d] # None /\ outbox'[d].status \in {"pending", "failed"}
    /\ outbox'[d].status = "failed" => ~Locked(d)
    /\ \A x \in Delivery : x # d => outbox'[x] = outbox[x]
    /\ UNCHANGED <<event, channel, pc, obs, news, claim, ok, got, faults>>

LEMMA SettlesInv ==
    ASSUME NotifyInv, NEW d \in Delivery, Settles(d)
    PROVE  (ClaimOK /\ NewsOK /\ FreshOK /\ ClearOK
            /\ SentOK /\ OrderOK /\ PrunedOK /\ CountOK)'
<1>0. /\ \A x \in Delivery : Pending(x)' => Pending(x)
      /\ \A x \in Delivery : Pending(x) /\ Locked(x) => Pending(x)'
      /\ \A x \in Delivery : outbox'[x] = None <=> outbox[x] = None
      /\ \A x \in Delivery : outbox'[x] # None /\ outbox'[x].status = "sent"
                             => outbox[x].status = "sent"
  BY DEF Settles, Pending
<1>1. ClaimOK'
  <2>1. \A p \in Procs : claim[p] # None => claim[p] \in Delivery /\ Locked(claim[p])
    BY DEF NotifyInv, TypeOK, Locked
  <2> QED
    BY <1>0, <2>1 DEF NotifyInv, Settles, ClaimOK
<1>2. NewsOK'
  BY DEF NotifyInv, Settles, NewsOK
<1>3. FreshOK'
  <2>1. ASSUME NEW e \in Event, NEW c \in Channels, NEW t \in Transitions
        PROVE  <<<<e, c>>, t>> \in Delivery
    BY DEF Delivery, Subject
  <2> QED
    BY <1>0, <2>1 DEF NotifyInv, Settles, FreshOK, Fresh
<1>4. ClearOK'
  BY <1>0, SubjectParts DEF NotifyInv, Settles, ClearOK
<1>5. SentOK'
  BY <1>0 DEF NotifyInv, Settles, SentOK
<1>6. OrderOK'
  <2>1. ASSUME NEW s \in Subject PROVE <<s, "opened">> \in Delivery
    BY DEF Delivery, Transitions
  <2> QED
    BY <1>0, <2>1 DEF NotifyInv, Settles, OrderOK
<1>7. PrunedOK'
  BY <1>0, SubjectParts DEF NotifyInv, Settles, PrunedOK, Over
<1>8. CountOK'
  BY <1>0 DEF NotifyInv, Settles, CountOK
<1> QED
  BY <1>1, <1>2, <1>3, <1>4, <1>5, <1>6, <1>7, <1>8

-----------------------------------------------------------------------------
(* Rows disappear: a channel is deleted, an event or a row is pruned.  A     *)
(* process that might enqueue an all-clear again does not know its event.    *)

Removes ==
    /\ UNCHANGED <<pc, obs, news, claim, ok, got, faults>>
    /\ \A x \in Delivery : outbox'[x] = outbox[x] \/ (outbox'[x] = None /\ ~Locked(x))
    /\ \A c \in Channels : channel[c].state = "deleted" => channel'[c].state = "deleted"
    /\ \A e \in Event : \/ event'[e] = event[e]
                        \/ /\ event[e] \in {"open", "resolved"} /\ event'[e] = "deleted"
                           /\ Old(e)
                           /\ \A c \in Channels : outbox'[<<<<e, c>>, "resolved">>] = None
    /\ \A e \in Event, c \in Channels :
          outbox'[<<<<e, c>>, "resolved">>] = None /\ outbox[<<<<e, c>>, "resolved">>] # None
          => \/ channel'[c].state = "deleted"
             \/ Old(e) /\ event'[e] = "deleted"
             \/ Old(e) /\ \A p \in Procs : e \notin obs[p].open

LEMMA RemovesInv == NotifyInv /\ Removes => (ClaimOK /\ NewsOK /\ FreshOK /\ ClearOK
                                             /\ SentOK /\ OrderOK /\ PrunedOK /\ CountOK)'
<1> SUFFICES ASSUME NotifyInv, Removes
             PROVE  (ClaimOK /\ NewsOK /\ FreshOK /\ ClearOK
                     /\ SentOK /\ OrderOK /\ PrunedOK /\ CountOK)'
  OBVIOUS
<1>0. /\ \A x \in Delivery : Pending(x)' => Pending(x)
      /\ \A x \in Delivery : Pending(x) /\ Locked(x) => Pending(x)'
      /\ \A x \in Delivery : outbox'[x] # None => outbox'[x] = outbox[x]
  BY DEF Removes, Pending
<1>1. ClaimOK'
  <2>1. \A p \in Procs : claim[p] # None => claim[p] \in Delivery /\ Locked(claim[p])
    BY DEF NotifyInv, TypeOK, Locked
  <2> QED
    BY <1>0, <2>1 DEF NotifyInv, Removes, ClaimOK
<1>2. NewsOK'
  <2>1. \A e \in Event : (\E p \in Procs : e \in news[p].opened \cup news[p].resolved)
                         => event'[e] = event[e]
    BY DEF Removes, Old
  <2>2. \A p \in Procs : /\ news[p].opened \subseteq Event /\ news[p].resolved \subseteq Event
                         /\ obs[p].open \subseteq Event
    BY DEF NotifyInv, TypeOK, News, Observation
  <2>3. \A e \in Event : event'[e] = "unborn" => event[e] = "unborn"
    BY DEF Removes
  <2> QED
    BY <2>1, <2>2, <2>3 DEF NotifyInv, Removes, NewsOK
<1>3. FreshOK'
  <2>1. ASSUME NEW e \in Event, NEW c \in Channels, NEW t \in Transitions
        PROVE  <<<<e, c>>, t>> \in Delivery
    BY DEF Delivery, Subject
  <2>2. \A e \in Event : Fresh(e)' => Fresh(e)
    BY DEF Removes, Fresh
  <2> QED
    BY <1>0, <2>1, <2>2 DEF NotifyInv, Removes, FreshOK
<1>4. ClearOK'
  BY <1>0, SubjectParts DEF NotifyInv, Removes, ClearOK
<1>5. SentOK'
  BY <1>0 DEF NotifyInv, Removes, SentOK
<1>6. OrderOK'
  <2>1. ASSUME NEW s \in Subject PROVE <<s, "opened">> \in Delivery
    BY DEF Delivery, Transitions
  <2> QED
    BY <1>0, <2>1 DEF NotifyInv, Removes, OrderOK
<1>7. PrunedOK'
  <2> SUFFICES ASSUME NEW e \in Event, NEW c \in Channels,
                      outbox'[<<<<e, c>>, "resolved">>] = None,
                      got'[<<<<e, c>>, "resolved">>] > 0,
                      channel'[c].state # "deleted"
               PROVE  Over(e)'
    BY DEF PrunedOK
  <2>1. CASE outbox[<<<<e, c>>, "resolved">>] = None
    <3>1. Over(e)
      BY <2>1 DEF NotifyInv, PrunedOK, Removes
    <3> QED
      BY <3>1 DEF Over, Removes
  <2>2. CASE outbox[<<<<e, c>>, "resolved">>] # None
    <3>1. event[e] = "resolved"
      BY <2>2 DEF NotifyInv, ClearOK
    <3>2. Old(e) /\ (event'[e] = "deleted" \/ \A p \in Procs : e \notin obs[p].open)
      BY <2>2 DEF Removes
    <3> QED
      BY <3>1, <3>2 DEF Removes, Old, Over
  <2> QED
    BY <2>1, <2>2
<1>8. CountOK'
  BY <1>0 DEF NotifyInv, Removes, CountOK
<1> QED
  BY <1>1, <1>2, <1>3, <1>4, <1>5, <1>6, <1>7, <1>8

-----------------------------------------------------------------------------
(* A detection pass is committed.                                            *)

LEMMA CommitInv ==
    ASSUME NotifyInv, NEW p \in Procs, Commit(p)
    PROVE  (ClaimOK /\ NewsOK /\ FreshOK /\ ClearOK
            /\ SentOK /\ OrderOK /\ PrunedOK /\ CountOK)'
<1> DEFINE opened == UNION {FirstUnborn(k) : k \in {j \in Keys : Inserts(p, j)}}
           resolved == {e \in Event : Clears(p, e)}
<1>1. /\ UNCHANGED <<channel, outbox, claim, ok, got, faults>>
      /\ pc[p] = "commit" /\ pc'[p] = "enqueue"
      /\ \A q \in Procs : q # p => /\ pc'[q] = pc[q]
                                   /\ news'[q] = news[q] /\ obs'[q] = obs[q]
      /\ news'[p].opened = opened /\ news'[p].resolved = resolved
      /\ obs'[p].open = {}
  BY DEF NotifyInv, TypeOK, Commit, Goto, NoObservation
<1>2. /\ \A e \in opened : e \in Event /\ event[e] = "unborn"
      /\ \A e \in resolved : e \in Event /\ e \in obs[p].open
                             /\ event[e] \notin {"unborn", "deleted"}
  BY DEF NotifyInv, NewsOK, FirstUnborn, Clears, Commit
<1>3. \A e \in Event : event'[e] = IF e \in resolved THEN "resolved"
                                   ELSE IF e \in opened THEN "open" ELSE event[e]
  BY DEF Commit
<1>4. \A q \in Procs : /\ news[q].opened \subseteq Event /\ news[q].resolved \subseteq Event
                       /\ obs[q].open \subseteq Event
  BY DEF NotifyInv, TypeOK, News, Observation
<1>5. \A e \in Event : Fresh(e)' => Fresh(e)
  BY <1>1, <1>2, <1>3 DEF Fresh
<1>6. ClaimOK'
  BY <1>1 DEF NotifyInv, ClaimOK, Pending
<1>7. NewsOK'
  <2>1. \A q \in Procs : pc'[q] # "enqueue" => news'[q] = NoNews
    BY <1>1 DEF NotifyInv, NewsOK
  <2>2. ASSUME NEW q \in Procs, NEW e \in news'[q].opened
        PROVE  /\ event'[e] \in {"open", "resolved"}
               /\ \A r \in Procs : e \in news'[r].opened => q = r
    BY <1>1, <1>2, <1>3, <1>4, <2>2 DEF NotifyInv, NewsOK
  <2>3. ASSUME NEW q \in Procs, NEW e \in news'[q].resolved
        PROVE  event'[e] = "resolved"
    BY <1>1, <1>2, <1>3, <1>4, <2>3 DEF NotifyInv, NewsOK
  <2>4. ASSUME NEW q \in Procs, NEW e \in obs'[q].open
        PROVE  event'[e] # "unborn"
    BY <1>1, <1>2, <1>3, <1>4, <2>4 DEF NotifyInv, NewsOK
  <2> QED
    BY <2>1, <2>2, <2>3, <2>4 DEF NewsOK
<1>8. FreshOK'
  BY <1>1, <1>5 DEF NotifyInv, FreshOK
<1>9. ClearOK'
  BY <1>1, <1>2, <1>3 DEF NotifyInv, ClearOK
<1>10. SentOK'
  <2>1. \A q \in Procs : pc'[q] = "record" => pc[q] = "record"
    BY <1>1
  <2> QED
    BY <1>1, <2>1 DEF NotifyInv, SentOK
<1>11. OrderOK'
  BY <1>1 DEF NotifyInv, OrderOK, Pending
<1>12. PrunedOK'
  <2>1. ASSUME NEW e \in Event, Over(e) PROVE Over(e)'
    <3>1. e \notin resolved /\ e \notin opened
      BY <1>2, <2>1 DEF Over
    <3>2. event'[e] = event[e]
      BY <1>3, <3>1
    <3> QED
      BY <1>1, <2>1, <3>1, <3>2 DEF Over
  <2> QED
    BY <1>1, <2>1 DEF NotifyInv, PrunedOK
<1>13. CountOK'
  <2>1. \A q \in Procs : pc[q] = "record" => pc'[q] = "record"
    BY <1>1
  <2> QED
    BY <1>1, <2>1 DEF NotifyInv, CountOK, Pending
<1> QED
  BY <1>6, <1>7, <1>8, <1>9, <1>10, <1>11, <1>12, <1>13

-----------------------------------------------------------------------------
(* Rows appear.                                                              *)

LEMMA EnqueueInv ==
    ASSUME NotifyInv, NEW p \in Procs, Enqueue(p)
    PROVE  (ClaimOK /\ NewsOK /\ FreshOK /\ ClearOK
            /\ SentOK /\ OrderOK /\ PrunedOK /\ CountOK)'
<1>1. /\ UNCHANGED <<event, channel, obs, claim, ok, got, faults>>
      /\ pc[p] = "enqueue" /\ pc'[p] \in {"list", "idle"}
      /\ \A q \in Procs : q # p => pc'[q] = pc[q] /\ news'[q] = news[q]
      /\ news'[p] = NoNews /\ NoNews.opened = {} /\ NoNews.resolved = {}
      /\ \A d \in Delivery : outbox'[d] = IF d \in Wanted(p) THEN NewRow ELSE outbox[d]
      /\ \A d \in Wanted(p) : d \in Delivery /\ outbox[d] = None
  BY DEF NotifyInv, TypeOK, Enqueue, Goto, NoNews, Wanted
<1>2. NewRow # None /\ NewRow.status = "pending"
  BY NewRowType DEF NewRow
\* What is put into the outbox is new: it never arrived.
<1>3. ASSUME NEW e \in Event, NEW c \in Channels, <<<<e, c>>, "opened">> \in Wanted(p)
      PROVE  /\ e \in news[p].opened
             /\ \A t \in Transitions : outbox[<<<<e, c>>, t>>] = None
                                       /\ got[<<<<e, c>>, t>>] = 0
  <2>1. e \in news[p].opened
    BY <1>3 DEF Wanted
  <2> QED
    BY <2>1 DEF NotifyInv, FreshOK, Fresh
<1>4. ASSUME NEW e \in Event, NEW c \in Channels, <<<<e, c>>, "resolved">> \in Wanted(p)
      PROVE  /\ e \in news[p].resolved /\ outbox[<<<<e, c>>, "opened">>] # None
             /\ event[e] = "resolved" /\ ~(got[<<<<e, c>>, "resolved">>] > 0)
  <2>1. /\ e \in news[p].resolved /\ outbox[<<<<e, c>>, "opened">>] # None
        /\ outbox[<<<<e, c>>, "resolved">>] = None /\ channel[c].state # "deleted"
    BY <1>4 DEF Wanted, WantsClear, Enabled
  <2>2. event[e] = "resolved"
    BY <2>1 DEF NotifyInv, NewsOK
  <2>3. ~Over(e)
    BY <2>1 DEF Over
  <2> QED
    BY <2>1, <2>2, <2>3 DEF NotifyInv, PrunedOK
<1>5. ASSUME NEW d \in Wanted(p) PROVE ~(got[d] > 0)
  <2>1. d \in Delivery
    BY <1>1
  <2>2. PICK e \in Event, c \in Channels, t \in Transitions : d = <<<<e, c>>, t>>
    BY <2>1 DEF Delivery, Subject
  <2>3. CASE t = "opened"
    <3>1. got[<<<<e, c>>, "opened">>] = 0
      BY <1>3, <2>2, <2>3 DEF Transitions
    <3> QED
      BY <2>2, <2>3, <3>1
  <2>4. CASE t = "resolved"
    BY <1>4, <2>2, <2>4
  <2> QED
    BY <2>3, <2>4 DEF Transitions
<1>6. \A d \in Delivery : Pending(d) => Pending(d)' /\ outbox'[d] = outbox[d]
  BY <1>1 DEF Pending
<1>7. ClaimOK'
  <2>1. \A q \in Procs : claim[q] # None => claim[q] \in Delivery
    BY DEF NotifyInv, TypeOK
  <2> QED
    BY <1>1, <1>6, <2>1 DEF NotifyInv, ClaimOK
<1>8. NewsOK'
  <2>1. \A q \in Procs : /\ news'[q].opened \subseteq news[q].opened
                         /\ news'[q].resolved \subseteq news[q].resolved
                         /\ pc'[q] # "enqueue" => news'[q] = NoNews
    BY <1>1 DEF NotifyInv, NewsOK
  <2> QED
    BY <1>1, <2>1 DEF NotifyInv, NewsOK
<1>9. FreshOK'
  <2> SUFFICES ASSUME NEW e \in Event, NEW c \in Channels, NEW t \in Transitions, Fresh(e)'
               PROVE  outbox'[<<<<e, c>>, t>>] = None /\ got'[<<<<e, c>>, t>>] = 0
    BY DEF FreshOK
  <2>1. /\ <<<<e, c>>, "opened">> \in Delivery /\ <<<<e, c>>, "resolved">> \in Delivery
        /\ <<<<e, c>>, t>> \in Delivery
    BY SubjectParts DEF Transitions
  <2>2. Fresh(e)
    BY <1>1 DEF Fresh
  <2>3. \A u \in Transitions : outbox[<<<<e, c>>, u>>] = None /\ got[<<<<e, c>>, u>>] = 0
    BY <2>2 DEF NotifyInv, FreshOK
  <2>4. e \notin news[p].opened
    BY <1>1 DEF Fresh, NotifyInv, NewsOK
  <2>5. <<<<e, c>>, t>> \notin Wanted(p)
    BY <1>3, <1>4, <2>3, <2>4 DEF Transitions
  <2> QED
    BY <1>1, <2>1, <2>3, <2>5
<1>10. ClearOK'
  <2> SUFFICES ASSUME NEW e \in Event, NEW c \in Channels,
                      outbox'[<<<<e, c>>, "resolved">>] # None
               PROVE  event[e] = "resolved"
    BY <1>1 DEF ClearOK
  <2>1. <<<<e, c>>, "resolved">> \in Delivery
    BY SubjectParts
  <2> QED
    BY <1>1, <1>4, <2>1 DEF NotifyInv, ClearOK
<1>11. SentOK'
  <2>1. \A q \in Procs : pc'[q] = "record" => pc[q] = "record"
    BY <1>1
  <2>2. \A d \in Delivery : outbox'[d] # None /\ outbox'[d].status = "sent"
                            => outbox'[d] = outbox[d]
    BY <1>1, <1>2
  <2> QED
    BY <1>1, <2>1, <2>2 DEF NotifyInv, SentOK
<1>12. OrderOK'
  <2> SUFFICES ASSUME NEW s \in Subject,
                      got[<<s, "resolved">>] > 0
                      \/ (\E q \in Procs : claim[q] = <<s, "resolved">>)
               PROVE  got[<<s, "opened">>] > 0 /\ ~Pending(<<s, "opened">>)'
    BY <1>1 DEF OrderOK
  <2>1. got[<<s, "opened">>] > 0 /\ ~Pending(<<s, "opened">>)
    BY DEF NotifyInv, OrderOK
  <2>2. <<s, "opened">> \notin Wanted(p) /\ <<s, "opened">> \in Delivery
    BY <1>5, <2>1 DEF Delivery, Transitions
  <2> QED
    BY <1>1, <2>1, <2>2 DEF Pending
<1>13. PrunedOK'
  <2>1. ASSUME NEW e \in Event, Over(e) PROVE Over(e)'
    BY <1>1, <2>1 DEF Over
  <2>2. ASSUME NEW e \in Event, NEW c \in Channels,
               outbox'[<<<<e, c>>, "resolved">>] = None
        PROVE  outbox[<<<<e, c>>, "resolved">>] = None
    BY <1>1, <1>2, <2>2, SubjectParts
  <2> QED
    BY <1>1, <2>1, <2>2 DEF NotifyInv, PrunedOK
<1>14. CountOK'
  <2> SUFFICES ASSUME NEW d \in Delivery, Pending(d)'
               PROVE  \/ got[d] =< faults
                      \/ \E q \in Procs : claim[q] = d /\ pc'[q] = "record" /\ ok[q]
    BY <1>1 DEF NotifyInv, CountOK
  <2>1. CASE d \in Wanted(p)
    BY <1>5, <2>1 DEF NotifyInv, TypeOK
  <2>2. CASE d \notin Wanted(p)
    <3>1. Pending(d)
      BY <1>1, <2>2 DEF Pending
    <3>2. \A q \in Procs : pc[q] = "record" => pc'[q] = "record"
      BY <1>1
    <3> QED
      BY <3>1, <3>2 DEF NotifyInv, CountOK
  <2> QED
    BY <2>1, <2>2
<1> QED
  BY <1>7, <1>8, <1>9, <1>10, <1>11, <1>12, <1>13, <1>14

-----------------------------------------------------------------------------
(* A row is claimed, sent, and recorded; or its process stops.               *)

LEMMA ClaimInv ==
    ASSUME NotifyInv, NEW p \in Procs, NEW d \in todo[p], Claim(p, d)
    PROVE  (ClaimOK /\ NewsOK /\ FreshOK /\ ClearOK
            /\ SentOK /\ OrderOK /\ PrunedOK /\ CountOK)'
<1>1. /\ UNCHANGED <<event, channel, outbox, obs, news, ok, got, faults>>
      /\ pc[p] = "claim" /\ pc'[p] = "send" /\ claim'[p] = d /\ d \in Delivery
      /\ \A q \in Procs : q # p => pc'[q] = pc[q] /\ claim'[q] = claim[q]
      /\ Pending(d) /\ ~Locked(d) /\ Ready(d)
      /\ d # None
  <2>1. None \notin Delivery
    BY ConstantsAssumption
  <2> QED
    BY <2>1 DEF NotifyInv, TypeOK, Claim, Take, Free, Goto
<1>2. \A x : Pending(x)' = Pending(x)
  BY <1>1 DEF Pending
<1>3. ClaimOK'
  BY <1>1, <1>2 DEF NotifyInv, ClaimOK, Locked
<1>4. NewsOK' /\ FreshOK' /\ ClearOK'
  BY <1>1 DEF NotifyInv, NewsOK, FreshOK, Fresh, ClearOK
<1>5. SentOK'
  BY <1>1 DEF NotifyInv, SentOK
<1>6. OrderOK'
  <2> SUFFICES ASSUME NEW s \in Subject, d = <<s, "resolved">>
               PROVE  got[<<s, "opened">>] > 0 /\ ~Pending(<<s, "opened">>)
    BY <1>1, <1>2 DEF NotifyInv, OrderOK
  <2>1. d[1] = s /\ d[2] = "resolved" /\ <<s, "opened">> \in Delivery
    BY DEF Delivery, Transitions
  <2>2. outbox[<<s, "opened">>] # None /\ outbox[<<s, "opened">>].status = "sent"
    BY <1>1, <2>1 DEF Ready, AlertStatus
  <2> QED
    BY <2>1, <2>2 DEF NotifyInv, SentOK, Pending
<1>7. PrunedOK'
  BY <1>1 DEF NotifyInv, PrunedOK, Over
<1>8. CountOK'
  <2>1. \A q \in Procs : pc[q] = "record" => pc'[q] = "record" /\ claim'[q] = claim[q]
    BY <1>1
  <2> QED
    BY <1>1, <1>2, <2>1 DEF NotifyInv, CountOK
<1> QED
  BY <1>3, <1>4, <1>5, <1>6, <1>7, <1>8

\* The message of a claimed row arrives, or does not; each way but the good one
\* costs a failure.
SendsOrFails(p) ==
    \E arrives \in BOOLEAN, knows \in BOOLEAN :
        /\ Sent(p, arrives, knows)
        /\ \/ arrives /\ knows /\ faults' = faults
           \/ ~knows /\ faults' = faults + 1

LEMMA SentInv ==
    ASSUME NotifyInv, NEW p \in Procs, SendsOrFails(p)
    PROVE  (ClaimOK /\ NewsOK /\ FreshOK /\ ClearOK
            /\ SentOK /\ OrderOK /\ PrunedOK /\ CountOK)'
<1> DEFINE d == claim[p]
<1>0. PICK arrives \in BOOLEAN, knows \in BOOLEAN :
         /\ Sent(p, arrives, knows)
         /\ \/ arrives /\ knows /\ faults' = faults
            \/ ~knows /\ faults' = faults + 1
  BY DEF SendsOrFails
<1>1. /\ UNCHANGED <<event, channel, outbox, obs, news, claim>>
      /\ pc[p] = "send" /\ pc'[p] = "record" /\ ok'[p] = knows
      /\ \A q \in Procs : q # p => pc'[q] = pc[q] /\ ok'[q] = ok[q]
  BY <1>0 DEF NotifyInv, TypeOK, Sent, Goto
<1>2. d \in Delivery /\ Pending(d) /\ d # None
  BY <1>1, ClaimType DEF NotifyInv, Pending, ClaimOK
<1>3. /\ \A x \in Delivery : got[x] \in Nat /\ got'[x] \in Nat
      /\ \A x \in Delivery : x # d => got'[x] = got[x]
      /\ got'[d] = IF arrives THEN got[d] + 1 ELSE got[d]
      /\ faults \in Nat
  <2>1. got \in [Delivery -> Nat] /\ faults \in Nat
    BY DEF NotifyInv, TypeOK
  <2>2. CASE arrives
    <3>1. got' = [got EXCEPT ![d] = got[d] + 1]
      BY <1>0, <2>2 DEF Sent
    <3> QED
      BY <1>2, <2>1, <2>2, <3>1
  <2>3. CASE ~arrives
    <3>1. got' = got
      BY <1>0, <2>3 DEF Sent
    <3> QED
      BY <1>2, <2>1, <2>3, <3>1
  <2> QED
    BY <2>2, <2>3
<1>4. \A x : Pending(x)' = Pending(x)
  BY <1>1 DEF Pending
<1>5. \A q \in Procs : q # p => claim[q] # d
  BY <1>2 DEF NotifyInv, ClaimOK
<1>6. ClaimOK'
  BY <1>1, <1>4 DEF NotifyInv, ClaimOK
<1>7. NewsOK' /\ ClearOK'
  BY <1>1 DEF NotifyInv, NewsOK, ClearOK
<1>8. FreshOK'
  <2> SUFFICES ASSUME NEW e \in Event, NEW c \in Channels, NEW t \in Transitions, Fresh(e)
               PROVE  outbox[<<<<e, c>>, t>>] = None /\ got'[<<<<e, c>>, t>>] = 0
    BY <1>1 DEF FreshOK, Fresh
  <2>1. outbox[<<<<e, c>>, t>>] = None /\ got[<<<<e, c>>, t>>] = 0
    BY DEF NotifyInv, FreshOK
  <2>2. <<<<e, c>>, t>> \in Delivery
    BY DEF Delivery, Subject
  <2>3. d # <<<<e, c>>, t>>
    BY <1>2, <2>1 DEF Pending
  <2> QED
    BY <1>3, <2>1, <2>2, <2>3
<1>9. SentOK'
  <2>1. \A x \in Delivery : got[x] > 0 => got'[x] > 0
    BY <1>3
  <2>2. \A x \in Delivery : outbox'[x] # None /\ outbox'[x].status = "sent" => got'[x] > 0
    BY <1>1, <2>1 DEF NotifyInv, SentOK
  <2>3. ASSUME NEW q \in Procs, pc'[q] = "record", ok'[q] PROVE got'[claim[q]] > 0
    <3>1. CASE q = p
      <4>1. arrives
        BY <1>0, <1>1, <2>3, <3>1
      <4> QED
        BY <1>2, <1>3, <3>1, <4>1
    <3>2. CASE q # p
      <4>1. pc[q] = "record" /\ ok[q]
        BY <1>1, <2>3, <3>2
      <4>2. claim[q] \in Delivery /\ got[claim[q]] > 0
        BY <4>1, ClaimType DEF NotifyInv, SentOK
      <4> QED
        BY <2>1, <4>2
    <3> QED
      BY <3>1, <3>2
  <2> QED
    BY <1>1, <2>2, <2>3 DEF SentOK
<1>10. OrderOK'
  <2> SUFFICES ASSUME NEW s \in Subject,
                      got'[<<s, "resolved">>] > 0
                      \/ (\E q \in Procs : claim[q] = <<s, "resolved">>)
               PROVE  got'[<<s, "opened">>] > 0 /\ ~Pending(<<s, "opened">>)
    BY <1>1, <1>4 DEF OrderOK
  <2>1. <<s, "opened">> \in Delivery /\ <<s, "resolved">> \in Delivery
    BY DEF Delivery, Transitions
  <2>2. got[<<s, "resolved">>] > 0 \/ (\E q \in Procs : claim[q] = <<s, "resolved">>)
    BY <1>3, <2>1
  <2>3. got[<<s, "opened">>] > 0 /\ ~Pending(<<s, "opened">>)
    BY <2>2 DEF NotifyInv, OrderOK
  <2> QED
    BY <1>3, <2>1, <2>3
<1>11. PrunedOK'
  <2> SUFFICES ASSUME NEW e \in Event, NEW c \in Channels,
                      outbox[<<<<e, c>>, "resolved">>] = None,
                      got'[<<<<e, c>>, "resolved">>] > 0
               PROVE  channel[c].state = "deleted" \/ Over(e)
    BY <1>1 DEF PrunedOK, Over
  <2>1. <<<<e, c>>, "resolved">> # d
    BY <1>2 DEF Pending
  <2>2. got[<<<<e, c>>, "resolved">>] > 0
    BY <1>3, <2>1, SubjectParts
  <2> QED
    BY <2>2 DEF NotifyInv, PrunedOK
<1>12. CountOK'
  <2> SUFFICES ASSUME NEW x \in Delivery
               PROVE  /\ got'[x] =< 1 + faults'
                      /\ Pending(x) => \/ got'[x] =< faults'
                                       \/ \E q \in Procs : /\ claim[q] = x /\ ok'[q]
                                                           /\ pc'[q] = "record"
    BY <1>1, <1>4 DEF CountOK
  <2>1. got[x] =< 1 + faults /\ faults =< faults' /\ faults' \in Nat
    BY <1>0, <1>3 DEF NotifyInv, CountOK
  <2>2. CASE x = d
    <3>1. got[d] =< faults
      BY <1>1, <1>2, <1>5 DEF NotifyInv, CountOK
    <3>2. CASE arrives /\ knows /\ faults' = faults
      <4>1. \E q \in Procs : claim[q] = x /\ ok'[q] /\ pc'[q] = "record"
        BY <1>1, <2>2, <3>2
      <4>2. got'[x] =< 1 + faults'
        BY <1>2, <1>3, <2>2, <3>1, <3>2
      <4> QED
        BY <4>1, <4>2
    <3>3. CASE ~knows /\ faults' = faults + 1
      BY <1>1, <1>2, <1>3, <2>2, <3>1, <3>3
    <3> QED
      BY <1>0, <3>2, <3>3
  <2>3. CASE x # d
    <3>1. got'[x] = got[x] /\ got[x] \in Nat
      BY <1>3, <2>3
    <3>2. CASE got[x] =< faults
      BY <1>3, <2>1, <3>1, <3>2
    <3>3. CASE ~(got[x] =< faults) /\ Pending(x)
      <4>1. PICK q \in Procs : claim[q] = x /\ pc[q] = "record" /\ ok[q]
        BY <3>3 DEF NotifyInv, CountOK
      <4>2. q # p
        BY <2>3, <4>1
      <4> QED
        BY <1>1, <1>3, <2>1, <3>1, <4>1, <4>2
    <3>4. CASE ~Pending(x)
      BY <1>3, <2>1, <3>1, <3>4
    <3> QED
      BY <3>2, <3>3, <3>4
  <2> QED
    BY <2>2, <2>3
<1> QED
  BY <1>6, <1>7, <1>8, <1>9, <1>10, <1>11, <1>12

LEMMA RecordInv ==
    ASSUME NotifyInv, NEW p \in Procs, Record(p)
    PROVE  (ClaimOK /\ NewsOK /\ FreshOK /\ ClearOK
            /\ SentOK /\ OrderOK /\ PrunedOK /\ CountOK)'
<1> DEFINE d == claim[p]
<1>1. /\ UNCHANGED <<event, channel, obs, news, got, faults>>
      /\ pc[p] = "record" /\ pc'[p] = "claim" /\ claim'[p] = None
      /\ \A q \in Procs : q # p => pc'[q] = pc[q] /\ ok'[q] = ok[q] /\ claim'[q] = claim[q]
  BY DEF NotifyInv, TypeOK, Record, Goto
<1>2. /\ d \in Delivery /\ Pending(d) /\ d # None
      /\ outbox[d] \in OutboxRow /\ outbox[d].status = "pending"
  BY <1>1, ClaimType DEF NotifyInv, ClaimOK
<1>3. \A x \in Delivery : x # d => outbox'[x] = outbox[x]
  BY DEF NotifyInv, TypeOK, Record
<1>4. /\ outbox'[d] # None
      /\ ok[p] => outbox'[d].status = "sent"
      /\ ~ok[p] => outbox'[d].status \in {"pending", "failed"}
  <2>1. outbox'[d] = IF ok[p] THEN [outbox[d] EXCEPT !.status = "sent"] ELSE Failed(outbox[d])
    BY <1>2 DEF NotifyInv, TypeOK, Record
  <2>2. outbox[d] \in [status : {"pending", "sent", "failed"},
                       attempts : 0 .. MaxAttempts, due : BOOLEAN]
    BY <1>2 DEF OutboxRow
  <2>3. /\ [outbox[d] EXCEPT !.status = "sent"] # None /\ Failed(outbox[d]) # None
    <3>1. None \notin OutboxRow
      BY ConstantsAssumption
    <3> QED
      BY <1>2, <3>1, RowType
  <2>4. [outbox[d] EXCEPT !.status = "sent"].status = "sent"
    BY <2>2
  <2>5. Failed(outbox[d]).status \in {"pending", "failed"}
    <3>1. CASE outbox[d].attempts + 1 >= MaxAttempts
      BY <2>2, <3>1 DEF Failed
    <3>2. CASE ~(outbox[d].attempts + 1 >= MaxAttempts)
      <4>1. Failed(outbox[d])
            = [outbox[d] EXCEPT !.attempts = outbox[d].attempts + 1, !.due = FALSE]
        BY <3>2 DEF Failed
      <4> QED
        BY <1>2, <2>2, <4>1
    <3> QED
      BY <3>1, <3>2
  <2>6. CASE ok[p]
    BY <2>1, <2>3, <2>4, <2>6
  <2>7. CASE ~ok[p]
    BY <2>1, <2>3, <2>5, <2>7
  <2> QED
    BY <2>6, <2>7
<1>5. /\ \A x \in Delivery : Pending(x)' => Pending(x)
      /\ \A x \in Delivery : outbox'[x] = None <=> outbox[x] = None
  BY <1>2, <1>3, <1>4 DEF Pending
<1>6. \A q \in Procs : q # p => claim[q] # d
  BY <1>2 DEF NotifyInv, ClaimOK
<1>7. ClaimOK'
  <2>1. ASSUME NEW q \in Procs, claim'[q] # None PROVE Pending(claim[q])'
    <3>1. q # p /\ claim'[q] = claim[q] /\ claim[q] # None /\ claim[q] # d
      BY <1>1, <1>6, <2>1
    <3>2. claim[q] \in Delivery /\ Pending(claim[q])
      BY <3>1 DEF NotifyInv, TypeOK, ClaimOK
    <3> QED
      BY <1>3, <3>1, <3>2 DEF Pending
  <2> QED
    BY <1>1, <2>1 DEF NotifyInv, ClaimOK
<1>8. NewsOK'
  BY <1>1 DEF NotifyInv, NewsOK
<1>9. FreshOK'
  <2> SUFFICES ASSUME NEW e \in Event, NEW c \in Channels, NEW t \in Transitions, Fresh(e)
               PROVE  outbox'[<<<<e, c>>, t>>] = None /\ got[<<<<e, c>>, t>>] = 0
    BY <1>1 DEF FreshOK, Fresh
  <2>1. <<<<e, c>>, t>> \in Delivery
    BY DEF Delivery, Subject
  <2> QED
    BY <1>5, <2>1 DEF NotifyInv, FreshOK
<1>10. ClearOK' /\ PrunedOK'
  <2>1. \A e \in Event, c \in Channels :
            outbox'[<<<<e, c>>, "resolved">>] = None <=> outbox[<<<<e, c>>, "resolved">>] = None
    BY <1>5, SubjectParts
  <2>2. ClearOK'
    BY <1>1, <2>1 DEF NotifyInv, ClearOK
  <2>3. PrunedOK'
    BY <1>1, <2>1 DEF NotifyInv, PrunedOK, Over
  <2> QED
    BY <2>2, <2>3
<1>11. SentOK'
  <2>1. ok[p] => got[d] > 0
    BY <1>1 DEF NotifyInv, SentOK
  <2>2. ASSUME NEW x \in Delivery, outbox'[x] # None, outbox'[x].status = "sent"
        PROVE  got[x] > 0
    <3>1. CASE x = d
      BY <1>4, <2>1, <2>2, <3>1
    <3>2. CASE x # d
      BY <1>3, <2>2, <3>2 DEF NotifyInv, SentOK
    <3> QED
      BY <3>1, <3>2
  <2>3. ASSUME NEW q \in Procs, pc'[q] = "record", ok'[q] PROVE got[claim'[q]] > 0
    BY <1>1, <2>3 DEF NotifyInv, SentOK
  <2> QED
    BY <1>1, <2>2, <2>3 DEF SentOK
<1>12. OrderOK'
  <2> SUFFICES ASSUME NEW s \in Subject,
                      got[<<s, "resolved">>] > 0
                      \/ (\E q \in Procs : claim'[q] = <<s, "resolved">>)
               PROVE  got[<<s, "opened">>] > 0 /\ ~Pending(<<s, "opened">>)'
    BY <1>1 DEF OrderOK
  <2>1. <<s, "opened">> \in Delivery /\ <<s, "resolved">> \in Delivery
    BY DEF Delivery, Transitions
  <2>2. None \notin Delivery
    BY ConstantsAssumption
  <2>3. got[<<s, "resolved">>] > 0 \/ (\E q \in Procs : claim[q] = <<s, "resolved">>)
    BY <1>1, <2>1, <2>2
  <2> QED
    BY <1>5, <2>1, <2>3 DEF NotifyInv, OrderOK
<1>13. CountOK'
  <2> SUFFICES ASSUME NEW x \in Delivery, Pending(x)'
               PROVE  \/ got[x] =< faults
                      \/ \E q \in Procs : claim'[q] = x /\ pc'[q] = "record" /\ ok'[q]
    BY <1>1 DEF NotifyInv, CountOK
  <2>1. CASE x = d
    <3>1. ~ok[p]
      BY <1>4, <2>1 DEF Pending
    <3>2. got[d] =< faults
      BY <1>2, <1>6, <3>1 DEF NotifyInv, CountOK
    <3> QED
      BY <2>1, <3>2
  <2>2. CASE x # d
    <3>1. Pending(x)
      BY <1>5
    <3>2. CASE got[x] =< faults
      BY <3>2
    <3>3. CASE ~(got[x] =< faults)
      <4>1. PICK q \in Procs : claim[q] = x /\ pc[q] = "record" /\ ok[q]
        BY <3>1, <3>3 DEF NotifyInv, CountOK
      <4> QED
        BY <1>1, <2>2, <4>1
    <3> QED
      BY <3>2, <3>3
  <2> QED
    BY <2>1, <2>2
<1> QED
  BY <1>7, <1>8, <1>9, <1>10, <1>11, <1>12, <1>13

LEMMA AbortInv ==
    ASSUME NotifyInv, NEW p \in Procs, Abort(p)
    PROVE  (ClaimOK /\ NewsOK /\ FreshOK /\ ClearOK
            /\ SentOK /\ OrderOK /\ PrunedOK /\ CountOK)'
<1>1. /\ UNCHANGED <<event, channel, outbox, got>>
      /\ pc'[p] = "idle" /\ claim'[p] = None
      /\ news'[p] = NoNews /\ obs'[p] = NoObservation
      /\ \A q \in Procs : q # p => /\ pc'[q] = pc[q] /\ claim'[q] = claim[q]
                                   /\ news'[q] = news[q] /\ obs'[q] = obs[q]
                                   /\ ok'[q] = ok[q]
      /\ faults' = faults + 1
  BY DEF NotifyInv, TypeOK, Abort, Fault, Goto
<1>2. NoNews.opened = {} /\ NoNews.resolved = {} /\ NoObservation.open = {}
  BY DEF NoNews, NoObservation
<1>3. \A x : Pending(x)' = Pending(x)
  BY <1>1 DEF Pending
<1>4. \A q \in Procs : /\ news'[q].opened \subseteq news[q].opened
                       /\ news'[q].resolved \subseteq news[q].resolved
                       /\ obs'[q].open \subseteq obs[q].open
  BY <1>1, <1>2
<1>5. ClaimOK'
  BY <1>1, <1>3 DEF NotifyInv, ClaimOK
<1>6. NewsOK'
  <2>1. \A q \in Procs : pc'[q] # "enqueue" => news'[q] = NoNews
    BY <1>1 DEF NotifyInv, NewsOK
  <2> QED
    BY <1>1, <1>4, <2>1 DEF NotifyInv, NewsOK
<1>7. FreshOK' /\ ClearOK'
  BY <1>1, <1>4 DEF NotifyInv, FreshOK, Fresh, ClearOK
<1>8. SentOK'
  BY <1>1 DEF NotifyInv, SentOK
<1>9. OrderOK'
  <2>1. None \notin Delivery
    BY ConstantsAssumption
  <2>2. \A s \in Subject : <<s, "resolved">> \in Delivery
    BY DEF Delivery, Transitions
  <2> QED
    BY <1>1, <1>3, <2>1, <2>2 DEF NotifyInv, OrderOK
<1>10. PrunedOK'
  BY <1>1, <1>4 DEF NotifyInv, PrunedOK, Over
<1>11. CountOK'
  <2> SUFFICES ASSUME NEW x \in Delivery
               PROVE  /\ got[x] =< faults + 1
                      /\ got[x] =< 1 + faults'
    BY <1>1 DEF CountOK
  <2>1. faults \in Nat /\ got[x] \in Nat /\ got[x] =< 1 + faults
    BY DEF NotifyInv, TypeOK, CountOK
  <2> QED
    BY <1>1, <2>1
<1> QED
  BY <1>5, <1>6, <1>7, <1>8, <1>9, <1>10, <1>11

-----------------------------------------------------------------------------
(* Every step is one of these.                                               *)

LEMMA TakeInv ==
    ASSUME NotifyInv, NEW p \in Procs, NEW d \in todo[p],
           Disabled(p, d) \/ DropClear(p, d) \/ Defer(p, d)
    PROVE  Settles(d)
<1>1. /\ d \in Delivery /\ Pending(d) /\ ~Locked(d)
      /\ UNCHANGED <<event, channel, pc, obs, news, claim, ok, got, faults>>
  BY DEF NotifyInv, TypeOK, Disabled, DropClear, Defer, Take, Free
<1>2. /\ outbox[d] \in OutboxRow /\ outbox[d].status = "pending"
      /\ outbox \in [Delivery -> OutboxRow \cup {None}]
  BY <1>1, PendingType DEF NotifyInv, TypeOK
<1>3. /\ [outbox[d] EXCEPT !.status = "failed"].status = "failed"
      /\ [outbox[d] EXCEPT !.due = FALSE].status = "pending"
  BY <1>2 DEF OutboxRow
<1>4. /\ [outbox[d] EXCEPT !.status = "failed"] # None
      /\ [outbox[d] EXCEPT !.due = FALSE] # None
  <2>1. None \notin OutboxRow
    BY ConstantsAssumption
  <2> QED
    BY <1>2, <2>1, RowType
<1>5. CASE Disabled(p, d) \/ DropClear(p, d)
  <2>1. outbox' = [outbox EXCEPT ![d] = [outbox[d] EXCEPT !.status = "failed"]]
    BY <1>5 DEF Disabled, DropClear, Settle
  <2> QED
    BY <1>1, <1>2, <1>3, <1>4, <2>1 DEF Settles
<1>6. CASE Defer(p, d)
  <2>1. outbox' = [outbox EXCEPT ![d] = [outbox[d] EXCEPT !.due = FALSE]]
    BY <1>6 DEF Defer
  <2> QED
    BY <1>1, <1>2, <1>3, <1>4, <2>1 DEF Settles
<1> QED
  BY <1>5, <1>6

LEMMA TimeInv ==
    ASSUME NotifyInv, NEW d \in Delivery, TimePasses(d)
    PROVE  Settles(d)
<1>1. /\ Pending(d) /\ outbox[d] \in OutboxRow /\ outbox[d].status = "pending"
      /\ outbox \in [Delivery -> OutboxRow \cup {None}]
  BY PendingType DEF NotifyInv, TypeOK, TimePasses
<1>2. [outbox[d] EXCEPT !.due = TRUE].status = "pending"
  BY <1>1 DEF OutboxRow
<1>3. [outbox[d] EXCEPT !.due = TRUE] # None
  <2>1. None \notin OutboxRow
    BY ConstantsAssumption
  <2> QED
    BY <1>1, <2>1, RowType
<1>4. outbox' = [outbox EXCEPT ![d] = [outbox[d] EXCEPT !.due = TRUE]]
  BY DEF TimePasses
<1> QED
  BY <1>1, <1>2, <1>3, <1>4 DEF Settles, TimePasses

\* The steps that change nothing the invariant is about.
LEMMA LooksSteps ==
    /\ NotifyInv /\ UNCHANGED vars => Looks
    /\ NotifyInv /\ VmChanges => Looks
    /\ \A k \in Keys : NotifyInv /\ ConditionChanges(k) => Looks
    /\ \A c \in Channels, s \in Settings : NotifyInv /\ SetChannel(c, s) => Looks
    /\ \A p \in Procs : NotifyInv /\ (Observe(p) \/ Probe(p) \/ CommitFails(p)
                                      \/ List(p) \/ Sleep(p)) => Looks
    /\ \A p \in Procs : \A d \in todo[p] : NotifyInv /\ Skip(p, d) => Looks
<1>1. NotifyInv /\ UNCHANGED vars => Looks
  BY DEF vars, Looks
<1>2. NotifyInv /\ VmChanges => Looks
  BY DEF VmChanges, Changes, Looks
<1>3. ASSUME NotifyInv, NEW k \in Keys, ConditionChanges(k) PROVE Looks
  BY <1>3 DEF ConditionChanges, Changes, Looks
<1>4. ASSUME NotifyInv, NEW c \in Channels, NEW s \in Settings, SetChannel(c, s)
      PROVE  Looks
  BY <1>4 DEF NotifyInv, TypeOK, SetChannel, Operate, env, Looks
<1>5. ASSUME NotifyInv, NEW p \in Procs,
             Observe(p) \/ Probe(p) \/ CommitFails(p) \/ List(p) \/ Sleep(p)
      PROVE  Looks
  <2>0. NotifyInv /\ obs[p] \in Observation
    BY <1>5 DEF NotifyInv, TypeOK
  <2>1. CASE Observe(p)
    <3> DEFINE truth == {k \in Keys : cond[k]}
               new == [NoObservation EXCEPT !.seen = IF vm THEN truth ELSE truth \ MetricKeys,
                                            !.truth = truth, !.metrics = vm]
    <3>1. new.open = {}
      BY DEF NoObservation
    <3>2. obs' = [obs EXCEPT ![p] = new]
      BY <2>1 DEF Observe
    <3> QED
      BY <2>0, <2>1, <3>1, <3>2 DEF NotifyInv, TypeOK, Observe, Goto, env, Looks
  <2>2. CASE Probe(p)
    <3> DEFINE new == [obs[p] EXCEPT !.up = vm, !.open = {e \in Event : Open(e)}]
    <3>1. new.open = {e \in Event : Open(e)}
      BY <2>0 DEF Observation
    <3>2. obs' = [obs EXCEPT ![p] = new]
      BY <2>2 DEF Probe
    <3> QED
      BY <2>0, <2>2, <3>1, <3>2 DEF NotifyInv, TypeOK, Probe, Goto, env, Looks
  <2>3. CASE CommitFails(p)
    BY <2>0, <2>3 DEF NotifyInv, TypeOK, CommitFails, NoObservation, Goto, env, Looks
  <2>4. CASE List(p) \/ Sleep(p)
    <3>1. /\ UNCHANGED <<event, channel, outbox, news, claim, ok, got, faults, obs>>
          /\ pc[p] \in {"list", "claim"} /\ pc' = [pc EXCEPT ![p] = pc'[p]]
          /\ pc'[p] \in {"claim", "idle"}
      BY <2>0, <2>4 DEF NotifyInv, TypeOK, List, Sleep, Goto
    <3> QED
      BY <2>0, <3>1 DEF NotifyInv, TypeOK, Looks
  <2> QED
    BY <1>5, <2>1, <2>2, <2>3, <2>4
<1>6. ASSUME NotifyInv, NEW p \in Procs, NEW d \in todo[p], Skip(p, d) PROVE Looks
  BY <1>6 DEF Skip, Take, env, Looks
<1> QED
  BY <1>1, <1>2, <1>3, <1>4, <1>5, <1>6

LEMMA RemovesSteps == NotifyInv /\ ((\E c \in Channels : DeleteChannel(c))
                                    \/ (\E e \in Event : PruneEvent(e))
                                    \/ (\E d \in Delivery : PruneDelivery(d)))
                      => Removes
<1>1. ASSUME NotifyInv, NEW c \in Channels, DeleteChannel(c) PROVE Removes
  <2>1. channel' = [channel EXCEPT ![c] = [channel[c] EXCEPT !.state = "deleted"]]
        /\ channel[c] \in Channel
    BY <1>1 DEF DeleteChannel, NotifyInv, TypeOK
  <2>2. channel \in [Channels -> Channel]
    BY <1>1 DEF NotifyInv, TypeOK
  <2>3. /\ channel'[c].state = "deleted"
        /\ \A b \in Channels : b # c => channel'[b] = channel[b]
    <3>1. [channel[c] EXCEPT !.state = "deleted"].state = "deleted"
      BY <2>1 DEF Channel
    <3> QED
      BY <2>1, <2>2, <3>1
  <2>4. \A x \in Delivery : outbox'[x] = IF x[1][2] = c THEN None ELSE outbox[x]
    BY <1>1 DEF DeleteChannel, Delete
  <2>5. \A x \in Delivery : x[1][2] = c => ~Locked(x)
    BY <1>1 DEF DeleteChannel, Delete
  <2>6. ASSUME NEW e \in Event, NEW b \in Channels,
               outbox'[<<<<e, b>>, "resolved">>] = None,
               outbox[<<<<e, b>>, "resolved">>] # None
        PROVE  channel'[b].state = "deleted"
    BY <2>3, <2>4, <2>6, SubjectParts
  <2>7. UNCHANGED <<pc, obs, news, claim, ok, got, faults, event>>
    BY <1>1 DEF DeleteChannel, Operate
  <2> QED
    BY <2>3, <2>4, <2>5, <2>6, <2>7 DEF Removes
<1>2. ASSUME NotifyInv, NEW e \in Event, PruneEvent(e) PROVE Removes
  <2>1. \A x \in Delivery : outbox'[x] = IF x[1][1] = e THEN None ELSE outbox[x]
    BY <1>2 DEF PruneEvent, Delete
  <2>2. \A x \in Delivery : x[1][1] = e => ~Locked(x)
    BY <1>2 DEF PruneEvent, Delete
  <2>3. /\ UNCHANGED <<pc, obs, news, claim, ok, got, faults, channel>>
        /\ Old(e) /\ event[e] \in {"open", "resolved"}
        /\ event'[e] = "deleted"
        /\ \A f \in Event : f # e => event'[f] = event[f]
    BY <1>2 DEF NotifyInv, TypeOK, PruneEvent, Operate
  <2>4. \A f \in Event, c \in Channels :
            outbox'[<<<<f, c>>, "resolved">>] =
                IF f = e THEN None ELSE outbox[<<<<f, c>>, "resolved">>]
    BY <2>1, SubjectParts
  <2> QED
    BY <2>1, <2>2, <2>3, <2>4 DEF Removes
<1>3. ASSUME NotifyInv, NEW d \in Delivery, PruneDelivery(d) PROVE Removes
  <2>1. \A x \in Delivery : outbox'[x] = IF x = d THEN None ELSE outbox[x]
    BY <1>3 DEF PruneDelivery, Delete
  <2>2. ~Locked(d) /\ Old(d[1][1])
        /\ (d[2] = "resolved" => \A p \in Procs : d[1][1] \notin obs[p].open)
    BY <1>3 DEF PruneDelivery, Delete
  <2>3. UNCHANGED <<pc, obs, news, claim, ok, got, faults, channel, event>>
    BY <1>3 DEF PruneDelivery, Operate
  <2>4. ASSUME NEW e \in Event, NEW c \in Channels,
               outbox'[<<<<e, c>>, "resolved">>] = None,
               outbox[<<<<e, c>>, "resolved">>] # None
        PROVE  Old(e) /\ \A p \in Procs : e \notin obs[p].open
    <3>1. d = <<<<e, c>>, "resolved">>
      BY <2>1, <2>4, SubjectParts
    <3>2. d[2] = "resolved" /\ d[1][1] = e
      BY <3>1
    <3> QED
      BY <2>2, <3>2
  <2> QED
    BY <2>1, <2>2, <2>3, <2>4 DEF Removes
<1> QED
  BY <1>1, <1>2, <1>3

LEMMA SendSteps ==
    ASSUME NotifyInv, NEW p \in Procs, Send(p) \/ SendFails(p) \/ ReplyLost(p)
    PROVE  SendsOrFails(p)
<1>1. CASE Send(p)
  BY <1>1 DEF Send, SendsOrFails
<1>2. CASE SendFails(p)
  BY <1>2 DEF SendFails, Fault, SendsOrFails
<1>3. CASE ReplyLost(p)
  BY <1>3 DEF ReplyLost, Fault, SendsOrFails
<1> QED
  BY <1>1, <1>2, <1>3

LEMMA NextInv == NotifyInv /\ [Next]_vars => NotifyInv'
<1> SUFFICES ASSUME NotifyInv, [Next]_vars PROVE NotifyInv'
  OBVIOUS
<1> USE DEF NotifyInv
<1>1. TypeOK /\ ClaimOK
  OBVIOUS
<1>2. CASE UNCHANGED vars
  <2>1. TypeOK'
    BY <1>1, <1>2 DEF vars, TypeOK
  <2> QED
    BY <1>2, <2>1, LooksSteps, LooksInv
<1>3. ASSUME NEW p \in Procs, ProcStep(p) PROVE NotifyInv'
  <2>1. TypeOK'
    BY <1>1, <1>3, ProcType
  <2>2. CASE Observe(p) \/ Probe(p) \/ CommitFails(p) \/ List(p) \/ Sleep(p)
    BY <2>1, <2>2, LooksSteps, LooksInv
  <2>3. CASE Commit(p)
    BY <2>1, <2>3, CommitInv
  <2>4. CASE Enqueue(p)
    BY <2>1, <2>4, EnqueueInv
  <2>5. ASSUME NEW d \in todo[p], Skip(p, d) PROVE NotifyInv'
    BY <2>1, <2>5, LooksSteps, LooksInv
  <2>6. ASSUME NEW d \in todo[p], Disabled(p, d) \/ DropClear(p, d) \/ Defer(p, d)
        PROVE  NotifyInv'
    <3>1. d \in Delivery
      BY DEF TypeOK
    <3>2. Settles(d)
      BY <2>6, TakeInv
    <3> QED
      BY <2>1, <3>1, <3>2, SettlesInv
  <2>7. ASSUME NEW d \in todo[p], Claim(p, d) PROVE NotifyInv'
    BY <2>1, <2>7, ClaimInv
  <2>8. CASE Send(p)
    BY <2>1, <2>8, SendSteps, SentInv
  <2>9. CASE Record(p)
    BY <2>1, <2>9, RecordInv
  <2> QED
    BY <1>3, <2>2, <2>3, <2>4, <2>5, <2>6, <2>7, <2>8, <2>9 DEF ProcStep
<1>4. ASSUME NEW p \in Procs, FaultStep(p) PROVE NotifyInv'
  <2>1. TypeOK'
    BY <1>1, <1>4, ProcType
  <2>2. CASE Abort(p)
    BY <2>1, <2>2, AbortInv
  <2>3. CASE SendFails(p) \/ ReplyLost(p)
    BY <2>1, <2>3, SendSteps, SentInv
  <2> QED
    BY <1>4, <2>2, <2>3 DEF FaultStep
<1>5. CASE WorldStep
  <2>1. TypeOK'
    BY <1>1, <1>5, WorldType
  <2>2. ASSUME Looks PROVE NotifyInv'
    BY <2>1, <2>2, LooksInv
  <2>3. ASSUME Removes PROVE NotifyInv'
    BY <2>1, <2>3, RemovesInv
  <2>4. ASSUME NEW k \in Keys, ConditionChanges(k) PROVE NotifyInv'
    BY <2>2, <2>4, LooksSteps
  <2>5. ASSUME VmChanges PROVE NotifyInv'
    BY <2>2, <2>5, LooksSteps
  <2>6. ASSUME NEW c \in Channels, NEW s \in Settings, SetChannel(c, s) PROVE NotifyInv'
    BY <2>2, <2>6, LooksSteps
  <2> QED
    BY <1>5, <2>3, <2>4, <2>5, <2>6, RemovesSteps DEF WorldStep
<1>6. ASSUME NEW d \in Delivery, TimePasses(d) PROVE NotifyInv'
  <2>1. TypeOK'
    BY <1>1, <1>6, TimeType
  <2> QED
    BY <1>6, <2>1, TimeInv, SettlesInv
<1> QED
  BY <1>2, <1>3, <1>4, <1>5, <1>6 DEF Next

LEMMA NotifyInvHolds == Spec => []NotifyInv
<1>1. Init => NotifyInv
  BY InitInv
<1>2. NotifyInv /\ [Next]_vars => NotifyInv'
  BY NextInv
<1> QED
  BY <1>1, <1>2, PTL DEF Spec

-----------------------------------------------------------------------------
(* What follows.                                                             *)

\* Every variable keeps its type; a row that is pending has attempts left
\* (_record_failure).
THEOREM NotifyType == Spec => []TypeOK
<1>1. NotifyInv => TypeOK
  BY DEF NotifyInv
<1> QED
  BY <1>1, NotifyInvHolds, PTL

\* A message arrives at most once more than there were failures, however many
\* workers share the outbox (dispatch_pending).
THEOREM RepeatsBounded == Spec => []RepeatsNeedFailures
<1>1. NotifyInv => RepeatsNeedFailures
  BY DEF NotifyInv, CountOK, RepeatsNeedFailures
<1> QED
  BY <1>1, NotifyInvHolds, PTL

\* A step delivers at most one message, and in order.
LEMMA StepInOrder == NotifyInv /\ [Next]_vars => [A!Next]_got
<1> SUFFICES ASSUME NotifyInv, [Next]_vars, got' # got PROVE A!Next
  OBVIOUS
<1>1. PICK p \in Procs : SendsOrFails(p)
  <2>1. ASSUME NEW p \in Procs, ProcStep(p) PROVE Send(p)
    <3>1. CASE Observe(p) \/ Probe(p) \/ Commit(p) \/ CommitFails(p) \/ Enqueue(p)
               \/ List(p) \/ Sleep(p) \/ Record(p)
      BY <3>1 DEF Observe, Probe, Commit, CommitFails, Enqueue, List, Sleep, Record
    <3>2. ASSUME NEW d \in todo[p], Skip(p, d) \/ Disabled(p, d) \/ DropClear(p, d)
                                    \/ Defer(p, d) \/ Claim(p, d)
          PROVE  FALSE
      BY <3>2 DEF Skip, Disabled, DropClear, Defer, Claim, Take
    <3> QED
      BY <2>1, <3>1, <3>2 DEF ProcStep
  <2>2. ~\E p \in Procs : Abort(p)
    BY DEF Abort
  <2>3. ~WorldStep
    BY DEF WorldStep, ConditionChanges, VmChanges, Changes, DeleteChannel, SetChannel,
           PruneEvent, PruneDelivery, Operate
  <2>4. ~\E d \in Delivery : TimePasses(d)
    BY DEF TimePasses
  <2>5. ~UNCHANGED vars
    BY DEF vars
  <2>6. \E p \in Procs : Send(p) \/ SendFails(p) \/ ReplyLost(p)
    BY <2>1, <2>2, <2>3, <2>4, <2>5 DEF Next, FaultStep
  <2> QED
    BY <2>6, SendSteps
<1>2. /\ pc[p] = "send"
      /\ got' = [got EXCEPT ![claim[p]] = got[claim[p]] + 1]
  BY <1>1 DEF SendsOrFails, Sent
<1>3. claim[p] \in Delivery /\ Pending(claim[p])
  BY <1>2, ClaimType DEF NotifyInv
<1>4. PICK s \in Subject, t \in Transitions : claim[p] = <<s, t>>
  BY <1>3 DEF Delivery
<1>5. CASE t = "opened"
  <2>1. ~(got[<<s, "resolved">>] > 0)
    BY <1>3, <1>4, <1>5 DEF NotifyInv, OrderOK
  <2>2. <<s, "resolved">> \in Delivery /\ got[<<s, "resolved">>] \in Nat
    BY DEF Delivery, Transitions, NotifyInv, TypeOK
  <2>3. got[<<s, "resolved">>] = 0
    BY <2>1, <2>2
  <2>4. got' = [got EXCEPT ![<<s, "opened">>] = got[<<s, "opened">>] + 1]
    BY <1>2, <1>4, <1>5
  <2> QED
    BY <2>3, <2>4 DEF A!Next, A!Alert, A!Arrives
<1>6. CASE t = "resolved"
  <2>1. got[<<s, "opened">>] > 0
    BY <1>4, <1>6 DEF NotifyInv, OrderOK
  <2>2. got' = [got EXCEPT ![<<s, "resolved">>] = got[<<s, "resolved">>] + 1]
    BY <1>2, <1>4, <1>6
  <2> QED
    BY <2>1, <2>2 DEF A!Next, A!AllClear, A!Arrives
<1> QED
  BY <1>4, <1>5, <1>6 DEF Transitions

\* For every event and channel the messages come in order: an all-clear only after
\* the alert, and no alert after the all-clear.
THEOREM MessagesInOrder == Spec => ImplementsAlerts
<1>1. Init => A!Init
  BY DEF Init, A!Init, Delivery
<1>2. NotifyInv /\ [Next]_vars => [A!Next]_got
  BY StepInOrder
<1> QED
  BY <1>1, <1>2, NotifyInvHolds, PTL DEF Spec, ImplementsAlerts, A!Spec

\* What a pass has seen: all that holds, but for metrics it could not read.
SeenOK ==
    \A p \in Procs : /\ obs[p].truth \ MetricKeys \subseteq obs[p].seen
                     /\ obs[p].metrics => obs[p].truth \subseteq obs[p].seen

LEMMA SeenInv == NotifyInv /\ SeenOK /\ [Next]_vars => SeenOK'
<1> SUFFICES ASSUME NotifyInv, SeenOK, [Next]_vars PROVE SeenOK'
  OBVIOUS
<1>1. CASE UNCHANGED obs
  BY <1>1 DEF SeenOK
<1>2. ASSUME NEW p \in Procs, obs' = [obs EXCEPT ![p] = obs'[p]],
             obs'[p].truth \ MetricKeys \subseteq obs'[p].seen,
             obs'[p].metrics => obs'[p].truth \subseteq obs'[p].seen
      PROVE  SeenOK'
  <2>1. \A q \in Procs : q # p => obs'[q] = obs[q]
    BY <1>2 DEF NotifyInv, TypeOK
  <2> QED
    BY <1>2, <2>1 DEF SeenOK
<1>3. NoObservation.truth = {} /\ NoObservation.seen = {}
  BY DEF NoObservation
<1>4. obs \in [Procs -> Observation]
  BY DEF NotifyInv, TypeOK
<1>5. ASSUME NEW p \in Procs, Observe(p) PROVE SeenOK'
  <2> DEFINE truth == {k \in Keys : cond[k]}
             new == [NoObservation EXCEPT !.seen = IF vm THEN truth ELSE truth \ MetricKeys,
                                          !.truth = truth, !.metrics = vm]
  <2>1. obs' = [obs EXCEPT ![p] = new]
    BY <1>5 DEF Observe
  <2>2. /\ new.seen = IF vm THEN truth ELSE truth \ MetricKeys
        /\ new.truth = truth /\ new.metrics = vm
    BY DEF NoObservation
  <2>3. obs'[p] = new
    BY <1>4, <2>1
  <2> HIDE DEF new
  <2> QED
    BY <1>2, <2>1, <2>2, <2>3
<1>6. ASSUME NEW p \in Procs, Probe(p) PROVE SeenOK'
  <2> DEFINE new == [obs[p] EXCEPT !.up = vm, !.open = {e \in Event : Open(e)}]
  <2>1. obs' = [obs EXCEPT ![p] = new]
    BY <1>6 DEF Probe
  <2>2. /\ new.seen = obs[p].seen /\ new.truth = obs[p].truth
        /\ new.metrics = obs[p].metrics
    BY <1>4 DEF Observation
  <2>3. obs'[p] = new
    BY <1>4, <2>1
  <2> HIDE DEF new
  <2> QED
    BY <1>2, <2>1, <2>2, <2>3 DEF SeenOK
<1>7. ASSUME NEW p \in Procs, CommitFails(p) \/ Commit(p) \/ Abort(p) PROVE SeenOK'
  <2>1. obs' = [obs EXCEPT ![p] = NoObservation]
    BY <1>7 DEF CommitFails, Commit, Abort
  <2>2. obs'[p] = NoObservation
    BY <1>4, <2>1
  <2> QED
    BY <1>2, <1>3, <2>1, <2>2
<1>8. ASSUME NEW p \in Procs, NEW d, Skip(p, d) \/ Disabled(p, d) \/ DropClear(p, d)
                                     \/ Defer(p, d) \/ Claim(p, d)
      PROVE  UNCHANGED obs
  BY <1>8 DEF Skip, Disabled, DropClear, Defer, Claim, Take
<1>9. ASSUME NEW p \in Procs, Enqueue(p) \/ List(p) \/ Sleep(p) \/ Send(p) \/ Record(p)
                              \/ SendFails(p) \/ ReplyLost(p)
      PROVE  UNCHANGED obs
  BY <1>9 DEF Enqueue, List, Sleep, Send, Record, SendFails, ReplyLost, Sent
<1>10. WorldStep => UNCHANGED obs
  BY DEF WorldStep, ConditionChanges, VmChanges, Changes, DeleteChannel, SetChannel,
         PruneEvent, PruneDelivery, Operate
<1>11. (\E d \in Delivery : TimePasses(d)) => UNCHANGED obs
  BY DEF TimePasses
<1>12. UNCHANGED vars => UNCHANGED obs
  BY DEF vars
<1> QED
  BY <1>1, <1>5, <1>6, <1>7, <1>8, <1>9, <1>10, <1>11, <1>12 DEF Next, ProcStep, FaultStep

LEMMA ClearIsTrue ==
    NotifyInv /\ SeenOK /\ [Next]_vars
    => [\A p \in Procs : Resolves(p) /\ (obs[p].up => obs[p].metrics)
            => \A e \in news'[p].resolved : e[1] \notin obs[p].truth]_vars
<1> SUFFICES ASSUME NotifyInv, SeenOK, [Next]_vars, NEW p \in Procs, Resolves(p),
                    obs[p].up => obs[p].metrics, NEW e \in news'[p].resolved,
                    e[1] \in obs[p].truth
             PROVE  FALSE
  OBVIOUS
<1>1. Commit(p)
  <2>0. pc \in [Procs -> Steps] /\ pc[p] = "commit" /\ pc'[p] = "enqueue"
    BY DEF NotifyInv, TypeOK, Resolves
  <2>1. ASSUME NEW q \in Procs, NEW step, pc' = [pc EXCEPT ![q] = step]
        PROVE  q = p
    BY <2>0, <2>1
  <2>2. ASSUME NEW q \in Procs, ProcStep(q) PROVE Commit(p)
    <3>1. CASE Observe(q) \/ Probe(q) \/ Enqueue(q) \/ List(q) \/ Sleep(q)
      BY <2>0, <2>1, <3>1 DEF Observe, Probe, Enqueue, List, Sleep, Goto
    <3>2. CASE CommitFails(q)
      BY <2>0, <2>1, <3>2 DEF CommitFails, Goto
    <3>3. CASE Send(q) \/ Record(q)
      BY <2>0, <2>1, <3>3 DEF Send, Sent, Record, Goto
    <3>4. ASSUME NEW d \in todo[q], Skip(q, d) \/ Disabled(q, d) \/ DropClear(q, d)
                                    \/ Defer(q, d)
          PROVE  FALSE
      BY <2>0, <3>4 DEF Skip, Disabled, DropClear, Defer
    <3>5. ASSUME NEW d \in todo[q], Claim(q, d) PROVE FALSE
      BY <2>0, <2>1, <3>5 DEF Claim, Take, Goto
    <3>6. CASE Commit(q)
      <4>1. pc' = [pc EXCEPT ![q] = "enqueue"]
        BY <3>6 DEF Commit, Goto
      <4>2. q = p
        BY <2>1, <4>1
      <4> QED
        BY <3>6, <4>2
    <3> QED
      BY <2>2, <3>1, <3>2, <3>3, <3>4, <3>5, <3>6 DEF ProcStep
  <2>3. ASSUME NEW q \in Procs, FaultStep(q) PROVE FALSE
    BY <2>0, <2>1, <2>3 DEF FaultStep, Abort, SendFails, ReplyLost, Sent, Goto
  <2>4. ~WorldStep
    BY <2>0 DEF WorldStep, ConditionChanges, VmChanges, Changes, DeleteChannel, SetChannel,
           PruneEvent, PruneDelivery, Operate
  <2>5. ~(\E d \in Delivery : TimePasses(d)) /\ ~UNCHANGED vars
    BY <2>0 DEF TimePasses, vars
  <2> QED
    BY <2>2, <2>3, <2>4, <2>5 DEF Next
<1>2. Clears(p, e) /\ e \in Event
  BY <1>1 DEF NotifyInv, TypeOK, Commit
<1>3. e[1] \notin obs[p].seen /\ (obs[p].up \/ e[1] \notin MetricKeys)
  BY <1>2 DEF Clears
<1> QED
  BY <1>3 DEF SeenOK

\* An event is resolved only by a pass that found its condition cleared, unless
\* VictoriaMetrics came back in the middle of the pass (_reconcile).
THEOREM SteadyClears == Spec => SteadyAllClearIsTrue
<1>1. Init => SeenOK
  <2>1. Init => \A p \in Procs : obs[p] = NoObservation
    BY DEF Init
  <2> QED
    BY <2>1 DEF SeenOK, NoObservation
<1>2. NotifyInv /\ SeenOK /\ [Next]_vars => SeenOK'
  BY SeenInv
<1> QED
  BY <1>1, <1>2, NotifyInvHolds, ClearIsTrue, PTL DEF Spec, SteadyAllClearIsTrue
-----------------------------------------------------------------------------
(* What is left of the liveness properties without fairness: as long as      *)
(* nobody disturbs it, an event that concerns a channel is never forgotten.  *)
(* Either the row is in the outbox or a process is about to put it there,    *)
(* and all that fairness has to add is that this process goes on.            *)

\* No process is stopped, no channel changed and no old row deleted.  Endpoints
\* and VictoriaMetrics may fail.
Calm == UNCHANGED ops /\ \A p \in Procs : ~Abort(p)

\* A calm step leaves the channels as they are and removes no row; only a commit
\* changes the events, only an enqueue adds rows.
Carries ==
    /\ UNCHANGED <<event, news>>
    /\ \A d \in Delivery : outbox'[d] = None <=> outbox[d] = None

LEMMA CalmStep ==
    ASSUME NotifyInv, [Next]_vars, [Calm]_vars
    PROVE  /\ UNCHANGED channel
           /\ \/ Carries
              \/ \E p \in Procs : Commit(p) \/ Enqueue(p)
<1>2. CASE UNCHANGED vars
  BY <1>2 DEF vars, Carries
<1>3. ASSUME NEW p \in Procs, ProcStep(p)
      PROVE  UNCHANGED channel /\ (Carries \/ Commit(p) \/ Enqueue(p))
  <2>1. CASE Observe(p) \/ Probe(p) \/ CommitFails(p) \/ List(p) \/ Sleep(p) \/ Send(p)
    BY <2>1 DEF Observe, Probe, CommitFails, List, Sleep, Send, Sent, Carries
  <2>2. CASE Commit(p) \/ Enqueue(p)
    BY <2>2 DEF Commit, Enqueue
  <2>3. ASSUME NEW d \in todo[p], Skip(p, d) \/ Claim(p, d)
        PROVE  UNCHANGED channel /\ Carries
    BY <2>3 DEF Skip, Claim, Take, Carries
  <2>4. ASSUME NEW d \in todo[p], Disabled(p, d) \/ DropClear(p, d) \/ Defer(p, d)
        PROVE  UNCHANGED channel /\ Carries
    <3>1. d \in Delivery
      BY DEF NotifyInv, TypeOK
    <3>2. Settles(d)
      BY <2>4, <3>1, TakeInv
    <3> QED
      BY <3>1, <3>2 DEF Settles, Pending, Carries
  <2>5. CASE Record(p)
    <3> DEFINE d == claim[p]
               row == IF ok[p] THEN [outbox[d] EXCEPT !.status = "sent"] ELSE Failed(outbox[d])
    <3>1. /\ d \in Delivery /\ outbox[d] # None
          /\ outbox[d] \in OutboxRow /\ outbox[d].status = "pending"
      BY <2>5, ClaimType DEF NotifyInv, Record, Pending
    <3>2. row \in OutboxRow /\ None \notin OutboxRow
      BY <3>1, RowType, ConstantsAssumption
    <3>3. outbox' = [outbox EXCEPT ![d] = row]
      BY <2>5 DEF Record
    <3>4. UNCHANGED <<channel, event, news>>
      BY <2>5 DEF Record
    <3>5. outbox \in [Delivery -> OutboxRow \cup {None}]
      BY DEF NotifyInv, TypeOK
    <3> HIDE DEF d, row
    <3> QED
      BY <3>1, <3>2, <3>3, <3>4, <3>5 DEF Carries
  <2> QED
    BY <1>3, <2>1, <2>2, <2>3, <2>4, <2>5 DEF ProcStep
<1>4. ASSUME NEW p \in Procs, SendFails(p) \/ ReplyLost(p) PROVE UNCHANGED channel /\ Carries
  BY <1>4 DEF SendFails, ReplyLost, Sent, Carries
<1>5. CASE (\E k \in Keys : ConditionChanges(k)) \/ VmChanges
  BY <1>5 DEF ConditionChanges, VmChanges, Changes, Carries
<1>6. ASSUME NEW d \in Delivery, TimePasses(d) PROVE UNCHANGED channel /\ Carries
  <2>1. Settles(d)
    BY <1>6, TimeInv
  <2> QED
    BY <1>6, <2>1 DEF Settles, Pending, Carries
<1>7. ASSUME Operate, Calm PROVE FALSE
  <2>1. ops \in Nat
    BY DEF NotifyInv, TypeOK
  <2> QED
    BY <1>7, <2>1 DEF Operate, Calm
<1>8. ~Calm => UNCHANGED vars
  OBVIOUS
<1>9. CASE Calm
  <2>1. ~\E p \in Procs : Abort(p)
    BY <1>9 DEF Calm
  <2>2. WorldStep => (\E k \in Keys : ConditionChanges(k)) \/ VmChanges
    BY <1>7, <1>9 DEF WorldStep, DeleteChannel, SetChannel, PruneEvent, PruneDelivery
  <2> QED
    BY <1>2, <1>3, <1>4, <1>5, <1>6, <2>1, <2>2 DEF Next, FaultStep
<1> QED
  BY <1>2, <1>8, <1>9

\* The alert of an event for a channel is in the outbox, or on its way there.
AlertUnderWay(e, c) ==
    \/ outbox[<<<<e, c>>, "opened">>] # None
    \/ \E p \in Procs : pc[p] = "enqueue" /\ e \in news[p].opened

AlertsUnderWay ==
    \A e \in Event, c \in Channels :
        event[e] \in {"open", "resolved"} /\ Enabled(c) /\ WantsAlert(e, c)
        => AlertUnderWay(e, c)

LEMMA AlertsStep == NotifyInv /\ AlertsUnderWay /\ [Next]_vars /\ [Calm]_vars
                    => AlertsUnderWay'
<1> SUFFICES ASSUME NotifyInv, AlertsUnderWay, [Next]_vars, [Calm]_vars,
                    NEW e \in Event, NEW c \in Channels,
                    event'[e] \in {"open", "resolved"}, Enabled(c)', WantsAlert(e, c)'
             PROVE  AlertUnderWay(e, c)'
  BY DEF AlertsUnderWay
<1> DEFINE d == <<<<e, c>>, "opened">>
<1>1. NotifyInv'
  BY NextInv
<1>2. UNCHANGED channel /\ (Carries \/ \E p \in Procs : Commit(p) \/ Enqueue(p))
  BY CalmStep
<1>3. Enabled(c) /\ WantsAlert(e, c) /\ d \in Delivery
  BY <1>2, SubjectParts DEF Enabled, WantsAlert
<1>4. ASSUME NEW p \in Procs, e \in news'[p].opened PROVE AlertUnderWay(e, c)'
  <2>1. pc'[p] = "enqueue"
    BY <1>1, <1>4 DEF NotifyInv, NewsOK, NoNews
  <2> QED
    BY <1>4, <2>1 DEF AlertUnderWay
<1>5. CASE Carries
  <2>1. AlertUnderWay(e, c)
    BY <1>3, <1>5 DEF Carries, AlertsUnderWay
  <2> QED
    BY <1>3, <1>4, <1>5, <2>1 DEF Carries, AlertUnderWay
<1>6. ASSUME NEW p \in Procs, Commit(p) PROVE AlertUnderWay(e, c)'
  <2> DEFINE opened == UNION {FirstUnborn(k) : k \in {j \in Keys : Inserts(p, j)}}
             resolved == {f \in Event : Clears(p, f)}
  <2>1. /\ outbox' = outbox
        /\ \A q \in Procs : q # p => news'[q] = news[q]
        /\ news'[p].opened = opened
    BY <1>6 DEF NotifyInv, TypeOK, Commit
  <2>2. event'[e] = IF e \in resolved THEN "resolved"
                    ELSE IF e \in opened THEN "open" ELSE event[e]
    BY <1>6 DEF Commit
  <2>3. CASE e \in opened
    BY <1>4, <2>1, <2>3
  <2>4. CASE e \notin opened
    <3>1. event[e] \in {"open", "resolved"}
      <4>1. \A f \in resolved : event[f] # "unborn" /\ event[f] # "deleted"
        BY <1>6 DEF NotifyInv, NewsOK, Clears, Commit
      <4>2. event[e] \in EventState
        BY DEF NotifyInv, TypeOK
      <4> QED
        BY <2>2, <2>4, <4>1, <4>2 DEF EventState
    <3>2. AlertUnderWay(e, c)
      BY <1>3, <3>1 DEF AlertsUnderWay
    <3>3. CASE outbox[d] # None
      BY <2>1, <3>3 DEF AlertUnderWay
    <3>4. ASSUME NEW q \in Procs, pc[q] = "enqueue", e \in news[q].opened
          PROVE  AlertUnderWay(e, c)'
      <4>1. q # p
        BY <1>6, <3>4 DEF Commit
      <4> QED
        BY <1>4, <2>1, <3>4, <4>1
    <3> QED
      BY <3>2, <3>3, <3>4 DEF AlertUnderWay
  <2> QED
    BY <2>3, <2>4
<1>7. ASSUME NEW p \in Procs, Enqueue(p) PROVE AlertUnderWay(e, c)'
  <2>1. /\ outbox'[d] = IF d \in Wanted(p) THEN NewRow ELSE outbox[d]
        /\ \A q \in Procs : q # p => news'[q] = news[q]
        /\ UNCHANGED event
    BY <1>3, <1>7 DEF NotifyInv, TypeOK, Enqueue
  <2>2. AlertUnderWay(e, c)
    BY <1>3, <2>1 DEF AlertsUnderWay
  <2>3. CASE outbox[d] # None
    BY <2>1, <2>3, NewRowType DEF AlertUnderWay
  <2>4. CASE outbox[d] = None /\ e \in news[p].opened
    <3>1. d \in Wanted(p)
      BY <1>3, <2>4 DEF Wanted
    <3> QED
      BY <2>1, <3>1, NewRowType DEF AlertUnderWay
  <2>5. ASSUME NEW q \in Procs, q # p, e \in news[q].opened PROVE AlertUnderWay(e, c)'
    BY <1>4, <2>1, <2>5
  <2> QED
    BY <2>2, <2>3, <2>4, <2>5 DEF AlertUnderWay
<1> QED
  BY <1>2, <1>5, <1>6, <1>7

\* While no process is stopped and no channel changed, whatever else fails, no alert
\* is forgotten: for an event that is or was open, and every enabled channel that
\* wants its severity, the row is in the outbox or a process is between its commit and
\* the enqueue.  Without the assumption this fails: the two are separate transactions.
THEOREM NoAlertForgotten == Spec /\ [][Calm]_vars => []AlertsUnderWay
<1>1. Init => AlertsUnderWay
  BY DEF Init, AlertsUnderWay
<1>2. NotifyInv /\ AlertsUnderWay /\ [Next]_vars /\ [Calm]_vars => AlertsUnderWay'
  BY AlertsStep
<1> QED
  BY <1>1, <1>2, NotifyInvHolds, PTL DEF Spec

\* The all-clear of an event for a channel is in the outbox, or on its way there.
ClearUnderWay(e, c) ==
    \/ outbox[<<<<e, c>>, "resolved">>] # None
    \/ \E p \in Procs : pc[p] = "enqueue" /\ e \in news[p].resolved

\* The channel is to hear the end of the open event.
Heard(e, c) == /\ Open(e) /\ outbox[<<<<e, c>>, "opened">>] # None
               /\ Enabled(c) /\ channel[c].onResolve

\* From then on: the channel stays, the row of the alert stays, and when the event
\* is resolved the all-clear is under way.
Owed(e, c) == /\ outbox[<<<<e, c>>, "opened">>] # None
              /\ Enabled(c) /\ channel[c].onResolve
              /\ event[e] = "open" \/ (event[e] = "resolved" /\ ClearUnderWay(e, c))

LEMMA OwedStep ==
    ASSUME NotifyInv, NEW e \in Event, NEW c \in Channels, Owed(e, c),
           [Next]_vars, [Calm]_vars
    PROVE  Owed(e, c)'
<1> DEFINE d == <<<<e, c>>, "opened">>
           r == <<<<e, c>>, "resolved">>
<1>1. NotifyInv'
  BY NextInv
<1>2. UNCHANGED channel /\ (Carries \/ \E p \in Procs : Commit(p) \/ Enqueue(p))
  BY CalmStep
<1>3. /\ d \in Delivery /\ r \in Delivery /\ outbox[d] # None
      /\ Enabled(c) /\ channel[c].onResolve
  BY SubjectParts DEF Owed
<1>4. Enabled(c)' /\ channel'[c].onResolve
  BY <1>2, <1>3 DEF Enabled
<1>5. ASSUME NEW p \in Procs, e \in news'[p].resolved PROVE ClearUnderWay(e, c)'
  <2>1. pc'[p] = "enqueue"
    BY <1>1, <1>5 DEF NotifyInv, NewsOK, NoNews
  <2> QED
    BY <1>5, <2>1 DEF ClearUnderWay
<1>6. CASE Carries
  <2>1. /\ outbox'[d] # None /\ event'[e] = event[e]
        /\ outbox[r] # None => outbox'[r] # None
    BY <1>3, <1>6 DEF Carries
  <2>2. ClearUnderWay(e, c) => ClearUnderWay(e, c)'
    BY <1>5, <1>6, <2>1 DEF Carries, ClearUnderWay
  <2> QED
    BY <1>4, <2>1, <2>2 DEF Owed
<1>7. ASSUME NEW p \in Procs, Commit(p) PROVE Owed(e, c)'
  <2> DEFINE opened == UNION {FirstUnborn(k) : k \in {j \in Keys : Inserts(p, j)}}
             resolved == {f \in Event : Clears(p, f)}
  <2>1. /\ outbox' = outbox
        /\ \A q \in Procs : q # p => news'[q] = news[q]
        /\ news'[p].resolved = resolved
    BY <1>7 DEF NotifyInv, TypeOK, Commit
  <2>2. event'[e] = IF e \in resolved THEN "resolved"
                    ELSE IF e \in opened THEN "open" ELSE event[e]
    BY <1>7 DEF Commit
  <2>3. e \notin opened
    BY DEF FirstUnborn, Owed
  <2>4. CASE e \in resolved
    <3>1. ClearUnderWay(e, c)'
      BY <1>5, <2>1, <2>4
    <3> QED
      BY <1>3, <1>4, <2>1, <2>2, <2>4, <3>1 DEF Owed
  <2>5. CASE e \notin resolved
    <3>1. event'[e] = event[e]
      BY <2>2, <2>3, <2>5
    <3>2. ASSUME ClearUnderWay(e, c), outbox[r] = None PROVE ClearUnderWay(e, c)'
      <4>1. PICK q \in Procs : pc[q] = "enqueue" /\ e \in news[q].resolved
        BY <3>2 DEF ClearUnderWay
      <4>2. q # p
        BY <1>7, <4>1 DEF Commit
      <4> QED
        BY <1>5, <2>1, <4>1, <4>2
    <3>3. ClearUnderWay(e, c) => ClearUnderWay(e, c)'
      BY <2>1, <3>2 DEF ClearUnderWay
    <3> QED
      BY <1>3, <1>4, <2>1, <3>1, <3>3 DEF Owed
  <2> QED
    BY <2>4, <2>5
<1>8. ASSUME NEW p \in Procs, Enqueue(p) PROVE Owed(e, c)'
  <2>1. /\ outbox'[r] = IF r \in Wanted(p) THEN NewRow ELSE outbox[r]
        /\ outbox'[d] = IF d \in Wanted(p) THEN NewRow ELSE outbox[d]
        /\ \A q \in Procs : q # p => news'[q] = news[q]
        /\ UNCHANGED event
    BY <1>3, <1>8 DEF NotifyInv, TypeOK, Enqueue
  <2>2. outbox'[d] # None
    BY <1>3, <2>1, NewRowType
  <2>3. ASSUME ClearUnderWay(e, c) PROVE ClearUnderWay(e, c)'
    <3>1. CASE outbox[r] # None
      BY <2>1, <3>1, NewRowType DEF ClearUnderWay
    <3>2. CASE outbox[r] = None /\ e \in news[p].resolved
      <4>1. r \in Wanted(p)
        BY <1>3, <3>2 DEF Wanted, WantsClear
      <4> QED
        BY <2>1, <4>1, NewRowType DEF ClearUnderWay
    <3>3. ASSUME NEW q \in Procs, q # p, e \in news[q].resolved
          PROVE  ClearUnderWay(e, c)'
      BY <1>5, <2>1, <3>3
    <3> QED
      BY <2>3, <3>1, <3>2, <3>3 DEF ClearUnderWay
  <2> QED
    BY <1>4, <2>1, <2>2, <2>3 DEF Owed
<1> QED
  BY <1>2, <1>6, <1>7, <1>8

\* While no process is stopped and no channel changed, whatever else fails, no
\* all-clear is forgotten: once the alert of an open event is in the outbox - sent or
\* not - for a channel that wants to hear the end, the event is never resolved without
\* the all-clear being in the outbox or a process being about to put it there.
THEOREM NoAllClearForgotten ==
    ASSUME NEW e \in Event, NEW c \in Channels
    PROVE  Spec /\ [][Calm]_vars
           => [](Heard(e, c) => [](event[e] = "resolved" => ClearUnderWay(e, c)))
<1>1. Heard(e, c) => Owed(e, c)
  BY DEF Heard, Owed, Open
<1>2. Owed(e, c) => (event[e] = "resolved" => ClearUnderWay(e, c))
  BY DEF Owed
<1>3. NotifyInv /\ Owed(e, c) /\ [Next]_vars /\ [Calm]_vars => Owed(e, c)'
  BY OwedStep
<1> QED
  BY <1>1, <1>2, <1>3, NotifyInvHolds, PTL DEF Spec

-----------------------------------------------------------------------------
(* What PendingSettles counts on: the attempts of a row are the measure of   *)
(* how far it has come.                                                      *)

\* A row that is settled stays as it is until it is deleted; the attempts of a row
\* never go down; and whoever lets go of a row has settled it or used up an attempt,
\* unless it was stopped.
RowAdvances(d) ==
    /\ outbox'[d].attempts >= outbox[d].attempts
    /\ ~Pending(d) => outbox'[d] = outbox[d]
    /\ Locked(d) /\ ~Locked(d)' => \/ ~Pending(d)'
                                   \/ outbox'[d].attempts = outbox[d].attempts + 1
                                   \/ faults' = faults + 1

RowsAdvance == \A d \in Delivery : outbox[d] # None /\ outbox'[d] # None => RowAdvances(d)

\* Setting the status or the due time of a row leaves its attempts alone.
LEMMA RowFields ==
    ASSUME NEW r \in OutboxRow
    PROVE  /\ r.attempts \in Nat
           /\ [r EXCEPT !.status = "failed"].attempts = r.attempts
           /\ [r EXCEPT !.status = "sent"].attempts = r.attempts
           /\ [r EXCEPT !.status = "sent"].status = "sent"
           /\ [r EXCEPT !.due = FALSE].attempts = r.attempts
           /\ [r EXCEPT !.due = TRUE].attempts = r.attempts
           /\ Failed(r).attempts = r.attempts + 1
BY DEF OutboxRow, Failed

\* A step that changes at most the row x of the outbox and lets go of nothing.
LEMMA OneRowAdvances ==
    ASSUME NotifyInv, NEW x \in Delivery, Pending(x),
           \A d \in Delivery : d # x => outbox'[d] = outbox[d],
           outbox'[x].attempts >= outbox[x].attempts,
           \A d \in Delivery : Locked(d) /\ ~Locked(d)' =>
               d = x /\ (\/ ~Pending(d)'
                         \/ outbox'[d].attempts = outbox[d].attempts + 1)
    PROVE  RowsAdvance
<1> SUFFICES ASSUME NEW d \in Delivery, outbox[d] # None, outbox'[d] # None
             PROVE  RowAdvances(d)
  BY DEF RowsAdvance
<1>1. outbox[d].attempts \in Nat
  BY RowFields DEF NotifyInv, TypeOK
<1>2. CASE d = x
  BY <1>2 DEF RowAdvances
<1>3. CASE d # x
  BY <1>1, <1>3 DEF RowAdvances
<1> QED
  BY <1>2, <1>3

\* A step that leaves every row alone or deletes it, and lets go of none unless it
\* is a failure.
LEMMA KeptAdvance ==
    ASSUME NotifyInv,
           \A d \in Delivery : outbox'[d] \in {outbox[d], None},
           UNCHANGED claim \/ faults' = faults + 1
    PROVE  RowsAdvance
<1> SUFFICES ASSUME NEW d \in Delivery, outbox[d] # None, outbox'[d] # None
             PROVE  RowAdvances(d)
  BY DEF RowsAdvance
<1>1. outbox[d].attempts \in Nat /\ outbox'[d] = outbox[d]
  BY RowFields DEF NotifyInv, TypeOK
<1> QED
  BY <1>1 DEF RowAdvances, Locked

LEMMA RowsStep == NotifyInv /\ [Next]_vars => [RowsAdvance]_vars
<1> SUFFICES ASSUME NotifyInv, Next PROVE RowsAdvance
  OBVIOUS
<1>0. TypeOK /\ outbox \in [Delivery -> OutboxRow \cup {None}]
  BY DEF NotifyInv, TypeOK
<1>1. ASSUME NEW p \in Procs, ProcStep(p) PROVE RowsAdvance
  <2>1. CASE Observe(p) \/ Probe(p) \/ Commit(p) \/ CommitFails(p) \/ List(p) \/ Sleep(p)
             \/ Send(p)
    <3>1. UNCHANGED <<outbox, claim>>
      BY <2>1 DEF Observe, Probe, Commit, CommitFails, List, Sleep, Send, Sent
    <3> QED
      BY <3>1, KeptAdvance
  <2>2. CASE Enqueue(p)
    <3> SUFFICES ASSUME NEW d \in Delivery, outbox[d] # None PROVE RowAdvances(d)
      BY DEF RowsAdvance
    <3>1. outbox'[d] = outbox[d] /\ UNCHANGED claim
      BY <2>2 DEF Enqueue, Wanted
    <3>2. outbox[d].attempts \in Nat
      BY <1>0, RowFields
    <3> QED
      BY <3>1, <3>2 DEF RowAdvances, Locked
  <2>3. ASSUME NEW d \in todo[p], Skip(p, d) PROVE RowsAdvance
    <3>1. UNCHANGED <<outbox, claim>>
      BY <2>3 DEF Skip
    <3> QED
      BY <3>1, KeptAdvance
  <2>4. ASSUME NEW d \in todo[p], Claim(p, d) PROVE RowsAdvance
    <3>1. /\ UNCHANGED outbox /\ d \in Delivery
          /\ claim' = [claim EXCEPT ![p] = d] /\ pc[p] = "claim"
      BY <1>0, <2>4 DEF TypeOK, Claim, Take
    <3>2. claim[p] = None /\ claim \in [Procs -> Delivery \cup {None}]
      BY <3>1 DEF NotifyInv, TypeOK, ClaimOK
    <3>3. None \notin Delivery
      BY ConstantsAssumption
    <3>4. ASSUME NEW x \in Delivery, Locked(x) PROVE Locked(x)'
      <4>1. PICK q \in Procs : claim[q] = x
        BY <3>4 DEF Locked
      <4>2. q # p /\ claim'[q] = x
        BY <3>1, <3>2, <3>3, <4>1
      <4> QED
        BY <4>2 DEF Locked
    <3> SUFFICES ASSUME NEW x \in Delivery, outbox[x] # None PROVE RowAdvances(x)
      BY DEF RowsAdvance
    <3>5. outbox[x].attempts \in Nat
      BY <1>0, RowFields
    <3> QED
      BY <3>1, <3>4, <3>5 DEF RowAdvances
  <2>5. ASSUME NEW d \in todo[p], Disabled(p, d) \/ DropClear(p, d) \/ Defer(p, d)
        PROVE  RowsAdvance
    <3>1. d \in Delivery /\ Pending(d) /\ UNCHANGED claim
      BY <1>0, <2>5 DEF TypeOK, Disabled, DropClear, Defer, Take, Free
    <3>2. outbox[d] \in OutboxRow
      BY <1>0, <3>1 DEF Pending
    <3>3. PICK row \in {[outbox[d] EXCEPT !.status = "failed"],
                        [outbox[d] EXCEPT !.due = FALSE]} :
              outbox' = [outbox EXCEPT ![d] = row]
      BY <2>5 DEF Disabled, DropClear, Defer, Settle
    <3>4. row.attempts = outbox[d].attempts /\ outbox[d].attempts \in Nat
      BY <3>2, <3>3, RowFields
    <3>5. /\ outbox'[d].attempts >= outbox[d].attempts
          /\ \A x \in Delivery : x # d => outbox'[x] = outbox[x]
      BY <1>0, <3>1, <3>3, <3>4
    <3>6. \A x : Locked(x)' = Locked(x)
      BY <3>1 DEF Locked
    <3> QED
      BY <3>1, <3>5, <3>6, OneRowAdvances
  <2>6. CASE Record(p)
    <3>a. claim[p] \in Delivery
      BY <2>6, ClaimType DEF NotifyInv, Record
    <3>b. PICK d \in Delivery : d = claim[p]
      BY <3>a
    <3> DEFINE row == IF ok[p] THEN [outbox[d] EXCEPT !.status = "sent"] ELSE Failed(outbox[d])
    <3>0. /\ Pending(d) /\ outbox[d] \in OutboxRow
      BY <2>6, <3>b, ClaimType DEF NotifyInv, Record
    <3>1. /\ claim' = [claim EXCEPT ![p] = None]
          /\ outbox' = [outbox EXCEPT ![d] = row]
      BY <2>6, <3>b DEF Record
    <3>2. /\ outbox[d].attempts \in Nat
          /\ row.attempts >= outbox[d].attempts
          /\ row.status = "sent" \/ row.attempts = outbox[d].attempts + 1
      <4>1. outbox[d].attempts \in Nat
        BY <3>0, RowFields
      <4>2. CASE ok[p]
        <5>1. row.attempts = outbox[d].attempts /\ row.status = "sent"
          BY <3>0, <4>2, RowFields
        <5> QED
          BY <4>1, <5>1
      <4>3. CASE ~ok[p]
        <5>1. row.attempts = outbox[d].attempts + 1
          BY <3>0, <4>3, RowFields
        <5> QED
          BY <4>1, <5>1
      <4> QED
        BY <4>2, <4>3
    <3>3. /\ outbox'[d] = row
          /\ \A x \in Delivery : x # d => outbox'[x] = outbox[x]
      BY <1>0, <3>0, <3>1
    <3>4. ASSUME NEW x \in Delivery, Locked(x), ~Locked(x)' PROVE x = d
      <4>1. PICK q \in Procs : claim[q] = x
        BY <3>4 DEF Locked
      <4>2. claim \in [Procs -> Delivery \cup {None}]
        BY <1>0 DEF TypeOK
      <4>3. q # p => claim'[q] = x
        BY <3>1, <4>1, <4>2
      <4> QED
        BY <3>4, <3>b, <4>1, <4>3 DEF Locked
    <3> HIDE DEF row
    <3>5. ~Pending(d)' \/ outbox'[d].attempts = outbox[d].attempts + 1
      BY <3>2, <3>3 DEF Pending
    <3> QED
      BY <3>0, <3>2, <3>3, <3>4, <3>5, OneRowAdvances
  <2> QED
    BY <1>1, <2>1, <2>2, <2>3, <2>4, <2>5, <2>6 DEF ProcStep
<1>2. ASSUME NEW p \in Procs, FaultStep(p) PROVE RowsAdvance
  <2>1. UNCHANGED outbox /\ faults' = faults + 1
    BY <1>2 DEF FaultStep, Abort, SendFails, ReplyLost, Fault, Sent
  <2> QED
    BY <2>1, KeptAdvance
<1>3. CASE WorldStep
  <2>1. ASSUME Looks \/ Removes PROVE RowsAdvance
    BY <2>1, KeptAdvance DEF Looks, Removes
  <2>2. ASSUME NEW k \in Keys, ConditionChanges(k) PROVE RowsAdvance
    BY <2>1, <2>2, LooksSteps
  <2>3. CASE VmChanges
    BY <2>1, <2>3, LooksSteps
  <2>4. ASSUME NEW c \in Channels, NEW s \in Settings, SetChannel(c, s) PROVE RowsAdvance
    BY <2>1, <2>4, LooksSteps
  <2> QED
    BY <1>3, <2>1, <2>2, <2>3, <2>4, RemovesSteps DEF WorldStep
<1>4. ASSUME NEW d \in Delivery, TimePasses(d) PROVE RowsAdvance
  <2>1. Pending(d) /\ UNCHANGED claim /\ outbox[d] \in OutboxRow
    BY <1>0, <1>4 DEF TimePasses, Pending
  <2>2. outbox' = [outbox EXCEPT ![d] = [outbox[d] EXCEPT !.due = TRUE]]
    BY <1>4 DEF TimePasses
  <2>3. /\ outbox'[d].attempts = outbox[d].attempts /\ outbox[d].attempts \in Nat
        /\ \A x \in Delivery : x # d => outbox'[x] = outbox[x]
    BY <1>0, <2>1, <2>2, RowFields
  <2>4. \A x : Locked(x)' = Locked(x)
    BY <2>1 DEF Locked
  <2> QED
    BY <2>1, <2>3, <2>4, OneRowAdvances
<1> QED
  BY <1>1, <1>2, <1>3, <1>4 DEF Next

\* A delivery that was sent or given up is never taken up again, and every attempt
\* that is not cut short counts: at most MAX_ATTEMPTS of them end a delivery
\* (dispatch_pending, _record_failure).
THEOREM AttemptsCount == Spec => [][RowsAdvance]_vars
BY NotifyInvHolds, RowsStep, PTL DEF Spec
=============================================================================
