---------------------------- MODULE Sessions_proofs ----------------------------
(***************************************************************************)
(* Proofs about Sessions, for any number of tabs, calls, pairs, sessions   *)
(* and faults.                                                             *)
(***************************************************************************)
EXTENDS Sessions, FiniteSetTheorems, TLAPS

-----------------------------------------------------------------------------
(* Types.  A call names only pairs and sessions that exist, and holds the  *)
(* session or the token its stage works on.                                *)

Good(r, m, o) ==
    /\ r \in Call
    /\ r.tok <= m /\ r.rt <= m /\ r.new <= m /\ r.sid <= o
    /\ r.st = "issue" => r.sid # 0
    /\ r.st = "consumed" => r.rt # 0
    /\ r.st = "store" => r.new # 0

Known ==
    /\ token <= minted /\ cookie <= minted
    /\ \A n \in Pairs : n <= minted => sidOf[n] \in 1 .. opened
    /\ \A c \in Calls : Good(call[c], minted, opened)
TInv == TypeOK /\ Known

LEMMA FreshGood ==
    ASSUME NEW m \in 0 .. MaxPairs, NEW o \in 0 .. MaxSessions,
           NEW st \in Stages \ {"issue", "consumed", "store"}, NEW kind \in Kinds,
           NEW tok \in 0 .. m, NEW cook \in 0 .. m, NEW tries \in {0, 1}
    PROVE  /\ Good(Fresh(st, kind, tok, cook, tries), m, o)
           /\ Fresh(st, kind, tok, cook, tries).st = st
           /\ Fresh(st, kind, tok, cook, tries).kind = kind
           /\ Fresh(st, kind, tok, cook, tries).rt = cook
           /\ Fresh(st, kind, tok, cook, tries).sid = 0
           /\ Fresh(st, kind, tok, cook, tries).new = 0
<1>1. Fresh(st, kind, tok, cook, tries) \in Call
  BY ConstantsAssumption DEF Fresh, Call, Pairs, Sids
<1> QED BY <1>1, ConstantsAssumption DEF Fresh, Good

LEMMA IdleGood ==
    ASSUME NEW m \in 0 .. MaxPairs, NEW o \in 0 .. MaxSessions
    PROVE  /\ Good(Idle, m, o)
           /\ Idle.st = "idle" /\ Idle.kind = "api" /\ Idle.rt = 0 /\ Idle.new = 0
<1>1. Idle \in Call
  BY ConstantsAssumption DEF Idle, Fresh, Call, Stages, Kinds, Pairs, Sids
<1> QED BY <1>1, ConstantsAssumption DEF Idle, Fresh, Good

\* A record of which only some fields change.
LEMMA StepGood ==
    ASSUME NEW m \in 0 .. MaxPairs, NEW o \in 0 .. MaxSessions, NEW r, Good(r, m, o),
           NEW m2 \in m .. MaxPairs, NEW o2 \in o .. MaxSessions,
           NEW st \in Stages, NEW kind \in Kinds, NEW rt2 \in 0 .. m2, NEW sid \in 0 .. o2,
           NEW new \in 0 .. m2, NEW tries \in {0, 1}, NEW r2,
           r2 = [st |-> st, kind |-> kind, tok |-> r.tok, rt |-> rt2, sid |-> sid,
                 new |-> new, tries |-> tries],
           st = "issue" => sid # 0, st = "consumed" => rt2 # 0, st = "store" => new # 0
    PROVE  Good(r2, m2, o2)
BY ConstantsAssumption DEF Good, Call, Pairs, Sids, Kinds

LEMMA LaterGood ==
    ASSUME NEW m \in 0 .. MaxPairs, NEW o \in 0 .. MaxSessions, NEW r, Good(r, m, o),
           NEW m2 \in m .. MaxPairs, NEW o2 \in o .. MaxSessions
    PROVE  Good(r, m2, o2)
BY ConstantsAssumption DEF Good, Call, Pairs, Sids

LEMMA GoodFields ==
    ASSUME NEW m \in 0 .. MaxPairs, NEW o \in 0 .. MaxSessions, NEW r, Good(r, m, o)
    PROVE  /\ r \in Call
           /\ r = [st |-> r.st, kind |-> r.kind, tok |-> r.tok, rt |-> r.rt, sid |-> r.sid,
                   new |-> r.new, tries |-> r.tries]
           /\ r.st \in Stages /\ r.kind \in Kinds /\ r.tok \in 0 .. m /\ r.rt \in 0 .. m
           /\ r.sid \in 0 .. o /\ r.new \in 0 .. m /\ r.tries \in {0, 1}
           /\ r.st = "issue" => r.sid # 0
           /\ r.st = "consumed" => r.rt # 0
           /\ r.st = "store" => r.new # 0
BY ConstantsAssumption DEF Good, Call, Pairs, Sids

LEMMA LeftGood ==
    ASSUME TInv, NEW c \in Calls
    PROVE  /\ Good(Left(c), minted, opened)
           /\ Left(c) = Idle \/ Left(c) = [call[c] EXCEPT !.kind = "gone"]
<1> DEFINE r == call[c]
<1>1. Good(r, minted, opened) /\ minted \in 0 .. MaxPairs /\ opened \in 0 .. MaxSessions
  BY DEF TInv, TypeOK, Known
<1>2. /\ r = [st |-> r.st, kind |-> r.kind, tok |-> r.tok, rt |-> r.rt, sid |-> r.sid,
                   new |-> r.new, tries |-> r.tries]
      /\ r.st \in Stages /\ r.kind \in Kinds /\ r.tok \in 0 .. minted
      /\ r.rt \in 0 .. minted
      /\ r.sid \in 0 .. opened /\ r.new \in 0 .. minted /\ r.tries \in {0, 1}
      /\ r.st = "issue" => r.sid # 0
      /\ r.st = "consumed" => r.rt # 0
      /\ r.st = "store" => r.new # 0
  BY <1>1, GoodFields
<1>3. [r EXCEPT !.kind = "gone"] =
         [st |-> r.st, kind |-> "gone", tok |-> r.tok, rt |-> r.rt, sid |-> r.sid,
                   new |-> r.new, tries |-> r.tries]
  BY <1>2
<1>4. Good([r EXCEPT !.kind = "gone"], minted, opened)
  <2>1. "gone" \in Kinds BY DEF Kinds
  <2>2. minted \in minted .. MaxPairs /\ opened \in opened .. MaxSessions
    BY <1>1, ConstantsAssumption
  <2> HIDE DEF r
  <2> QED BY <1>1, <1>2, <1>3, <2>1, <2>2, StepGood
<1>5. Good(Idle, minted, opened)
  BY <1>1, IdleGood
<1> QED BY <1>4, <1>5 DEF Left

\* Only the stage changes.
LEMMA ToGood ==
    ASSUME TInv, NEW c \in Calls, NEW st \in Stages, To(c, st),
           minted' = minted, opened' = opened,
           st = "issue" => call[c].sid # 0, st = "consumed" => call[c].rt # 0,
           st = "store" => call[c].new # 0
    PROVE  \A d \in Calls : Good(call'[d], minted', opened')
<1> DEFINE r == call[c]
<1>1. Good(r, minted, opened) /\ minted \in 0 .. MaxPairs /\ opened \in 0 .. MaxSessions
  BY DEF TInv, TypeOK, Known
<1>2. /\ r = [st |-> r.st, kind |-> r.kind, tok |-> r.tok, rt |-> r.rt, sid |-> r.sid,
                   new |-> r.new, tries |-> r.tries]
      /\ r.kind \in Kinds /\ r.tok \in 0 .. minted /\ r.rt \in 0 .. minted
      /\ r.sid \in 0 .. opened /\ r.new \in 0 .. minted /\ r.tries \in {0, 1}
  BY <1>1, GoodFields
<1>3. [r EXCEPT !.st = st] =
         [st |-> st, kind |-> r.kind, tok |-> r.tok, rt |-> r.rt, sid |-> r.sid,
                   new |-> r.new, tries |-> r.tries]
  BY <1>2
<1>4. Good([r EXCEPT !.st = st], minted, opened)
  <2>2. minted \in minted .. MaxPairs /\ opened \in opened .. MaxSessions
    BY <1>1, ConstantsAssumption
  <2> HIDE DEF r
  <2>3. st = "issue" => r.sid # 0
    BY DEF r
  <2>4. st = "consumed" => r.rt # 0
    BY DEF r
  <2>5. st = "store" => r.new # 0
    BY DEF r
  <2> QED BY <1>1, <1>2, <1>3, <2>2, <2>3, <2>4, <2>5, StepGood
<1>5. \A d \in Calls : call'[d] = IF d = c THEN [r EXCEPT !.st = st] ELSE call[d]
  BY DEF To, Becomes, TInv, TypeOK
<1> QED BY <1>4, <1>5 DEF TInv, Known

\* One call is replaced by a record of the right kind.
LEMMA ReplaceGood ==
    ASSUME TInv, NEW c \in Calls, NEW r, Becomes(c, r),
           minted' \in minted .. MaxPairs, opened' \in opened .. MaxSessions,
           Good(r, minted', opened')
    PROVE  \A d \in Calls : Good(call'[d], minted', opened')
<1>1. \A d \in Calls : call'[d] = IF d = c THEN r ELSE call[d]
  BY DEF TInv, TypeOK, Becomes
<1>2. minted \in 0 .. MaxPairs /\ opened \in 0 .. MaxSessions
  BY DEF TInv, TypeOK
<1>3. \A d \in Calls : Good(call[d], minted', opened')
  BY <1>2, LaterGood DEF TInv, Known
<1> QED BY <1>1, <1>3

\* A handler moves on.
LEMMA HoldsGood ==
    ASSUME TInv, NEW c \in Calls,
           minted' \in minted .. MaxPairs, opened' \in opened .. MaxSessions,
           NEW st \in Stages, NEW cook \in 0 .. minted', NEW sid \in 0 .. opened',
           NEW new \in 0 .. minted', Becomes(c, Holds(c, st, cook, sid, new)),
           st = "issue" => sid # 0, st = "consumed" => cook # 0, st = "store" => new # 0
    PROVE  \A d \in Calls : Good(call'[d], minted', opened')
<1> DEFINE r == call[c]
           q == [st |-> st, kind |-> r.kind, tok |-> r.tok, rt |-> cook,
                 sid |-> sid, new |-> new, tries |-> r.tries]
<1>1. Good(r, minted, opened) /\ minted \in 0 .. MaxPairs /\ opened \in 0 .. MaxSessions
  BY DEF TInv, TypeOK, Known
<1>2. r.kind \in Kinds /\ r.tok \in 0 .. minted /\ r.tries \in {0, 1}
  BY <1>1, GoodFields
<1>3. Becomes(c, q)
  BY DEF Holds
<1>4. Good(q, minted', opened')
  <2> HIDE DEF r
  <2> QED BY <1>1, <1>2, StepGood
<1> HIDE DEF q
<1> QED BY <1>3, <1>4, ReplaceGood

LEMMA AnsweredGood ==
    ASSUME TInv, NEW c \in Calls, NEW st \in {"ok", "bad", "lost", "denied"},
           Answered(c, st), minted' = minted, opened' \in opened .. MaxSessions
    PROVE  \A d \in Calls : Good(call'[d], minted', opened')
<1>1. /\ minted' \in 0 .. MaxPairs /\ opened' \in 0 .. MaxSessions
      /\ minted' \in minted .. MaxPairs /\ 0 \in 0 .. minted'
  BY ConstantsAssumption DEF TInv, TypeOK
<1>2. call[c].kind \in Kinds /\ call[c].tries \in {0, 1}
  BY GoodFields DEF TInv, TypeOK, Known
<1>3. st \in Stages \ {"issue", "consumed", "store"}
  BY DEF Stages, RefreshStages
<1>4. Good(Fresh(st, call[c].kind, 0, 0, call[c].tries), minted', opened')
  BY <1>1, <1>2, <1>3, FreshGood
<1> QED BY <1>1, <1>4, ReplaceGood DEF Answered

LEMMA InitType == Init => TInv
<1> SUFFICES ASSUME Init PROVE TInv
  OBVIOUS
<1>1. \A c \in Calls : call[c] = Idle
  BY DEF Init
<1>2. \A c \in Calls : Good(call[c], 0, 0)
  BY <1>1, IdleGood, ConstantsAssumption
<1>3. call \in [Calls -> Call]
  BY <1>2 DEF Init, Good
<1>4. TypeOK
  BY <1>3, ConstantsAssumption DEF Init, TypeOK, Pairs, Sids
<1> QED BY <1>2, <1>4 DEF TInv, Known, Init, Pairs

\* What TInv says of the values the actions use.
LEMMA Facts ==
    ASSUME TInv
    PROVE  /\ minted \in 0 .. MaxPairs /\ opened \in 0 .. MaxSessions
           /\ minted \in minted .. MaxPairs /\ opened \in opened .. MaxSessions
           /\ token \in 0 .. minted /\ cookie \in 0 .. minted /\ 0 \in 0 .. minted
           /\ \A c \in Calls : Good(call[c], minted, opened)
           /\ call \in [Calls -> Call]
BY ConstantsAssumption DEF TInv, TypeOK, Known, Pairs

LEMMA CallsStep ==
    ASSUME TInv, [Next]_vars
    PROVE  /\ \A d \in Calls : Good(call'[d], minted', opened')
           /\ minted' \in minted .. MaxPairs /\ opened' \in opened .. MaxSessions
<1> DEFINE P == /\ \A d \in Calls : Good(call'[d], minted', opened')
                /\ minted' \in minted .. MaxPairs /\ opened' \in opened .. MaxSessions
<1>f. /\ minted \in 0 .. MaxPairs /\ opened \in 0 .. MaxSessions
      /\ minted \in minted .. MaxPairs /\ opened \in opened .. MaxSessions
      /\ token \in 0 .. minted /\ cookie \in 0 .. minted /\ 0 \in 0 .. minted
      /\ \A c \in Calls : Good(call[c], minted, opened)
      /\ call \in [Calls -> Call]
  BY Facts
<1>k. /\ Stages \ {"issue", "consumed", "store"} =
            {"idle", "sent", "ok", "bad", "lost", "queued", "drop", "end",
             "refresh", "renewed", "denied"}
      /\ {"api", "me", "login", "logout", "gone"} \subseteq Kinds
  BY DEF Stages, RefreshStages, Kinds
<1>s. ASSUME NEW st \in {"idle", "sent"}, NEW kind \in {"api", "me", "login", "logout", "gone"},
             NEW tok \in 0 .. minted, NEW cook \in 0 .. minted, NEW tries \in {0, 1}
      PROVE  Good(Fresh(st, kind, tok, cook, tries), minted, opened)
  BY <1>f, <1>k, FreshGood
<1>i. Good(Idle, minted, opened)
  BY <1>f, IdleGood
<1>l. \A c \in Calls : Good(Left(c), minted, opened)
  BY LeftGood
<1>g. \A c \in Calls :
         /\ call[c] = [st |-> call[c].st, kind |-> call[c].kind, tok |-> call[c].tok,
                       rt |-> call[c].rt, sid |-> call[c].sid, new |-> call[c].new,
                       tries |-> call[c].tries]
         /\ call[c].st \in Stages /\ call[c].kind \in Kinds
         /\ call[c].tok \in 0 .. minted /\ call[c].rt \in 0 .. minted
         /\ call[c].sid \in 0 .. opened /\ call[c].new \in 0 .. minted
         /\ call[c].tries \in {0, 1}
         /\ call[c].st = "consumed" => call[c].rt # 0
         /\ call[c].st = "store" => call[c].new # 0
  <2> TAKE c \in Calls
  <2> QED BY <1>f, GoodFields
<1>1. ASSUME NEW c \in Calls, Ask(c) PROVE P
  <2>1. Good(Sent("api", token, 0), minted, opened)
    BY <1>s, <1>f DEF Sent
  <2> QED BY <1>1, <1>f, <2>1, ReplaceGood DEF Ask, pairVars
<1>2. ASSUME NEW c \in Calls, Login(c) PROVE P
  <2>1. Good(Sent("login", token, 0), minted, opened)
    BY <1>s, <1>f DEF Sent
  <2> QED BY <1>2, <1>f, <2>1, ReplaceGood DEF Login, pairVars
<1>3. ASSUME NEW c \in Calls, Logout(c) PROVE P
  <2>1. Good(Fresh("sent", "logout", token, cookie, 0), minted, opened)
    BY <1>s, <1>f
  <2> QED BY <1>3, <1>f, <2>1, ReplaceGood DEF Logout, pairVars
<1>4. ASSUME NEW t \in Tabs, Open(t) PROVE P
  <2>1. Good(Sent("me", token, 0), minted, opened)
    BY <1>s, <1>f DEF Sent
  <2>2. CASE token = 0
    <3>1. \A d \in Calls : call'[d] = IF d \in Mine(t) THEN Left(d) ELSE call[d]
      BY <1>4, <2>2 DEF Open
    <3> QED BY <1>4, <1>f, <1>l, <3>1 DEF Open, pairVars
  <2>3. CASE token # 0
    <3>1. PICK c \in Calls :
             call' = [d \in Calls |-> IF d = c THEN Sent("me", token, 0)
                                      ELSE IF d \in Mine(t) THEN Left(d) ELSE call[d]]
      BY <1>4, <2>3 DEF Open
    <3>2. \A d \in Calls : call'[d] = IF d = c THEN Sent("me", token, 0)
                                      ELSE IF d \in Mine(t) THEN Left(d) ELSE call[d]
      BY <3>1
    <3> QED BY <1>4, <1>f, <1>l, <2>1, <3>2 DEF Open, pairVars
  <2> QED BY <2>2, <2>3
<1>5. ASSUME NEW c \in Calls, Succeed(c) \/ Fail(c) \/ Drain(c) PROVE P
  <2>1. Becomes(c, Idle) /\ UNCHANGED pairVars
    BY <1>5 DEF Succeed, Fail, Drain, Reject
  <2> QED BY <1>f, <1>i, <2>1, ReplaceGood DEF pairVars
<1>6. ASSUME NEW c \in Calls, Queue(c) \/ Lead(c) PROVE P
  <2>1. \/ Becomes(c, Fresh("queued", call[c].kind, 0, 0, 1))
        \/ Becomes(c, Fresh("refresh", call[c].kind, 0, cookie, 1))
    BY <1>6 DEF Queue, Lead
  <2>2. UNCHANGED <<minted, opened>>
    BY <1>6 DEF Queue, Lead, pairVars
  <2>3. /\ Good(Fresh("queued", call[c].kind, 0, 0, 1), minted, opened)
        /\ Good(Fresh("refresh", call[c].kind, 0, cookie, 1), minted, opened)
    BY <1>f, <1>g, <1>k, FreshGood
  <2> QED BY <1>f, <2>1, <2>2, <2>3, ReplaceGood
<1>8. ASSUME NEW c \in Calls, Renew(c) PROVE P
  <2>1. UNCHANGED pairVars BY <1>8 DEF Renew
  <2>2. CASE call[c].kind = "login"
    <3>1. Good(Sent("me", call[c].new, 0), minted, opened)
      <4>1. call[c].new \in 0 .. minted
        BY <1>g
      <4> QED BY <1>s, <1>f, <4>1 DEF Sent
    <3>2. Becomes(c, Sent("me", call[c].new, 0))
      BY <1>8, <2>2 DEF Renew
    <3> QED BY <1>f, <2>1, <3>1, <3>2, ReplaceGood DEF pairVars
  <2>3. CASE call[c].kind # "login"
    <3>1. \A d \in Calls : Good(Sent(call[d].kind, call[c].new, 1), minted, opened)
      <4> TAKE d \in Calls
      <4>1. "sent" \in Stages \ {"issue", "consumed", "store"}
        BY <1>k
      <4> QED BY <1>f, <1>g, <4>1, FreshGood DEF Sent
    <3>2. \A d \in Calls : call'[d] = IF d \in Resent(c)
                                       THEN Sent(call[d].kind, call[c].new, 1)
                                       ELSE call[d]
      BY <1>8, <2>3 DEF Renew
    <3> QED BY <1>f, <2>1, <3>1, <3>2 DEF pairVars
  <2> QED BY <2>2, <2>3
<1>9. ASSUME NEW c \in Calls, Deny(c) PROVE P
  <2>1. \A d \in Calls : call'[d] = IF d \in Mine(TabOf[c]) THEN Left(d) ELSE call[d]
    BY <1>9 DEF Deny
  <2> QED BY <1>9, <1>f, <1>l, <2>1 DEF Deny, pairVars
<1>10. ASSUME NEW c \in Calls, Answer(c) PROVE P
  <2>1. Answered(c, "ok") \/ Answered(c, "bad")
    BY <1>10 DEF Answer
  <2> QED BY <1>10, <1>f, <2>1, AnsweredGood DEF Answer, pairVars
<1>11. ASSUME NEW c \in Calls, Authenticate(c) PROVE P
  <2>1. CASE Answered(c, "bad") /\ UNCHANGED opened
    BY <1>11, <1>f, <2>1, AnsweredGood DEF Authenticate
  <2>2. CASE /\ opened < MaxSessions /\ opened' = opened + 1
             /\ Becomes(c, Holds(c, "issue", 0, opened + 1, 0))
    <3>1. Becomes(c, Holds(c, "issue", 0, opened + 1, 0))
      BY <2>2, <1>g
    <3>2. "issue" \in Stages BY DEF Stages, RefreshStages
    <3>3. /\ minted' = minted /\ opened' \in opened .. MaxSessions
          /\ opened + 1 \in 0 .. opened' /\ opened + 1 # 0
      BY <1>11, <2>2, <1>f, ConstantsAssumption DEF Authenticate
    <3> QED BY <1>f, <1>g, <3>1, <3>2, <3>3, HoldsGood
  <2> QED BY <1>11, <2>1, <2>2 DEF Authenticate
<1>12. ASSUME NEW c \in Calls, Consume(c) PROVE P
  <2>1. "consumed" \in Stages BY DEF Stages, RefreshStages
  <2>2. \/ To(c, "consumed") /\ call[c].rt # 0
        \/ Answered(c, "denied")
    BY <1>12 DEF Consume, Stored
  <2>3. UNCHANGED <<minted, opened>>
    BY <1>12 DEF Consume, pairVars
  <2> QED BY <1>f, <2>1, <2>2, <2>3, ToGood, AnsweredGood
<1>13. ASSUME NEW c \in Calls, Validate(c) PROVE P
  <2> DEFINE s == sidOf[call[c].rt]
  <2>1. UNCHANGED <<minted, opened>>
    BY <1>13 DEF Validate, pairVars
  <2>2. s \in 1 .. opened
    BY <1>13, <1>f, <1>g, ConstantsAssumption DEF TInv, Known, Pairs, Validate, At
  <2>3. CASE Answered(c, "denied")
    BY <1>f, <2>1, <2>3, AnsweredGood
  <2>4. CASE Becomes(c, Holds(c, "issue", call[c].rt, s, 0))
    <3>1. Becomes(c, Holds(c, "issue", call[c].rt, s, 0))
      BY <2>4, <1>g
    <3>2. "issue" \in Stages BY DEF Stages, RefreshStages
    <3>3. s \in 0 .. opened /\ s # 0
      BY <2>2, <1>f
    <3> HIDE DEF s
    <3> QED BY <1>f, <1>g, <2>1, <3>1, <3>2, <3>3, HoldsGood
  <2> QED BY <1>13, <2>3, <2>4 DEF Validate
<1>14. ASSUME NEW c \in Calls, Start(c) PROVE P
  <2>1. /\ minted' = minted + 1 /\ opened' = opened /\ minted < MaxPairs
        /\ minted' \in minted .. MaxPairs /\ minted + 1 \in 0 .. minted' /\ minted + 1 # 0
        /\ call[c].rt \in 0 .. minted' /\ 0 \in 0 .. opened
    BY <1>14, <1>f, <1>g, ConstantsAssumption DEF Start
  <2>2. Becomes(c, Holds(c, "store", call[c].rt, 0, minted + 1))
    BY <1>14, <1>g DEF Start
  <2>3. "store" \in Stages BY DEF Stages, RefreshStages
  <2> QED BY <1>f, <1>g, <2>1, <2>2, <2>3, HoldsGood
<1>15. ASSUME NEW c \in Calls, Store(c) PROVE P
  <2>1. "renewed" \in Stages BY <1>k
  <2> QED BY <1>15, <1>f, <2>1, ToGood DEF Store, pairVars
<1>16. ASSUME NEW c \in Calls, Revoke(c) PROVE P
  <2> DEFINE s == IF Readable(call[c].tok) THEN sidOf[call[c].tok] ELSE 0
  <2>1. UNCHANGED <<minted, opened>>
    BY <1>16 DEF Revoke, pairVars
  <2>2. s \in 0 .. opened
    <3>1. Readable(call[c].tok) => call[c].tok \in Pairs /\ call[c].tok <= minted
      BY <1>f, <1>g, ConstantsAssumption DEF Readable, Pairs, TInv, TypeOK
    <3> QED BY <3>1, <1>f, ConstantsAssumption DEF TInv, Known
  <2>3. Becomes(c, Holds(c, "drop", call[c].rt, s, 0))
    BY <1>16, <1>g DEF Revoke
  <2>4. "drop" \in Stages BY <1>k
  <2> HIDE DEF s
  <2> QED BY <1>f, <1>g, <2>1, <2>2, <2>3, <2>4, HoldsGood
<1>17. ASSUME NEW c \in Calls, Drop(c) PROVE P
  <2> DEFINE n == call[c].rt
             s == IF call[c].sid = 0 /\ n # 0 THEN sidOf[n] ELSE call[c].sid
  <2>1. UNCHANGED <<minted, opened>>
    BY <1>17 DEF Drop, pairVars
  <2>2. s \in 0 .. opened
    <3>1. n # 0 => sidOf[n] \in 1 .. opened
      BY <1>f, <1>g, ConstantsAssumption DEF Pairs, TInv, Known
    <3> QED BY <3>1, <1>f, <1>g
  <2>3. Becomes(c, Holds(c, "end", 0, s, 0))
    BY <1>17, <1>g DEF Drop
  <2>4. "end" \in Stages BY <1>k
  <2> HIDE DEF s
  <2> QED BY <1>f, <1>g, <2>1, <2>2, <2>3, <2>4, HoldsGood
<1>18. ASSUME NEW c \in Calls, End(c) PROVE P
  BY <1>18, <1>f, AnsweredGood DEF End, pairVars
<1>19. ASSUME NEW c \in Calls, Break(c) PROVE P
  <2>1. Answered(c, "denied") \/ Answered(c, "lost")
    BY <1>19 DEF Break
  <2> QED BY <1>19, <1>f, <2>1, AnsweredGood DEF Break, pairVars
<1>20. ASSUME Ambient PROVE P
  <2>1. UNCHANGED <<call, minted, opened>>
    BY <1>20 DEF Ambient, ExpireToken, IdleOut, AgeOut, Deactivate, RedisDown, RedisUp,
                 pairVars
  <2> QED BY <2>1, <1>f
<1>21. ASSUME UNCHANGED vars PROVE P
  BY <1>21, <1>f DEF vars, pairVars
<1> QED
  BY <1>1, <1>2, <1>3, <1>4, <1>5, <1>6, <1>8, <1>9, <1>10, <1>11, <1>12, <1>13,
     <1>14, <1>15, <1>16, <1>17, <1>18, <1>19, <1>20, <1>21 DEF Next, Handle, Settle

LEMMA CallFunction ==
    ASSUME TInv, [Next]_vars
    PROVE  call' = [d \in Calls |-> call'[d]]
<1>1. call = [c \in Calls |-> call[c]]
  BY DEF TInv, TypeOK
<1>2. ASSUME NEW c \in Calls, NEW r, Becomes(c, r) PROVE call' = [d \in Calls |-> call'[d]]
  BY <1>1, <1>2 DEF Becomes
<1>3. ASSUME NEW t \in Tabs, Open(t) PROVE call' = [d \in Calls |-> call'[d]]
  BY <1>3 DEF Open
<1>4. ASSUME NEW c \in Calls, Renew(c) PROVE call' = [d \in Calls |-> call'[d]]
  BY <1>2, <1>4 DEF Renew
<1>5. ASSUME NEW c \in Calls, Deny(c) PROVE call' = [d \in Calls |-> call'[d]]
  BY <1>5 DEF Deny
<1>6. ASSUME Ambient \/ UNCHANGED vars PROVE call' = [d \in Calls |-> call'[d]]
  BY <1>1, <1>6 DEF Ambient, ExpireToken, IdleOut, AgeOut, Deactivate, RedisDown, RedisUp, vars
<1>7. ASSUME NEW c \in Calls,
             \/ Ask(c) \/ Login(c) \/ Logout(c) \/ Handle(c) \/ Break(c)
             \/ Succeed(c) \/ Queue(c) \/ Lead(c) \/ Fail(c) \/ Drain(c)
      PROVE  \E r : Becomes(c, r)
  BY <1>7 DEF Ask, Login, Logout, Handle, Break, Succeed, Queue, Lead, Fail, Drain, Reject,
     Answer, Authenticate, Consume, Validate, Start, Store, Revoke, Drop, End, Answered, To
<1> QED
  BY <1>2, <1>3, <1>4, <1>5, <1>6, <1>7 DEF Next, Settle

LEMMA TypeStep ==
    ASSUME TInv, [Next]_vars
    PROVE  TInv'
<1> USE ConstantsAssumption
<1>c. /\ \A d \in Calls : Good(call'[d], minted', opened')
      /\ minted' \in minted .. MaxPairs /\ opened' \in opened .. MaxSessions
  BY CallsStep
<1>d. call' \in [Calls -> Call]
  BY <1>c, CallFunction DEF Good
<1>t. TypeOK /\ Known
  BY DEF TInv
<1>f. /\ minted \in 0 .. MaxPairs /\ opened \in 0 .. MaxSessions
      /\ token \in 0 .. minted /\ cookie \in 0 .. minted
      /\ \A c \in Calls : /\ call[c].rt \in 0 .. minted /\ call[c].tok \in 0 .. minted
                          /\ call[c].new \in 0 .. minted /\ call[c].sid \in 0 .. opened
                          /\ (call[c].st = "issue" => call[c].sid # 0)
                          /\ (call[c].st = "consumed" => call[c].rt # 0)
                          /\ (call[c].st = "store" => call[c].new # 0)
  <2>1. \A c \in Calls : Good(call[c], minted, opened)
    BY Facts
  <2> QED BY <2>1, Facts, GoodFields
<1>n. \A c \in Calls : /\ (call[c].st = "issue" => call[c].sid \in 1 .. opened)
                      /\ (call[c].st = "consumed" => call[c].rt \in Pairs)
                      /\ (call[c].st = "store" => call[c].new \in Pairs)
                      /\ (call[c].rt # 0 => call[c].rt \in Pairs)
                      /\ (call[c].sid # 0 => call[c].sid \in Sids)
                      /\ (call[c].tok # 0 => call[c].tok \in Pairs)
  <2> TAKE c \in Calls
  <2>1. /\ call[c].rt \in 0 .. minted /\ call[c].tok \in 0 .. minted
        /\ call[c].new \in 0 .. minted /\ call[c].sid \in 0 .. opened
    BY <1>f
  <2> QED BY <1>f, <2>1 DEF Pairs, Sids
<1>x. \A c \in Calls : call[c].tok > expired => call[c].tok # 0
  BY <1>f DEF TInv, TypeOK
<1>y. 1 .. opened \subseteq Sids /\ 0 .. minted \subseteq {0} \cup Pairs
  BY <1>f DEF Sids, Pairs
\* The variables in five groups.
<1> DEFINE Browser == /\ token \in 0 .. minted /\ cookie \in 0 .. minted
                      /\ page \in [Tabs -> {"loading", "app", "login"}]
                      /\ refreshing \in [Tabs -> BOOLEAN]
           PairSet == /\ sidOf \in [Pairs -> {0} \cup Sids]
                      /\ from \in [Pairs -> {0} \cup Pairs]
                      /\ \A n \in Pairs : n <= minted => sidOf[n] \in 1 .. opened
           Keys == rt \subseteq Pairs /\ live \subseteq Sids /\ revoked \subseteq Pairs
           World == /\ expired \in 0 .. MaxPairs /\ aged \subseteq Sids
                    /\ active \in BOOLEAN /\ redis \in BOOLEAN
                    /\ faults \in 0 .. MaxFaults
           History == /\ over \subseteq Sids /\ excused \subseteq Sids
                      /\ spentBy \in [Pairs -> SUBSET Tabs]
                      /\ unguarded \subseteq Pairs /\ forgone \subseteq Pairs
                      /\ refused \subseteq Tabs \X Pairs
<1>g. Browser /\ PairSet /\ Keys /\ World /\ History
  BY <1>t, <1>f DEF TypeOK, Known
<1>s. Browser' /\ PairSet' /\ Keys' /\ World' /\ History'
  <2>1. Browser'
    <3>1. ASSUME UNCHANGED browserVars PROVE Browser'
      BY <3>1, <1>g, <1>c, <1>f DEF browserVars
    <3>2. ASSUME NEW t \in Tabs, Open(t) PROVE Browser'
      BY <3>2, <1>g, <1>c, <1>f DEF Open, pairVars
    <3>3. ASSUME NEW c \in Calls, Succeed(c) PROVE Browser'
      <4>1. page' \in [Tabs -> {"loading", "app", "login"}]
        <5>1. page' \in {page, [page EXCEPT ![TabOf[c]] = "login"],
                         [page EXCEPT ![TabOf[c]] = "app"]}
          BY <3>3 DEF Succeed
        <5> QED BY <5>1, <1>g
      <4> QED BY <3>3, <4>1, <1>g, <1>f DEF Succeed, pairVars
    <3>4. ASSUME NEW c \in Calls, Lead(c) PROVE Browser'
      BY <3>4, <1>g, <1>f DEF Lead, pairVars
    <3>5. ASSUME NEW c \in Calls, Fail(c) PROVE Browser'
      BY <3>5, <1>g, <1>f DEF Fail, Reject, pairVars
    <3>6. ASSUME NEW c \in Calls, Renew(c) PROVE Browser'
      <4>1. refreshing' \in [Tabs -> BOOLEAN]
        BY <3>6, <1>g DEF Renew
      <4> QED BY <3>6, <4>1, <1>g, <1>f DEF Renew, NewCookie, pairVars
    <3>7. ASSUME NEW c \in Calls, Deny(c) PROVE Browser'
      BY <3>7, <1>g, <1>f DEF Deny, pairVars
    <3> HIDE DEF Browser
    <3> QED
      BY <3>1, <3>2, <3>3, <3>4, <3>5, <3>6, <3>7
         DEF Next, Ask, Login, Logout, Handle, Settle, Break, Ambient, Queue, Drain, Answer,
             Authenticate, Consume, Validate, Start, Store, Revoke, Drop, End, ExpireToken,
             IdleOut, AgeOut, Deactivate, RedisDown, RedisUp, vars
  <2>2. PairSet'
    <3>1. ASSUME UNCHANGED <<minted, sidOf, from>> PROVE PairSet'
      BY <3>1, <1>g, <1>c, <1>f
    <3>2. ASSUME NEW c \in Calls, Start(c) PROVE PairSet'
      <4>1. /\ call[c].sid \in 1 .. opened /\ call[c].rt \in 0 .. minted
            /\ minted' = minted + 1 /\ opened' = opened
            /\ sidOf' = [sidOf EXCEPT ![minted + 1] = call[c].sid]
            /\ from' = [from EXCEPT ![minted + 1] = call[c].rt]
        BY <3>2, <1>f DEF Start, At
      <4>2. /\ sidOf' \in [Pairs -> {0} \cup Sids]
            /\ from' \in [Pairs -> {0} \cup Pairs]
        BY <4>1, <1>y, <1>g
      <4>3. ASSUME NEW n \in Pairs, n <= minted + 1 PROVE sidOf'[n] \in 1 .. opened
        <5>1. CASE n = minted + 1
          BY <4>1, <5>1, <1>g
        <5>2. CASE n # minted + 1
          <6>1. n <= minted
            BY <4>3, <5>2, <1>f DEF Pairs
          <6> QED BY <4>1, <5>2, <6>1, <1>g
        <5> QED BY <5>1, <5>2
      <4> QED BY <4>1, <4>2, <4>3
    <3> HIDE DEF PairSet
    <3>3. ASSUME NEW c \in Calls, Handle(c) PROVE PairSet'
      BY <3>1, <3>2, <3>3
         DEF Handle, Answer, Authenticate, Consume, Validate, Store, Revoke, Drop, End, pairVars
    <3>4. ASSUME NEW c \in Calls, Settle(c) PROVE PairSet'
      BY <3>1, <3>4 DEF Settle, Queue, Drain, Succeed, Lead, Fail, Renew, Deny, pairVars
    <3>5. ASSUME \/ \E t \in Tabs : Open(t)
                 \/ \E c \in Calls : Ask(c) \/ Login(c) \/ Logout(c) \/ Break(c)
                 \/ Ambient \/ UNCHANGED vars
          PROVE  PairSet'
      BY <3>1, <3>5
         DEF Open, Ask, Login, Logout, Break, Ambient, ExpireToken, IdleOut, AgeOut,
             Deactivate, RedisDown, RedisUp, vars, pairVars
    <3> QED
      BY <3>3, <3>4, <3>5 DEF Next
  <2>3. Keys'
    <3>1. ASSUME UNCHANGED redisVars PROVE Keys'
      BY <3>1, <1>g DEF redisVars
    <3>2. ASSUME NEW c \in Calls, Consume(c) \/ Drop(c) PROVE Keys'
      BY <3>2, <1>g DEF Consume, Drop, Without
    <3>3. ASSUME NEW c \in Calls, Start(c) PROVE Keys'
      BY <3>3, <1>g, <1>n, <1>y DEF Start, At
    <3>4. ASSUME NEW c \in Calls, Store(c) PROVE Keys'
      BY <3>4, <1>g, <1>n DEF Store, At
    <3>5. ASSUME NEW c \in Calls, Revoke(c) PROVE Keys'
      BY <3>5, <1>g, <1>n, <1>x DEF Revoke, Readable
    <3>6. ASSUME NEW c \in Calls, End(c) PROVE Keys'
      BY <3>6, <1>g DEF End
    <3>7. ASSUME NEW s \in Sids, IdleOut(s) PROVE Keys'
      BY <3>7, <1>g DEF IdleOut
    <3> HIDE DEF Keys
    <3>8. ASSUME NEW c \in Calls, Handle(c) PROVE Keys'
      BY <3>1, <3>2, <3>3, <3>4, <3>5, <3>6, <3>8
         DEF Handle, Answer, Authenticate, Validate, redisVars
    <3>9. ASSUME NEW c \in Calls, Settle(c) PROVE Keys'
      BY <3>1, <3>9 DEF Settle, Queue, Drain, Succeed, Lead, Fail, Renew, Deny
    <3>10. ASSUME \/ \E t \in Tabs : Open(t)
                  \/ \E c \in Calls : Ask(c) \/ Login(c) \/ Logout(c) \/ Break(c)
                  \/ UNCHANGED vars
           PROVE  Keys'
      BY <3>1, <3>10 DEF Open, Ask, Login, Logout, Break, vars
    <3>11. ASSUME Ambient PROVE Keys'
      BY <3>1, <3>7, <3>11 DEF Ambient, ExpireToken, AgeOut, Deactivate, RedisDown, RedisUp
    <3> QED
      BY <3>8, <3>9, <3>10, <3>11 DEF Next
  <2>4. World'
    <3>1. ASSUME UNCHANGED worldVars PROVE World'
      BY <3>1, <1>g DEF worldVars
    <3>2. ASSUME UNCHANGED <<expired, aged, active, redis>>,
                 Fault \/ UNCHANGED faults PROVE World'
      BY <3>2, <1>g DEF Fault
    <3>3. ASSUME ExpireToken PROVE World'
      BY <3>3, <1>g, <1>f DEF ExpireToken
    <3>4. ASSUME NEW s \in Sids, AgeOut(s) PROVE World'
      BY <3>4, <1>g DEF AgeOut, Fault
    <3>5. ASSUME Deactivate \/ RedisDown \/ RedisUp PROVE World'
      <4>1. active' \in BOOLEAN /\ redis' \in BOOLEAN
        BY <3>5, <1>g DEF Deactivate, RedisDown, RedisUp
      <4>2. UNCHANGED <<expired, aged>> /\ (Fault \/ UNCHANGED faults)
        BY <3>5 DEF Deactivate, RedisDown, RedisUp
      <4>3. faults' \in 0 .. MaxFaults
        BY <4>2, <1>g DEF Fault
      <4> QED BY <4>1, <4>2, <4>3, <1>g
    <3>6. ASSUME NEW t \in Tabs, Open(t)
          PROVE UNCHANGED <<expired, aged, active, redis>> /\ (Fault \/ UNCHANGED faults)
      BY <3>6 DEF Open
    <3> HIDE DEF World
    <3>7. ASSUME NEW c \in Calls, Settle(c) PROVE World'
      BY <3>1, <3>7 DEF Settle, Queue, Drain, Succeed, Lead, Fail, Renew, Deny
    <3>8. ASSUME NEW c \in Calls, Handle(c) PROVE World'
      BY <3>1, <3>8 DEF Handle, Answer, Authenticate, Consume, Validate, Start, Store, Revoke,
         Drop, End
    <3>9. ASSUME NEW c \in Calls, Ask(c) \/ Login(c) \/ Logout(c) \/ Break(c) PROVE World'
      BY <3>1, <3>2, <3>9 DEF Ask, Login, Logout, Break
    <3>10. ASSUME Ambient \/ UNCHANGED vars PROVE World'
      BY <3>1, <3>2, <3>3, <3>4, <3>5, <3>10 DEF Ambient, IdleOut, vars
    <3> QED BY <3>2, <3>6, <3>7, <3>8, <3>9, <3>10 DEF Next
  <2>5. History'
    <3>1. ASSUME UNCHANGED historyVars PROVE History'
      BY <3>1, <1>g DEF historyVars
    <3>2. ASSUME NEW C \in SUBSET Calls PROVE Unheard(C) \subseteq Pairs
      BY <1>f DEF Unheard, Token, Pairs
    <3>3. ASSUME NEW t \in Tabs, Open(t) PROVE History'
      <4>1. Mine(t) \in SUBSET Calls
        BY DEF Mine
      <4> QED BY <3>2, <3>3, <4>1, <1>g DEF Open
    <3>4. ASSUME NEW c \in Calls, Consume(c) PROVE History'
      <4>1. call[c].rt \in 0 .. minted /\ (call[c].rt # 0 => call[c].rt \in Pairs)
        BY <1>f DEF Pairs
      <4>2. CASE Stored(call[c].rt)
        <5>1. /\ call[c].rt \in Pairs
              /\ spentBy' = [spentBy EXCEPT ![call[c].rt] = @ \cup {TabOf[c]}]
              /\ unguarded' \subseteq unguarded \cup {call[c].rt}
              /\ UNCHANGED <<refused, over, excused, forgone>>
          BY <3>4, <4>1, <4>2 DEF Consume, Stored
        <5> QED BY <5>1, <1>g
      <4>3. CASE ~Stored(call[c].rt)
        <5>1. /\ UNCHANGED <<spentBy, unguarded, over, excused, forgone>>
              /\ \/ refused' = refused
                 \/ /\ call[c].rt # 0
                    /\ refused' = refused \cup {<<TabOf[c], call[c].rt>>}
          BY <3>4, <4>3 DEF Consume
        <5> QED BY <5>1, <4>1, <1>g
      <4> QED BY <4>2, <4>3
    <3>5. ASSUME NEW c \in Calls, Validate(c) PROVE History'
      <4>1. call[c].rt \in Pairs /\ sidOf[call[c].rt] \in 1 .. opened
        BY <3>5, <1>f, <1>g DEF Validate, At, Pairs
      <4> QED BY <3>5, <4>1, <1>g, <1>f DEF Validate, Token, Sids
    <3>6. ASSUME NEW c \in Calls, Store(c) PROVE History'
      BY <3>6, <1>n, <1>g DEF Store, At
    <3>7. ASSUME NEW c \in Calls, Drop(c) PROVE History'
      BY <3>7, <1>n, <1>g DEF Drop, Token
    <3>8. ASSUME NEW c \in Calls, End(c) PROVE History'
      BY <3>8, <1>n, <1>g DEF End
    <3>9. ASSUME NEW s \in Sids, IdleOut(s) PROVE History'
      BY <3>9, <1>g DEF IdleOut
    <3>10. ASSUME NEW c \in Calls, Break(c) PROVE History'
      BY <3>2, <3>10, <1>g DEF Break
    <3> HIDE DEF History
    <3> QED
      BY <3>1, <3>3, <3>4, <3>5, <3>6, <3>7, <3>8, <3>9, <3>10
         DEF Next, Ask, Login, Logout, Handle, Settle, Ambient, Queue, Drain,
             Succeed, Lead, Fail, Renew, Deny, Answer, Authenticate, Start, Revoke,
             ExpireToken, AgeOut, Deactivate, RedisDown, RedisUp, vars
  <2> QED BY <2>1, <2>2, <2>3, <2>4, <2>5
<1>m. minted' \in 0 .. MaxPairs /\ opened' \in 0 .. MaxSessions
  BY <1>c, <1>f
<1>o. TypeOK'
  <2>1. token' \in {0} \cup Pairs /\ cookie' \in {0} \cup Pairs
    BY <1>s, <1>m DEF Pairs
  <2>2. /\ page' \in [Tabs -> {"loading", "app", "login"}]
        /\ refreshing' \in [Tabs -> BOOLEAN]
        /\ sidOf' \in [Pairs -> {0} \cup Sids]
        /\ from' \in [Pairs -> {0} \cup Pairs]
    BY <1>s
  <2>3. Keys' /\ World' /\ History'
    BY <1>s
  <2> HIDE DEF Browser, PairSet
  <2> QED BY <2>1, <2>2, <2>3, <1>d, <1>m DEF TypeOK
<1>k. Known'
  BY <1>s, <1>c, <1>m DEF Known
<1> QED BY <1>o, <1>k DEF TInv

\* Every variable keeps its type, for any number of tabs, calls and pairs, and
\* a call only ever names pairs and sessions that exist.
THEOREM TypeCorrect == Spec => []TypeOK
<1>1. Init => TInv
  BY InitType
<1>2. TInv /\ [Next]_vars => TInv'
  BY TypeStep
<1>3. TInv => TypeOK
  BY DEF TInv
<1> QED BY <1>1, <1>2, <1>3, PTL DEF Spec

-----------------------------------------------------------------------------
(* How the calls move through the handlers.                                 *)

\* What becomes of a call that is, after a step, past the single-use check of
\* the refresh cookie, about to mint, or about to store what it minted.
Moves(d) ==
    /\ call'[d].st = "consumed" =>
         /\ call'[d].rt = call[d].rt
         /\ \/ call[d].st = "consumed"
            \/ Consume(d) /\ Stored(call[d].rt)
    /\ call'[d].st = "issue" =>
         \/ call[d].st = "issue" /\ call'[d].rt = call[d].rt /\ call'[d].sid = call[d].sid
         \/ /\ Validate(d)
            /\ active /\ Alive(sidOf[call[d].rt])
            /\ call'[d].rt = call[d].rt
            /\ call'[d].sid = sidOf[call[d].rt]
         \/ Authenticate(d) /\ call'[d].rt = 0 /\ call'[d].sid = opened + 1
    /\ call'[d].st = "store" =>
         \/ call[d].st = "store" /\ call'[d].new = call[d].new
         \/ Start(d) /\ call'[d].new = minted + 1

\* A page that is left changes no handler.
LEMMA LeftFields ==
    ASSUME TInv, NEW c \in Calls, Left(c).st \in {"consumed", "issue", "store"}
    PROVE  /\ Left(c).st = call[c].st /\ Left(c).rt = call[c].rt
           /\ Left(c).sid = call[c].sid /\ Left(c).new = call[c].new
<1> DEFINE r == call[c]
<1>1. Left(c) = Idle \/ Left(c) = [r EXCEPT !.kind = "gone"]
  BY LeftGood
<1>2. Idle.st = "idle"
  BY DEF Idle, Fresh
<1>3. r = [st |-> r.st, kind |-> r.kind, tok |-> r.tok, rt |-> r.rt, sid |-> r.sid,
           new |-> r.new, tries |-> r.tries]
  BY Facts, GoodFields
<1>4. [r EXCEPT !.kind = "gone"] =
         [st |-> r.st, kind |-> "gone", tok |-> r.tok, rt |-> r.rt, sid |-> r.sid,
          new |-> r.new, tries |-> r.tries]
  BY <1>3
<1> QED BY <1>1, <1>2, <1>4

LEMMA ToFields ==
    ASSUME TInv, NEW c \in Calls, NEW st, To(c, st)
    PROVE  /\ \A d \in Calls \ {c} : call'[d] = call[d]
           /\ call'[c].st = st /\ call'[c].rt = call[c].rt
           /\ call'[c].sid = call[c].sid /\ call'[c].new = call[c].new
<1> DEFINE r == call[c]
<1>1. r = [st |-> r.st, kind |-> r.kind, tok |-> r.tok, rt |-> r.rt, sid |-> r.sid,
           new |-> r.new, tries |-> r.tries]
  BY Facts, GoodFields
<1>2. [r EXCEPT !.st = st] =
         [st |-> st, kind |-> r.kind, tok |-> r.tok, rt |-> r.rt, sid |-> r.sid,
          new |-> r.new, tries |-> r.tries]
  BY <1>1
<1>3. \A d \in Calls : call'[d] = IF d = c THEN [r EXCEPT !.st = st] ELSE call[d]
  BY Facts DEF To, Becomes
<1> QED BY <1>2, <1>3

LEMMA BecomesFields ==
    ASSUME TInv, NEW c \in Calls, NEW r, Becomes(c, r)
    PROVE  call'[c] = r /\ \A d \in Calls \ {c} : call'[d] = call[d]
BY Facts DEF Becomes

LEMMA CallMoves ==
    ASSUME TInv, [Next]_vars
    PROVE  \A d \in Calls : Moves(d)
<1> TAKE d \in Calls
<1> DEFINE Quiet(r) == r.st \notin {"consumed", "issue", "store"}
<1>1. ASSUME call'[d] = call[d] \/ Quiet(call'[d]) PROVE Moves(d)
  BY <1>1 DEF Moves
<1>2. ASSUME NEW c \in Calls, NEW r, Becomes(c, r), Quiet(r) PROVE Moves(d)
  BY <1>1, <1>2, BecomesFields
<1>3. /\ \A kind, tok, tries : Quiet(Sent(kind, tok, tries))
      /\ \A st, kind, tok, cook, tries :
            st \notin {"consumed", "issue", "store"} => Quiet(Fresh(st, kind, tok, cook, tries))
      /\ \A c, st, cook, sid, new :
            /\ Holds(c, st, cook, sid, new).st = st /\ Holds(c, st, cook, sid, new).rt = cook
            /\ Holds(c, st, cook, sid, new).sid = sid /\ Holds(c, st, cook, sid, new).new = new
      /\ Quiet(Idle)
  BY DEF Sent, Fresh, Holds, Idle
<1>l. ASSUME call'[d] = Left(d) PROVE Moves(d)
  BY <1>l, LeftFields, <1>1 DEF Moves
<1>4. ASSUME NEW c \in Calls, NEW st \in {"ok", "bad", "lost", "denied"}, Answered(c, st)
      PROVE  Moves(d)
  BY <1>2, <1>3, <1>4 DEF Answered
<1>5. ASSUME NEW c \in Calls, Ask(c) \/ Login(c) \/ Logout(c) \/ Succeed(c) \/ Fail(c) \/ Drain(c)
      PROVE  Moves(d)
  BY <1>2, <1>3, <1>5 DEF Ask, Login, Logout, Succeed, Fail, Drain, Reject
<1>6. ASSUME NEW c \in Calls, Queue(c) \/ Lead(c) PROVE Moves(d)
  BY <1>2, <1>3, <1>6 DEF Queue, Lead
<1>7. ASSUME NEW t \in Tabs, Open(t) PROVE Moves(d)
  <2>1. \/ call'[d] = Left(d) \/ call'[d] = call[d]
        \/ call'[d] = Sent("me", token, 0)
    BY <1>7 DEF Open
  <2> QED BY <2>1, <1>1, <1>3, <1>l
<1>8. ASSUME NEW c \in Calls, Renew(c) PROVE Moves(d)
  <2>1. CASE call[c].kind = "login"
    <3>1. Becomes(c, Sent("me", call[c].new, 0))
      BY <1>8, <2>1 DEF Renew
    <3> QED BY <3>1, <1>2, <1>3
  <2>2. CASE call[c].kind # "login"
    <3>1. call'[d] = call[d] \/ call'[d] = Sent(call[d].kind, call[c].new, 1)
      BY <1>8, <2>2 DEF Renew
    <3> QED BY <3>1, <1>1, <1>3
  <2> QED BY <2>1, <2>2
<1>9. ASSUME NEW c \in Calls, Deny(c) PROVE Moves(d)
  <2>1. call'[d] = Left(d) \/ call'[d] = call[d]
    BY <1>9 DEF Deny
  <2> QED BY <2>1, <1>1, <1>l
<1>10. ASSUME NEW c \in Calls, Answer(c) \/ End(c) \/ Break(c) PROVE Moves(d)
  BY <1>4, <1>10 DEF Answer, End, Break
<1>11. ASSUME NEW c \in Calls, Authenticate(c) PROVE Moves(d)
  <2>1. CASE Answered(c, "bad")
    BY <2>1, <1>4
  <2>2. CASE Becomes(c, Holds(c, "issue", 0, opened + 1, 0))
    BY <1>11, <2>2, <1>1, <1>3, BecomesFields DEF Moves
  <2> QED BY <1>11, <2>1, <2>2 DEF Authenticate
<1>12. ASSUME NEW c \in Calls, Consume(c) PROVE Moves(d)
  <2>1. CASE Answered(c, "denied")
    BY <2>1, <1>4
  <2>2. CASE To(c, "consumed") /\ Stored(call[c].rt)
    BY <1>12, <2>2, <1>1, ToFields DEF Moves
  <2> QED BY <1>12, <2>1, <2>2 DEF Consume
<1>13. ASSUME NEW c \in Calls, Validate(c) PROVE Moves(d)
  <2>1. CASE Answered(c, "denied")
    BY <2>1, <1>4
  <2>2. CASE /\ active /\ Alive(sidOf[call[c].rt])
             /\ Becomes(c, Holds(c, "issue", call[c].rt, sidOf[call[c].rt], 0))
    BY <1>13, <2>2, <1>1, <1>3, BecomesFields DEF Moves
  <2> QED BY <1>13, <2>1, <2>2 DEF Validate
<1>14. ASSUME NEW c \in Calls, Start(c) PROVE Moves(d)
  <2>1. Becomes(c, Holds(c, "store", call[c].rt, 0, minted + 1))
    BY <1>14 DEF Start
  <2> QED BY <1>14, <2>1, <1>1, <1>3, BecomesFields DEF Moves
<1>15. ASSUME NEW c \in Calls, Store(c) PROVE Moves(d)
  <2>1. To(c, "renewed")
    BY <1>15 DEF Store
  <2> QED BY <2>1, <1>1, ToFields
<1>16. ASSUME NEW c \in Calls, Revoke(c) \/ Drop(c) PROVE Moves(d)
  <2>1. \E st \in {"drop", "end"} : \E cook, sid : Becomes(c, Holds(c, st, cook, sid, 0))
    BY <1>16 DEF Revoke, Drop
  <2> QED BY <2>1, <1>2, <1>3
<1>17. ASSUME Ambient \/ UNCHANGED vars PROVE Moves(d)
  <2>1. UNCHANGED call
    BY <1>17 DEF Ambient, ExpireToken, IdleOut, AgeOut, Deactivate, RedisDown, RedisUp, vars
  <2> QED BY <2>1, <1>1
<1> QED
  BY <1>5, <1>6, <1>7, <1>8, <1>9, <1>10, <1>11, <1>12, <1>13, <1>14, <1>15, <1>16, <1>17
     DEF Next, Handle, Settle

-----------------------------------------------------------------------------
(* A session that is over.                                                  *)

\* A handler about to re-arm a session that is over had validated it before,
\* or without Redis; and only sessions that were opened are live or over.
Rearm == \A c \in Calls : At(c, "issue") /\ call[c].sid \in over => call[c].sid \in excused
SInv == /\ OverStaysOver /\ Rearm
        /\ \A s \in over \cup live : s <= opened

LEMMA OverStep ==
    ASSUME TInv, TInv', SInv, [Next]_vars
    PROVE  SInv'
<1>f. /\ minted \in 0 .. MaxPairs /\ opened \in 0 .. MaxSessions
      /\ opened' \in opened .. MaxSessions
      /\ \A c \in Calls : call[c].sid \in 0 .. opened
  <2>1. \A c \in Calls : call[c].sid \in 0 .. opened
    BY Facts, GoodFields
  <2> QED BY <2>1, Facts, CallsStep
<1>m. \A d \in Calls : Moves(d)
  BY CallMoves
\* Every step that ends no session and re-arms none.
<1>1. ASSUME over' = over, live' \subseteq live, excused \subseteq excused'
      PROVE  SInv'
  <2>1. ASSUME NEW d \in Calls, call'[d].st = "issue", call'[d].sid \in over
        PROVE  call'[d].sid \in excused'
    <3>1. CASE call[d].st = "issue" /\ call'[d].sid = call[d].sid
      BY <1>1, <2>1, <3>1 DEF SInv, Rearm, At
    <3>2. CASE Validate(d) /\ active /\ Alive(call'[d].sid) /\ call'[d].sid = sidOf[call[d].rt]
      <4>1. CASE redis
        BY <1>1, <2>1, <3>2, <4>1 DEF SInv, OverStaysOver, Alive
      <4>2. CASE ~redis
        BY <2>1, <3>2, <4>2 DEF Validate
      <4> QED BY <4>1, <4>2
    <3>3. CASE call'[d].sid = opened + 1
      BY <1>f, <2>1, <3>3 DEF SInv
    <3> QED BY <1>m, <2>1, <3>1, <3>2, <3>3 DEF Moves
  <2>2. \A s \in over' \cup live' : s <= opened'
    BY <1>1, <1>f DEF SInv, TInv, TypeOK, Sids
  <2>3. OverStaysOver'
    BY <1>1 DEF SInv, OverStaysOver
  <2>4. Rearm'
    BY <1>1, <2>1 DEF Rearm, At
  <2> QED BY <2>2, <2>3, <2>4 DEF SInv
<1>2. ASSUME NEW c \in Calls, Start(c) PROVE SInv'
  <2>1. /\ At(c, "issue") /\ UNCHANGED <<over, excused, opened>>
        /\ live' \subseteq live \cup {call[c].sid}
    BY <1>2 DEF Start, historyVars
  <2>2. \A d \in Calls : call'[d].st = "issue" =>
           call[d].st = "issue" /\ call'[d].sid = call[d].sid
    <3> TAKE d \in Calls
    <3>1. call'[d] = call[d] \/ call'[d].st = "store"
      BY <1>2, BecomesFields DEF Start, Holds
    <3> QED BY <3>1
  <2> QED BY <2>1, <2>2, <1>f DEF SInv, OverStaysOver, Rearm, At, TInv, TypeOK, Sids
<1>3. ASSUME NEW c \in Calls, End(c) PROVE SInv'
  <2>1. CASE UNCHANGED <<live, over, excused>>
    BY <2>1, <1>1
  <2>2. CASE ~ UNCHANGED <<live, over, excused>>
    <3> DEFINE s == call[c].sid
    <3>1. /\ live' = live \ {s} /\ over' = over \cup {s} /\ opened' = opened
          /\ excused' = IF Validated(s) THEN excused \cup {s} ELSE excused
      BY <1>3, <2>2 DEF End, pairVars
    <3>2. \A d \in Calls : call'[d].st = "issue" =>
             call[d].st = "issue" /\ call'[d].sid = call[d].sid
      <4> TAKE d \in Calls
      <4>1. call'[d] = call[d] \/ call'[d].st = "ok"
        BY <1>3, BecomesFields DEF End, Answered, Fresh
      <4> QED BY <4>1
    <3>3. Rearm'
      <4> SUFFICES ASSUME NEW d \in Calls, call'[d].st = "issue", call'[d].sid \in over'
                   PROVE  call'[d].sid \in excused'
        BY DEF Rearm, At
      <4>1. CASE call[d].sid = s
        BY <3>1, <3>2, <4>1 DEF Validated, At
      <4>2. CASE call[d].sid # s
        BY <3>1, <3>2, <4>2 DEF SInv, Rearm, At
      <4> QED BY <4>1, <4>2
    <3>4. OverStaysOver'
      BY <3>1 DEF SInv, OverStaysOver
    <3>5. \A x \in over' \cup live' : x <= opened'
      BY <3>1, <1>f DEF SInv
    <3> QED BY <3>3, <3>4, <3>5 DEF SInv
  <2> QED BY <2>1, <2>2
<1>4. ASSUME NEW s \in Sids, IdleOut(s) PROVE SInv'
  <2>1. /\ s \in live /\ ~Validated(s) /\ live' = live \ {s} /\ over' = over \cup {s}
        /\ UNCHANGED <<excused, call, opened>>
    BY <1>4 DEF IdleOut, pairVars
  <2> QED BY <2>1 DEF SInv, OverStaysOver, Rearm, Validated, At
<1>5. CASE \/ \E t \in Tabs : Open(t)
           \/ \E c \in Calls : \/ Ask(c) \/ Login(c) \/ Logout(c) \/ Settle(c) \/ Break(c)
                               \/ Answer(c) \/ Authenticate(c) \/ Consume(c) \/ Validate(c)
                               \/ Store(c) \/ Revoke(c) \/ Drop(c)
           \/ ExpireToken \/ \E s \in Sids : AgeOut(s)
           \/ Deactivate \/ RedisDown \/ RedisUp \/ UNCHANGED vars
  <2>1. UNCHANGED <<over, live>>
    <3>1. ASSUME NEW c \in Calls, Settle(c) PROVE UNCHANGED <<over, live>>
      BY <3>1 DEF Settle, Succeed, Queue, Lead, Fail, Renew, Deny, Drain, historyVars, redisVars
    <3>2. ASSUME NEW c \in Calls, \/ Answer(c) \/ Authenticate(c) \/ Store(c) \/ Revoke(c)
          PROVE  UNCHANGED <<over, live>>
      BY <3>2 DEF Answer, Authenticate, Store, Revoke, historyVars, redisVars
    <3>3. ASSUME NEW c \in Calls, \/ Consume(c) \/ Validate(c) \/ Drop(c) \/ Break(c)
          PROVE  UNCHANGED <<over, live>>
      BY <3>3 DEF Consume, Validate, Drop, Break, redisVars
    <3>4. ASSUME \/ \E t \in Tabs : Open(t)
                 \/ \E c \in Calls : Ask(c) \/ Login(c) \/ Logout(c)
          PROVE  UNCHANGED <<over, live>>
      BY <3>4 DEF Open, Ask, Login, Logout, historyVars, redisVars
    <3>5. ASSUME \/ ExpireToken \/ \E s \in Sids : AgeOut(s)
                 \/ Deactivate \/ RedisDown \/ RedisUp \/ UNCHANGED vars
          PROVE  UNCHANGED <<over, live>>
      BY <3>5 DEF ExpireToken, AgeOut, Deactivate, RedisDown, RedisUp, vars, historyVars, redisVars
    <3> QED BY <1>5, <3>1, <3>2, <3>3, <3>4, <3>5
  <2>3. excused \subseteq excused'
    <3>1. ASSUME NEW c \in Calls, Settle(c) PROVE UNCHANGED excused
      BY <3>1 DEF Settle, Succeed, Queue, Lead, Fail, Renew, Deny, Drain, historyVars
    <3>2. ASSUME NEW c \in Calls, \/ Answer(c) \/ Authenticate(c) \/ Consume(c) \/ Store(c)
                                  \/ Revoke(c) \/ Drop(c) \/ Break(c)
          PROVE  UNCHANGED excused
      BY <3>2 DEF Answer, Authenticate, Consume, Store, Revoke, Drop, Break, historyVars
    <3>3. ASSUME NEW c \in Calls, Validate(c) PROVE excused \subseteq excused'
      BY <3>3 DEF Validate
    <3>4. ASSUME \/ \E t \in Tabs : Open(t)
                 \/ \E c \in Calls : Ask(c) \/ Login(c) \/ Logout(c)
                 \/ ExpireToken \/ \E s \in Sids : AgeOut(s)
                 \/ Deactivate \/ RedisDown \/ RedisUp \/ UNCHANGED vars
          PROVE  UNCHANGED excused
      BY <3>4 DEF Open, Ask, Login, Logout, ExpireToken, AgeOut, Deactivate, RedisDown,
         RedisUp, vars, historyVars
    <3> QED BY <1>5, <3>1, <3>2, <3>3, <3>4
  <2> QED BY <2>1, <2>3, <1>1
<1> QED
  BY <1>2, <1>3, <1>4, <1>5 DEF Next, Handle, Ambient

\* For any number of tabs and calls, a session that was logged out or idled
\* out is only ever live again through a refresh that had passed
\* session.validate by then, or passed it while Redis was down.
THEOREM OverRemainsOver == Spec => []OverStaysOver
<1>1. Init => TInv /\ SInv
  BY InitType DEF Init, SInv, OverStaysOver, Rearm
<1>2. TInv /\ SInv /\ [Next]_vars => (TInv /\ SInv)'
  BY TypeStep, OverStep
<1>3. SInv => OverStaysOver
  BY DEF SInv
<1> QED BY <1>1, <1>2, <1>3, PTL DEF Spec

-----------------------------------------------------------------------------
(* The single use of a refresh token.                                       *)

\* A handler past the single-use check, which will mint a pair from its cookie.
Spends(c, r) == call[c].st \in {"consumed", "issue"} /\ call[c].rt = r
Mints(c, n) == call[c].st = "store" /\ call[c].new = n

\* A token that is being spent, and was not let through unchecked, is spent by
\* one handler, is not stored any more and has no pair yet.
SpentOnce ==
    \A c \in Calls, r \in Pairs : Spends(c, r) /\ r \notin unguarded =>
        /\ r \notin rt
        /\ \A m \in Pairs : from[m] # r
        /\ \A d \in Calls : Spends(d, r) => d = c
\* A token that has a pair is not stored any more.
HeirsAreSpent == \A m \in Pairs : from[m] # 0 /\ from[m] \notin unguarded => from[m] \notin rt
\* A pair that is about to be stored is nobody else's and was never used.
NotYetStored ==
    \A c \in Calls, n \in Pairs : Mints(c, n) =>
        /\ n \notin rt
        /\ \A d \in Calls : Mints(d, n) => d = c
        /\ n \notin unguarded => /\ \A m \in Pairs : from[m] # n
                                 /\ \A d \in Calls : ~Spends(d, n)
Minted == rt \subseteq 0 .. minted /\ \A m \in Pairs : from[m] \in 0 .. minted
HInv == OneHeir /\ SpentOnce /\ HeirsAreSpent /\ NotYetStored /\ Minted

LEMMA HeirStep ==
    ASSUME TInv, TInv', HInv, [Next]_vars
    PROVE  HInv'
<1>f. /\ minted \in 0 .. MaxPairs /\ minted' \in minted .. MaxPairs
      /\ \A c \in Calls : call[c].rt \in 0 .. minted /\ call[c].new \in 0 .. minted
      /\ MaxPairs \in Nat
  <2>1. \A c \in Calls : call[c].rt \in 0 .. minted /\ call[c].new \in 0 .. minted
    BY Facts, GoodFields
  <2> QED BY <2>1, Facts, CallsStep, ConstantsAssumption
<1>p. \A n \in Pairs : n # 0
  BY DEF Pairs
<1>m. \A d \in Calls : Moves(d)
  BY CallMoves
\* Steps that neither consume, mint nor store.
<1>1. ASSUME rt' \subseteq rt, UNCHANGED <<from, unguarded>>,
             \A d \in Calls, r \in Pairs : Spends(d, r)' => Spends(d, r),
             \A d \in Calls, n \in Pairs : Mints(d, n)' => Mints(d, n)
      PROVE  HInv'
  <2>1. OneHeir' /\ HeirsAreSpent'
    BY <1>1 DEF HInv, OneHeir, HeirsAreSpent
  <2>2. SpentOnce'
    BY <1>1 DEF HInv, SpentOnce
  <2>3. NotYetStored'
    BY <1>1 DEF HInv, NotYetStored
  <2>4. Minted'
    BY <1>1, <1>f DEF HInv, Minted
  <2> QED BY <2>1, <2>2, <2>3, <2>4 DEF HInv
<1>2. ASSUME NEW c \in Calls, Consume(c) PROVE HInv'
  <2> DEFINE r == call[c].rt
  <2>0. UNCHANGED from
    BY <1>2 DEF Consume, pairVars
  <2>1. CASE ~Stored(r)
    <3>1. Answered(c, "denied") /\ UNCHANGED <<rt, unguarded>>
      BY <1>2, <2>1 DEF Consume
    <3>2. \A d \in Calls : call'[d] = call[d] \/ call'[d].st = "denied"
      BY <3>1, BecomesFields DEF Answered, Fresh
    <3> QED BY <2>0, <3>1, <3>2, <1>1 DEF Spends, Mints
  <2>2. CASE Stored(r)
    <3>1. /\ To(c, "consumed") /\ rt' = Without(r) /\ r # 0
          /\ unguarded' = IF redis THEN unguarded ELSE unguarded \cup {r}
      BY <1>2, <2>2 DEF Consume, Stored
    <3>2. r \in Pairs
      BY <3>1, <1>f DEF Pairs
    <3>3. \A d \in Calls \ {c} : call'[d] = call[d]
      BY <3>1, ToFields
    <3>4. call'[c].st = "consumed" /\ call'[c].rt = r
      BY <3>1, ToFields
    <3> HIDE DEF r
    <3>5. /\ \A d \in Calls, q \in Pairs : Spends(d, q)' => Spends(d, q) \/ (d = c /\ q = r)
          /\ \A d \in Calls, n \in Pairs : Mints(d, n)' => Mints(d, n)
      BY <3>3, <3>4 DEF Spends, Mints
    <3>6. CASE redis
      <4>1. r \in rt /\ rt' = rt \ {r} /\ unguarded' = unguarded
        BY <2>2, <3>1, <3>6 DEF Stored, Without
      <4>2. r \notin unguarded => /\ \A m \in Pairs : from[m] # r
                                  /\ \A d \in Calls : ~Spends(d, r)
        BY <4>1, <3>1, <3>2 DEF HInv, HeirsAreSpent, SpentOnce
      <4>3. \A d \in Calls : ~Mints(d, r)
        BY <4>1, <3>2 DEF HInv, NotYetStored
      <4>4. OneHeir' /\ HeirsAreSpent'
        BY <2>0, <4>1 DEF HInv, OneHeir, HeirsAreSpent
      <4>5. SpentOnce'
        <5> SUFFICES ASSUME NEW d \in Calls, NEW q \in Pairs, Spends(d, q)', q \notin unguarded
                     PROVE  /\ q \notin rt' /\ \A m \in Pairs : from[m] # q
                            /\ \A e \in Calls : Spends(e, q)' => e = d
          BY <2>0, <4>1 DEF SpentOnce
        <5>1. CASE q = r
          BY <5>1, <3>5, <4>1, <4>2
        <5>2. CASE q # r
          BY <5>2, <3>5, <4>1 DEF HInv, SpentOnce
        <5> QED BY <5>1, <5>2
      <4>6. NotYetStored'
        BY <2>0, <3>5, <4>1, <4>3 DEF HInv, NotYetStored
      <4>7. Minted'
        BY <2>0, <4>1, <1>f DEF HInv, Minted
      <4> QED BY <4>4, <4>5, <4>6, <4>7 DEF HInv
    <3>7. CASE ~redis
      <4>1. rt' = rt /\ unguarded' = unguarded \cup {r}
        BY <3>1, <3>7 DEF Without
      <4>2. OneHeir' /\ HeirsAreSpent'
        BY <2>0, <4>1 DEF HInv, OneHeir, HeirsAreSpent
      <4>3. SpentOnce'
        BY <2>0, <3>5, <4>1 DEF HInv, SpentOnce
      <4>4. NotYetStored'
        BY <2>0, <3>5, <4>1 DEF HInv, NotYetStored
      <4>5. Minted'
        BY <2>0, <4>1, <1>f DEF HInv, Minted
      <4> QED BY <4>2, <4>3, <4>4, <4>5 DEF HInv
    <3> QED BY <3>6, <3>7
  <2> QED BY <2>1, <2>2
<1>3. ASSUME NEW c \in Calls, Start(c) PROVE HInv'
  <2> DEFINE r == call[c].rt
             n == minted + 1
  <2>1. /\ At(c, "issue") /\ minted < MaxPairs /\ minted' = n
        /\ from' = [from EXCEPT ![n] = r] /\ UNCHANGED <<rt, unguarded>>
        /\ Becomes(c, Holds(c, "store", r, 0, n))
    BY <1>3 DEF Start, historyVars
  <2>2. n \in Pairs /\ from \in [Pairs -> {0} \cup Pairs] /\ r \in 0 .. minted
    BY <2>1, <1>f DEF Pairs, TInv, TypeOK
  <2>3. \A m \in Pairs : from'[m] = IF m = n THEN r ELSE from[m]
    BY <2>1, <2>2
  <2>4. /\ \A d \in Calls \ {c} : call'[d] = call[d]
        /\ call'[c].st = "store" /\ call'[c].new = n
    BY <2>1, BecomesFields DEF Holds
  <2>5. /\ \A m \in Pairs : from[m] # n
        /\ \A d \in Calls : call[d].rt # n /\ call[d].new # n
        /\ n \notin rt /\ r # n
    BY <1>f DEF HInv, Minted
  <2>6. Spends(c, r)
    BY <2>1 DEF Spends, At
  <2>11. r # 0 => r \in Pairs
    BY <2>2, <1>f DEF Pairs
  <2> HIDE DEF n, r
  <2>7. /\ \A d \in Calls, q \in Pairs : Spends(d, q)' => Spends(d, q) /\ d # c
        /\ \A d \in Calls, q \in Pairs : Mints(d, q)' => Mints(d, q) \/ (d = c /\ q = n)
    BY <2>4 DEF Spends, Mints
  <2>8. OneHeir'
    <3>1. r # 0 /\ r \notin unguarded => \A m \in Pairs : from[m] # r
      BY <2>6, <2>11 DEF HInv, SpentOnce
    <3> QED BY <2>1, <2>3, <3>1 DEF HInv, OneHeir
  <2>9. HeirsAreSpent'
    <3>1. r # 0 /\ r \notin unguarded => r \notin rt
      BY <2>6, <2>11 DEF HInv, SpentOnce
    <3> QED BY <2>1, <2>3, <3>1 DEF HInv, HeirsAreSpent
  <2>10. SpentOnce'
    <3> SUFFICES ASSUME NEW d \in Calls, NEW q \in Pairs, Spends(d, q)', q \notin unguarded
                 PROVE  /\ q \notin rt /\ \A m \in Pairs : from'[m] # q
                        /\ \A e \in Calls : Spends(e, q)' => e = d
      BY <2>1 DEF SpentOnce
    <3>1. Spends(d, q) /\ d # c
      BY <2>7
    <3>2. /\ q \notin rt /\ \A m \in Pairs : from[m] # q
          /\ \A e \in Calls : Spends(e, q) => e = d
      BY <3>1 DEF HInv, SpentOnce
    <3>3. q # r
      BY <3>1, <3>2, <2>6
    <3> QED BY <3>2, <3>3, <2>3, <2>7
  <2>12. NotYetStored'
    <3> SUFFICES ASSUME NEW d \in Calls, NEW q \in Pairs, Mints(d, q)'
                 PROVE  /\ q \notin rt
                        /\ \A e \in Calls : Mints(e, q)' => e = d
                        /\ q \notin unguarded => /\ \A m \in Pairs : from'[m] # q
                                                 /\ \A e \in Calls : ~Spends(e, q)'
      BY <2>1 DEF NotYetStored
    <3>1. CASE q = n
      <4>1. \A e \in Calls : Mints(e, q)' => e = c
        BY <3>1, <2>5, <2>7 DEF Mints
      <4>2. \A e \in Calls : ~Spends(e, q)'
        BY <3>1, <2>5, <2>7 DEF Spends
      <4> QED BY <3>1, <4>1, <4>2, <2>3, <2>5
    <3>2. CASE q # n
      <4>1. Mints(d, q)
        BY <3>2, <2>7
      <4>2. /\ q \notin rt /\ \A e \in Calls : Mints(e, q) => e = d
            /\ (q \notin unguarded => /\ \A m \in Pairs : from[m] # q
                                      /\ \A e \in Calls : ~Spends(e, q))
        BY <4>1 DEF HInv, NotYetStored
      <4> QED BY <3>2, <4>2, <2>3, <2>6, <2>7
    <3> QED BY <3>1, <3>2
  <2>13. Minted'
    BY <2>1, <2>2, <2>3, <1>f DEF HInv, Minted, n
  <2> QED BY <2>8, <2>9, <2>10, <2>12, <2>13 DEF HInv
<1>4. ASSUME NEW c \in Calls, Store(c) PROVE HInv'
  <2> DEFINE n == call[c].new
  <2>1. /\ At(c, "store") /\ To(c, "renewed") /\ UNCHANGED <<from, unguarded, minted>>
        /\ rt' \subseteq rt \cup {n}
    BY <1>4 DEF Store, pairVars
  <2>2. n \in Pairs /\ n <= minted
    <3>1. n # 0
      BY <2>1, Facts, GoodFields DEF At
    <3> QED BY <3>1, <1>f DEF Pairs
  <2>3. Mints(c, n)
    BY <2>1 DEF Mints, At
  <2>4. /\ \A d \in Calls \ {c} : call'[d] = call[d]
        /\ call'[c].st = "renewed"
    BY <2>1, ToFields
  <2> HIDE DEF n
  <2>5. /\ \A d \in Calls, q \in Pairs : Spends(d, q)' => Spends(d, q)
        /\ \A d \in Calls, q \in Pairs : Mints(d, q)' => Mints(d, q) /\ d # c
    BY <2>4 DEF Spends, Mints
  <2>6. /\ \A d \in Calls : Mints(d, n) => d = c
        /\ n \notin unguarded => /\ \A m \in Pairs : from[m] # n
                                 /\ \A d \in Calls : ~Spends(d, n)
    BY <2>2, <2>3 DEF HInv, NotYetStored
  <2>7. OneHeir' /\ HeirsAreSpent'
    BY <2>1, <2>6 DEF HInv, OneHeir, HeirsAreSpent
  <2>8. SpentOnce'
    BY <2>1, <2>5, <2>6 DEF HInv, SpentOnce
  <2>9. NotYetStored'
    BY <2>1, <2>5, <2>6 DEF HInv, NotYetStored
  <2>10. Minted'
    BY <2>1, <2>2, <1>f DEF HInv, Minted, Pairs
  <2> QED BY <2>7, <2>8, <2>9, <2>10 DEF HInv
<1>5. ASSUME NEW c \in Calls, Drop(c) PROVE HInv'
  <2>1. rt' \subseteq rt /\ UNCHANGED <<from, unguarded>>
    BY <1>5 DEF Drop, Without, pairVars
  <2>2. \A d \in Calls : call'[d] = call[d] \/ call'[d].st = "end"
    BY <1>5, BecomesFields DEF Drop, Holds
  <2> QED BY <2>1, <2>2, <1>1 DEF Spends, Mints
<1>6. CASE \/ \E t \in Tabs : Open(t)
           \/ \E c \in Calls : \/ Ask(c) \/ Login(c) \/ Logout(c) \/ Settle(c) \/ Break(c)
                               \/ Answer(c) \/ Authenticate(c) \/ Validate(c)
                               \/ Revoke(c) \/ End(c)
           \/ Ambient \/ UNCHANGED vars
  <2>1. UNCHANGED rt
    BY <1>6 DEF Open, Ask, Login, Logout, Settle, Break, Answer, Authenticate, Validate, Revoke,
       End, Ambient, ExpireToken, IdleOut, AgeOut, Deactivate, RedisDown, RedisUp, vars,
       redisVars, Succeed, Queue, Lead, Fail, Renew, Deny, Drain
  <2>2. UNCHANGED unguarded
    BY <1>6 DEF Open, Ask, Login, Logout, Settle, Break, Answer, Authenticate, Validate, Revoke,
       End, Ambient, ExpireToken, IdleOut, AgeOut, Deactivate, RedisDown, RedisUp, vars,
       historyVars, Succeed, Queue, Lead, Fail, Renew, Deny, Drain
  <2>3. UNCHANGED <<from, minted>>
    BY <1>6 DEF Open, Ask, Login, Logout, Settle, Break, Answer, Authenticate, Validate, Revoke,
       End, Ambient, ExpireToken, IdleOut, AgeOut, Deactivate, RedisDown, RedisUp, vars,
       pairVars, Succeed, Queue, Lead, Fail, Renew, Deny, Drain
  <2>4. ASSUME NEW d \in Calls, Start(d) PROVE FALSE
    BY <2>3, <2>4, <1>f DEF Start
  <2>5. ASSUME NEW d \in Calls, NEW n \in Pairs, Mints(d, n)' PROVE Mints(d, n)
    BY <2>4, <2>5, <1>m DEF Moves, Mints
  <2>6. ASSUME NEW d \in Calls, NEW r \in Pairs, Spends(d, r)'
        PROVE  Spends(d, r) \/ r \in unguarded
    <3>1. CASE call[d].st \in {"consumed", "issue"} /\ call'[d].rt = call[d].rt
      BY <2>6, <3>1 DEF Spends
    <3>2. CASE Consume(d) /\ Stored(call[d].rt) /\ call'[d].rt = call[d].rt
      <4>1. rt' = Without(r) /\ (redis \/ r \in unguarded')
        BY <2>6, <3>2 DEF Consume, Spends
      <4>2. redis => r \in rt /\ r \notin rt'
        BY <2>6, <3>2, <4>1 DEF Stored, Without, Spends
      <4> QED BY <2>1, <2>2, <4>1, <4>2
    <3>3. CASE Validate(d) /\ call'[d].rt = call[d].rt
      BY <2>6, <3>3 DEF Validate, At, Spends
    <3>4. CASE call'[d].rt = 0
      BY <2>6, <3>4, <1>p DEF Spends
    <3> QED BY <2>6, <3>1, <3>2, <3>3, <3>4, <1>m DEF Moves, Spends
  <2>7. OneHeir' /\ HeirsAreSpent' /\ Minted'
    BY <2>1, <2>2, <2>3 DEF HInv, OneHeir, HeirsAreSpent, Minted
  <2>8. SpentOnce'
    BY <2>1, <2>2, <2>3, <2>6 DEF HInv, SpentOnce
  <2>9. NotYetStored'
    BY <2>1, <2>2, <2>3, <2>5, <2>6 DEF HInv, NotYetStored
  <2> QED BY <2>7, <2>8, <2>9 DEF HInv
<1> QED
  BY <1>2, <1>3, <1>4, <1>5, <1>6 DEF Next, Handle

\* For any number of tabs racing with one cookie, and whatever crashes in
\* between, a refresh token mints one pair at most, unless Redis was down when
\* it was let through.
THEOREM OneHeirAlways == Spec => []OneHeir
<1>1. Init => TInv /\ HInv
  <2> SUFFICES ASSUME Init PROVE HInv
    BY InitType
  <2>1. \A c \in Calls : call[c].st = "idle"
    BY IdleGood, ConstantsAssumption DEF Init
  <2>2. \A c \in Calls, r \in Pairs : ~Spends(c, r) /\ ~Mints(c, r)
    BY <2>1 DEF Spends, Mints
  <2> QED
    BY <2>2 DEF Init, HInv, OneHeir, SpentOnce, HeirsAreSpent, NotYetStored, Minted
<1>2. TInv /\ HInv /\ [Next]_vars => (TInv /\ HInv)'
  BY TypeStep, HeirStep
<1>3. HInv => OneHeir
  BY DEF HInv
<1> QED BY <1>1, <1>2, <1>3, PTL DEF Spec

-----------------------------------------------------------------------------
(* The refresh queue of a tab.                                              *)

Waits(c) == call[c].st = "queued" /\ call[c].kind # "gone"
\* Only calls of a page and orphans wait or refresh, only those and logins get a pair.
KindFits(r) ==
    /\ (r.st \in {"queued", "refresh", "consumed", "denied"} => r.kind \in {"api", "me", "gone"})
    /\ (r.st \in {"issue", "store", "renewed"} => r.kind # "logout")
QInv ==
    /\ \A c, d \in Calls : Leads(c) /\ Leads(d) /\ TabOf[c] = TabOf[d] => c = d
    /\ \A c \in Calls : Leads(c) \/ Waits(c) => refreshing[TabOf[c]]
    /\ \A t \in Tabs : refreshing[t] => \E c \in Calls : TabOf[c] = t /\ Leads(c)
    /\ \A c \in Calls : KindFits(call[c])

LEMMA InitQueue == Init => QInv
<1> SUFFICES ASSUME Init PROVE QInv
  OBVIOUS
<1>1. \A c \in Calls : call[c].st = "idle"
  BY IdleGood, ConstantsAssumption DEF Init
<1>2. \A c \in Calls : ~Leads(c) /\ ~Waits(c) /\ KindFits(call[c])
  BY <1>1 DEF Leads, Waits, RefreshStages, KindFits
<1> QED BY <1>2 DEF Init, QInv

\* A call becomes another record, and its tab's refresh is where it was.
LEMMA QueueKept ==
    ASSUME TInv, QInv, NEW c \in Calls, NEW r, Becomes(c, r), UNCHANGED refreshing,
           (r.kind \in {"api", "me"} /\ r.st \in RefreshStages) <=> Leads(c),
           r.st = "queued" /\ r.kind # "gone" => refreshing[TabOf[c]], KindFits(r)
    PROVE  QInv'
<1>1. call'[c] = r /\ \A d \in Calls \ {c} : call'[d] = call[d]
  BY BecomesFields
<1>2. \A d \in Calls : Leads(d)' <=> Leads(d)
  BY <1>1 DEF Leads
<1>3. \A d \in Calls : Waits(d)' => Waits(d) \/ refreshing[TabOf[d]]
  BY <1>1 DEF Waits
<1>4. \A d \in Calls : KindFits(call'[d])
  BY <1>1 DEF QInv
<1> QED BY <1>2, <1>3, <1>4 DEF QInv, KindFits

\* The refresh of tab t is over, or its page is gone: no call of the tab
\* leads or waits, and the other tabs are as they were.
LEMMA QueueEmptied ==
    ASSUME TInv, QInv, NEW t \in Tabs, refreshing' = [refreshing EXCEPT ![t] = FALSE],
           \A d \in Calls : TabOf[d] = t => ~Leads(d)' /\ ~Waits(d)',
           \A d \in Calls : TabOf[d] # t => call'[d] = call[d],
           \A d \in Calls : KindFits(call'[d])
    PROVE  QInv'
<1>1. \A s \in Tabs : refreshing'[s] = (s # t /\ refreshing[s])
  BY DEF TInv, TypeOK
<1>2. \A d \in Calls : TabOf[d] # t => (Leads(d)' <=> Leads(d)) /\ (Waits(d)' <=> Waits(d))
  BY DEF Leads, Waits
<1>3. \A d \in Calls : TabOf[d] \in Tabs
  BY ConstantsAssumption
<1>4. \A c, d \in Calls : Leads(c)' /\ Leads(d)' /\ TabOf[c] = TabOf[d] => c = d
  BY <1>2 DEF QInv
<1>5. \A c \in Calls : Leads(c)' \/ Waits(c)' => refreshing'[TabOf[c]]
  BY <1>1, <1>2, <1>3 DEF QInv
<1>6. ASSUME NEW s \in Tabs, refreshing'[s] PROVE \E c \in Calls : TabOf[c] = s /\ Leads(c)'
  <2>1. s # t /\ refreshing[s]
    BY <1>1, <1>6
  <2>2. PICK c \in Calls : TabOf[c] = s /\ Leads(c)
    BY <2>1 DEF QInv
  <2> QED BY <1>2, <2>1, <2>2
<1> QED BY <1>4, <1>5, <1>6 DEF QInv, KindFits

\* What is left of a call by its page neither leads nor waits.
LEMMA LeftIsQuiet ==
    ASSUME TInv, NEW c \in Calls
    PROVE  /\ Left(c).kind = "gone" \/ Left(c) = Idle
           /\ KindFits(call[c]) => KindFits(Left(c))
<1> DEFINE r == call[c]
<1>1. Left(c) = Idle \/ Left(c) = [r EXCEPT !.kind = "gone"]
  BY LeftGood
<1>2. Idle.st = "idle"
  BY DEF Idle, Fresh
<1>3. r = [st |-> r.st, kind |-> r.kind, tok |-> r.tok, rt |-> r.rt, sid |-> r.sid,
           new |-> r.new, tries |-> r.tries]
  BY Facts, GoodFields
<1>4. [r EXCEPT !.kind = "gone"] =
         [st |-> r.st, kind |-> "gone", tok |-> r.tok, rt |-> r.rt, sid |-> r.sid,
          new |-> r.new, tries |-> r.tries]
  BY <1>3
<1> QED BY <1>1, <1>2, <1>4 DEF KindFits

LEMMA QueueStep ==
    ASSUME TInv, TInv', QInv, [Next]_vars
    PROVE  QInv'
<1>f. \A st, kind, tok, cook, tries : /\ Fresh(st, kind, tok, cook, tries).st = st
                                      /\ Fresh(st, kind, tok, cook, tries).kind = kind
  BY DEF Fresh
<1>h. \A c, st, cook, sid, new : /\ Holds(c, st, cook, sid, new).st = st
                                 /\ Holds(c, st, cook, sid, new).kind = call[c].kind
  BY DEF Holds
<1>i. Idle.st = "idle"
  BY DEF Idle, Fresh
<1>r. RefreshStages = {"refresh", "consumed", "issue", "store", "renewed", "denied"}
  BY DEF RefreshStages
\* The steps of one call that no refresh of its tab depends on.
<1>1. ASSUME NEW c \in Calls, NEW st \in {"sent", "idle", "ok", "bad", "lost", "drop", "end"},
             NEW r, r.st = st, Becomes(c, r), UNCHANGED refreshing, ~Leads(c)
      PROVE  QInv'
  <2>1. KindFits(r)
    BY <1>1 DEF KindFits
  <2> QED BY <1>1, <1>r, <2>1, QueueKept
\* The steps of a refresh, or of a login.
<1>2. ASSUME NEW c \in Calls, call[c].st \in RefreshStages, NEW st \in RefreshStages \ {"refresh"},
             NEW r, r.st = st, r.kind = call[c].kind, Becomes(c, r), UNCHANGED refreshing,
             call[c].st \in {"issue", "store", "renewed"} => st \in {"issue", "store", "renewed"}
      PROVE  QInv'
  <2>1. KindFits(r)
    BY <1>2, <1>r DEF KindFits, QInv
  <2>2. r.st # "queued"
    BY <1>2, <1>r
  <2> QED BY <1>2, <2>1, <2>2, QueueKept DEF Leads
<1>3. ASSUME NEW c \in Calls,
             Ask(c) \/ Login(c) \/ Logout(c) \/ Succeed(c) \/ Fail(c) \/ Drain(c)
      PROVE  QInv'
  <2>1. UNCHANGED refreshing /\ ~Leads(c)
    BY <1>3, <1>r DEF Ask, Login, Logout, Succeed, Fail, Drain, browserVars, Leads, At
  <2>2. \/ Becomes(c, Idle) \/ Becomes(c, Sent("api", token, 0))
        \/ Becomes(c, Sent("login", token, 0))
        \/ Becomes(c, Fresh("sent", "logout", token, cookie, 0))
    BY <1>3 DEF Ask, Login, Logout, Succeed, Fail, Drain, Reject
  <2> QED BY <1>1, <1>f, <1>i, <2>1, <2>2 DEF Sent
<1>4. ASSUME NEW c \in Calls, Answer(c) PROVE QInv'
  <2>1. UNCHANGED refreshing /\ ~Leads(c)
    BY <1>4, <1>r DEF Answer, browserVars, Leads, At
  <2>2. Answered(c, "ok") \/ Answered(c, "bad")
    BY <1>4 DEF Answer
  <2> QED BY <1>1, <1>f, <2>1, <2>2 DEF Answered
<1>5. ASSUME NEW c \in Calls, Authenticate(c) PROVE QInv'
  <2>1. UNCHANGED refreshing /\ ~Leads(c) /\ call[c].kind = "login"
    BY <1>5, <1>r DEF Authenticate, browserVars, Leads, At
  <2>2. CASE Answered(c, "bad")
    BY <1>1, <1>f, <2>1, <2>2 DEF Answered
  <2>3. CASE Becomes(c, Holds(c, "issue", 0, opened + 1, 0))
    <3>1. KindFits(Holds(c, "issue", 0, opened + 1, 0))
      BY <1>h, <2>1 DEF KindFits
    <3> QED BY <1>h, <2>1, <2>3, <3>1, QueueKept
  <2> QED BY <1>5, <2>2, <2>3 DEF Authenticate
<1>6. ASSUME NEW c \in Calls, Consume(c) PROVE QInv'
  <2>1. UNCHANGED refreshing /\ call[c].st = "refresh"
    BY <1>6 DEF Consume, browserVars, At
  <2>2. CASE To(c, "consumed")
    <3> DEFINE r == [call[c] EXCEPT !.st = "consumed"]
    <3>1. r.st = "consumed" /\ r.kind = call[c].kind
      BY Facts, GoodFields DEF Call
    <3>2. Becomes(c, r)
      BY <2>2 DEF To
    <3> HIDE DEF r
    <3> QED BY <1>2, <1>r, <2>1, <3>1, <3>2
  <2>3. CASE Answered(c, "denied")
    BY <1>2, <1>f, <1>r, <2>1, <2>3 DEF Answered
  <2> QED BY <1>6, <2>2, <2>3 DEF Consume
<1>7. ASSUME NEW c \in Calls, Validate(c) PROVE QInv'
  <2>1. UNCHANGED refreshing /\ call[c].st = "consumed"
    BY <1>7 DEF Validate, browserVars, At
  <2>2. \/ Becomes(c, Holds(c, "issue", call[c].rt, sidOf[call[c].rt], 0))
        \/ Answered(c, "denied")
    BY <1>7 DEF Validate
  <2> QED BY <1>2, <1>f, <1>h, <1>r, <2>1, <2>2 DEF Answered
<1>8. ASSUME NEW c \in Calls, Start(c) PROVE QInv'
  <2>1. UNCHANGED refreshing /\ call[c].st = "issue"
    BY <1>8 DEF Start, browserVars, At
  <2>2. Becomes(c, Holds(c, "store", call[c].rt, 0, minted + 1))
    BY <1>8 DEF Start
  <2> QED BY <1>2, <1>h, <1>r, <2>1, <2>2
<1>9. ASSUME NEW c \in Calls, Store(c) PROVE QInv'
  <2>1. UNCHANGED refreshing /\ call[c].st = "store"
    BY <1>9 DEF Store, browserVars, At
  <2> DEFINE r == [call[c] EXCEPT !.st = "renewed"]
  <2>2. r.st = "renewed" /\ r.kind = call[c].kind
    BY Facts, GoodFields DEF Call
  <2>3. Becomes(c, r)
    BY <1>9 DEF Store, To
  <2> HIDE DEF r
  <2> QED BY <1>2, <1>r, <2>1, <2>2, <2>3
<1>10. ASSUME NEW c \in Calls, Revoke(c) \/ Drop(c) \/ End(c) PROVE QInv'
  <2>1. UNCHANGED refreshing /\ ~Leads(c)
    BY <1>10, <1>r DEF Revoke, Drop, End, browserVars, Leads, At
  <2>2. \/ \E cook, sid : Becomes(c, Holds(c, "drop", cook, sid, 0))
        \/ \E cook, sid : Becomes(c, Holds(c, "end", cook, sid, 0))
        \/ Answered(c, "ok")
    BY <1>10 DEF Revoke, Drop, End
  <2> QED BY <1>1, <1>f, <1>h, <2>1, <2>2 DEF Answered
<1>11. ASSUME NEW c \in Calls, Break(c) PROVE QInv'
  <2>1. UNCHANGED refreshing
    BY <1>11 DEF Break, browserVars
  <2>2. CASE Leads(c)
    <3>1. Answered(c, "denied")
      BY <1>11, <2>2 DEF Break
    <3> DEFINE r == Fresh("denied", call[c].kind, 0, 0, call[c].tries)
    <3>2. r.st = "denied" /\ r.kind = call[c].kind /\ call[c].kind \in {"api", "me"}
      BY <1>f, <2>2 DEF Leads
    <3>3. Becomes(c, r)
      BY <3>1 DEF Answered
    <3> HIDE DEF r
    <3>4. KindFits(r)
      BY <3>2 DEF KindFits
    <3> QED BY <1>r, <2>1, <2>2, <3>2, <3>3, <3>4, QueueKept
  <2>3. CASE ~Leads(c)
    <3>1. Answered(c, "lost")
      BY <1>11, <2>3 DEF Break
    <3> QED BY <1>1, <1>f, <2>1, <2>3, <3>1 DEF Answered
  <2> QED BY <2>2, <2>3
\* A call joins the queue of its tab, or starts the refresh there was none of.
<1>12. ASSUME NEW c \in Calls, Queue(c) PROVE QInv'
  <2>1. /\ UNCHANGED refreshing /\ ~Leads(c) /\ refreshing[TabOf[c]]
        /\ Becomes(c, Fresh("queued", call[c].kind, 0, 0, 1))
    BY <1>12, <1>r DEF Queue, MayRefresh, browserVars, Leads, At
  <2>2. KindFits(Fresh("queued", call[c].kind, 0, 0, 1))
    BY <1>12, <1>f DEF Queue, MayRefresh, KindFits
  <2> QED BY <1>f, <1>r, <2>1, <2>2, QueueKept
<1>13. ASSUME NEW c \in Calls, Lead(c) PROVE QInv'
  <2> DEFINE r == Fresh("refresh", call[c].kind, 0, cookie, 1)
  <2>1. /\ ~refreshing[TabOf[c]] /\ refreshing' = [refreshing EXCEPT ![TabOf[c]] = TRUE]
        /\ Becomes(c, r) /\ r.st = "refresh" /\ r.kind \in {"api", "me"}
    BY <1>13, <1>f DEF Lead, MayRefresh
  <2> HIDE DEF r
  <2>2. call'[c] = r /\ \A d \in Calls \ {c} : call'[d] = call[d]
    BY <2>1, BecomesFields
  <2>3. TabOf[c] \in Tabs /\ \A d \in Calls : TabOf[d] \in Tabs
    BY ConstantsAssumption
  <2>4. \A t \in Tabs : refreshing'[t] = (t = TabOf[c] \/ refreshing[t])
    BY <2>1, <2>3 DEF TInv, TypeOK
  <2>5. /\ Leads(c)' /\ ~Waits(c)'
        /\ \A d \in Calls \ {c} : (Leads(d)' <=> Leads(d)) /\ (Waits(d)' <=> Waits(d))
    BY <1>r, <2>1, <2>2 DEF Leads, Waits
  <2>6. \A d \in Calls : TabOf[d] = TabOf[c] => ~Leads(d)
    BY <2>1 DEF QInv
  <2>7. \A d \in Calls : KindFits(call'[d])
    BY <2>1, <2>2 DEF QInv, KindFits
  <2>8. \A d, e \in Calls : Leads(d)' /\ Leads(e)' /\ TabOf[d] = TabOf[e] => d = e
    BY <2>5, <2>6 DEF QInv
  <2>9. \A d \in Calls : Leads(d)' \/ Waits(d)' => refreshing'[TabOf[d]]
    BY <2>3, <2>4, <2>5 DEF QInv
  <2>10. \A t \in Tabs : refreshing'[t] => \E d \in Calls : TabOf[d] = t /\ Leads(d)'
    BY <2>4, <2>5 DEF QInv
  <2> QED BY <2>7, <2>8, <2>9, <2>10 DEF QInv, KindFits
<1>14. ASSUME NEW c \in Calls, Renew(c) PROVE QInv'
  <2>1. call[c].st = "renewed" /\ call[c].kind # "gone" /\ call[c].kind # "logout"
    BY <1>14 DEF Renew, At, QInv, KindFits
  <2>2. CASE call[c].kind = "login"
    <3>1. Becomes(c, Sent("me", call[c].new, 0)) /\ UNCHANGED refreshing
      BY <1>14, <2>2 DEF Renew
    <3>2. ~Leads(c)
      BY <2>2 DEF Leads
    <3> QED BY <1>1, <1>f, <3>1, <3>2 DEF Sent
  <2>3. CASE call[c].kind # "login"
    <3>1. /\ refreshing' = [refreshing EXCEPT ![TabOf[c]] = FALSE]
          /\ call' = [d \in Calls |-> IF d \in Resent(c)
                                      THEN Sent(call[d].kind, call[c].new, 1) ELSE call[d]]
      BY <1>14, <2>3 DEF Renew
    <3>2. Leads(c)
      <4>1. call[c].kind \in {"api", "me", "login", "logout", "gone"}
        BY Facts, GoodFields DEF Kinds
      <4> QED BY <1>r, <2>1, <2>3, <4>1 DEF Leads
    <3>3. \A d \in Calls : TabOf[d] # TabOf[c] => call'[d] = call[d]
      BY <3>1 DEF Resent, Waiting, Mine
    <3>4. \A d \in Calls : call'[d] = call[d] \/ call'[d].st = "sent"
      BY <1>f, <3>1 DEF Sent
    <3>5. ASSUME NEW d \in Calls, TabOf[d] = TabOf[c] PROVE ~Leads(d)' /\ ~Waits(d)'
      <4>1. CASE d \in Resent(c)
        <5>1. call'[d].st = "sent"
          BY <1>f, <3>1, <4>1 DEF Sent
        <5> QED BY <1>r, <5>1 DEF Leads, Waits
      <4>2. CASE d \notin Resent(c)
        <5>1. d # c /\ ~Waits(d) /\ call'[d] = call[d]
          BY <3>1, <3>5, <4>2 DEF Resent, Waiting, Mine, Waits, At
        <5>2. ~Leads(d)
          BY <3>2, <3>5, <5>1 DEF QInv
        <5> QED BY <5>1, <5>2 DEF Leads, Waits
      <4> QED BY <4>1, <4>2
    <3>6. \A d \in Calls : KindFits(call'[d])
      BY <3>4 DEF QInv, KindFits
    <3>7. TabOf[c] \in Tabs
      BY ConstantsAssumption
    <3> QED BY <3>1, <3>3, <3>5, <3>6, <3>7, QueueEmptied
  <2> QED BY <2>2, <2>3
\* A page is left.
<1>l. ASSUME NEW t \in Tabs, refreshing' = [refreshing EXCEPT ![t] = FALSE],
             \A d \in Calls : \/ d \in Mine(t) /\ call'[d] = Left(d)
                              \/ d \notin Mine(t) /\ call'[d] = call[d]
                              \/ TabOf[d] = t /\ call'[d].st = "sent"
      PROVE  QInv'
  <2>1. \A d \in Calls : TabOf[d] # t => call'[d] = call[d]
    BY <1>l DEF Mine
  <2>2. ASSUME NEW d \in Calls, TabOf[d] = t PROVE ~Leads(d)' /\ ~Waits(d)'
    <3>1. call'[d].kind = "gone" \/ call'[d].st \in {"idle", "sent"}
      BY <1>l, <1>i, <2>2, LeftIsQuiet DEF Mine
    <3> QED BY <1>r, <3>1 DEF Leads, Waits
  <2>3. \A d \in Calls : KindFits(call'[d])
    <3> TAKE d \in Calls
    <3>1. KindFits(call[d]) /\ KindFits(Left(d))
      BY LeftIsQuiet DEF QInv
    <3>2. call'[d] = call[d] \/ call'[d] = Left(d) \/ call'[d].st = "sent"
      BY <1>l
    <3> QED BY <3>1, <3>2 DEF KindFits
  <2> QED BY <1>l, <2>1, <2>2, <2>3, QueueEmptied
<1>15. ASSUME NEW c \in Calls, Deny(c) PROVE QInv'
  <2>1. /\ refreshing' = [refreshing EXCEPT ![TabOf[c]] = FALSE]
        /\ \A d \in Calls : call'[d] = IF d \in Mine(TabOf[c]) THEN Left(d) ELSE call[d]
    BY <1>15 DEF Deny
  <2>2. TabOf[c] \in Tabs
    BY ConstantsAssumption
  <2> QED BY <1>l, <2>1, <2>2
<1>16. ASSUME NEW t \in Tabs, Open(t) PROVE QInv'
  <2>1. refreshing' = [refreshing EXCEPT ![t] = FALSE]
    BY <1>16 DEF Open
  <2>2. CASE token = 0
    <3>1. \A d \in Calls : call'[d] = IF d \in Mine(t) THEN Left(d) ELSE call[d]
      BY <1>16, <2>2 DEF Open
    <3> QED BY <1>l, <2>1, <3>1
  <2>3. CASE token # 0
    <3>1. PICK c \in Calls :
             /\ TabOf[c] = t
             /\ call' = [d \in Calls |-> IF d = c THEN Sent("me", token, 0)
                                         ELSE IF d \in Mine(t) THEN Left(d) ELSE call[d]]
      BY <1>16, <2>3 DEF Open
    <3>2. \A d \in Calls : call'[d] = IF d = c THEN Sent("me", token, 0)
                                      ELSE IF d \in Mine(t) THEN Left(d) ELSE call[d]
      BY <3>1
    <3>3. call'[c].st = "sent"
      BY <1>f, <3>2 DEF Sent
    <3> QED BY <1>l, <2>1, <3>1, <3>2, <3>3
  <2> QED BY <2>2, <2>3
<1>17. ASSUME UNCHANGED <<call, refreshing>> PROVE QInv'
  BY <1>17 DEF QInv, Leads, Waits, KindFits
<1>18. CASE Ambient \/ UNCHANGED vars
  BY <1>17, <1>18 DEF Ambient, ExpireToken, IdleOut, AgeOut, Deactivate, RedisDown, RedisUp,
     vars, browserVars
<1> QED
  BY <1>3, <1>4, <1>5, <1>6, <1>7, <1>8, <1>9, <1>10, <1>11, <1>12, <1>13, <1>14, <1>15, <1>16,
     <1>18 DEF Next, Handle, Settle

\* For any number of tabs and calls, and whatever page is left or handler
\* breaks: a tab has one refresh at a time, _refreshing says whether it has
\* one, and no call is parked without one.
THEOREM QueuedAlwaysHaveLeader == Spec => []QueuedHaveLeader
<1>1. Init => TInv /\ QInv
  BY InitType, InitQueue
<1>2. TInv /\ QInv /\ [Next]_vars => (TInv /\ QInv)'
  BY TypeStep, QueueStep
<1>3. QInv => QueuedHaveLeader
  <2> SUFFICES ASSUME QInv, NEW t \in Tabs
               PROVE  /\ \A c, d \in Mine(t) : Leads(c) /\ Leads(d) => c = d
                      /\ \A c \in Mine(t) : Leads(c) => refreshing[t]
                      /\ refreshing[t] => \E c \in Mine(t) : Leads(c)
                      /\ \A c \in Mine(t) : At(c, "queued") => refreshing[t]
    BY DEF QueuedHaveLeader
  <2> QED BY DEF QInv, Mine, Leads, Waits, At
<1> QED BY <1>1, <1>2, <1>3, PTL DEF Spec

-----------------------------------------------------------------------------
(* Why a refresh is refused.                                                *)

\* A handler has minted pair n and the page has not heard of it yet.
Pends(c, n) == call[c].st \in {"store", "renewed"} /\ call[c].new = n
\* The refresh of tab t with token n: past the single-use check, or before it.
Serves(c, t, n) == /\ TabOf[c] = t /\ Leads(c) /\ call[c].rt = n
                   /\ call[c].st \in {"consumed", "issue", "store", "renewed"}
Sends(c, t, n) == TabOf[c] = t /\ Leads(c) /\ call[c].rt = n /\ call[c].st = "refresh"

\* A pair no page has heard of was never used.
NewUnseen ==
    \A c \in Calls, n \in Pairs : Pends(c, n) =>
        /\ cookie # n /\ spentBy[n] = {}
        /\ \A d \in Calls : call[d].rt # n /\ (Pends(d, n) => d = c)
SpentExist == \A n \in Pairs : spentBy[n] # {} => n <= minted
\* A token only tab t has spent is out of the browser's hands: its refresh is
\* still on the way, or its answer has replaced the cookie.
SpenderHears ==
    \A n \in Pairs, t \in Tabs : spentBy[n] = {t} /\ n \notin forgone =>
        \/ \E c \in Calls : Serves(c, t, n)
        \/ cookie # n /\ \A c \in Calls : ~Sends(c, t, n)
\* A token the browser has, or is about to get, was stored once: if it is not
\* stored any more, a refresh spent it or the browser was left with it.
Accounted(n) == n \in rt \/ n \in forgone \/ spentBy[n] # {}
Answers(c, n) == call[c].st = "renewed" /\ call[c].new = n
HeldAccounted ==
    \A n \in Pairs :
        cookie = n \/ (\E c \in Calls : call[c].rt = n \/ Answers(c, n)) => Accounted(n)
Orphan(c) == call[c].kind = "gone" /\ call[c].st = "refresh" /\ call[c].rt # 0
OrphansForgone == \A c \in Calls : Orphan(c) => call[c].rt \in forgone
Causes == NewUnseen /\ SpentExist /\ SpenderHears /\ HeldAccounted /\ OrphansForgone

\* A step in which no token is spent.
LEMMA CausesKept ==
    ASSUME TInv, TInv', Causes, minted' \in minted .. MaxPairs, UNCHANGED spentBy,
           forgone \subseteq forgone', rt \subseteq rt' \cup forgone',
           \/ cookie' \in {0, cookie}
           \/ /\ cookie' \in Pairs /\ \E c \in Calls : Answers(c, cookie')
              /\ \A n \in Pairs : n = cookie' => \A d \in Calls : ~Pends(d, n)',
           \A d \in Calls : call'[d].rt \in {0, cookie, call[d].rt},
           \A d \in Calls, n \in Pairs : Pends(d, n)' =>
              Pends(d, n) \/ (n = minted + 1 /\ \A e \in Calls : Pends(e, n)' => e = d),
           \A d \in Calls, n \in Pairs : Answers(d, n)' =>
              Answers(d, n) \/ n \in rt' \cup forgone',
           \A d \in Calls, t \in Tabs, n \in Pairs : Sends(d, t, n)' =>
              Sends(d, t, n) \/ n = cookie,
           \A d \in Calls, t \in Tabs, n \in Pairs : Serves(d, t, n) =>
              \/ Serves(d, t, n)' \/ n \in forgone'
              \/ (cookie' # n /\ \A e \in Calls : ~Sends(e, t, n)'),
           \A d \in Calls : Orphan(d)' =>
              (Orphan(d) /\ call'[d].rt = call[d].rt) \/ call'[d].rt \in forgone'
    PROVE  Causes'
<1>f. /\ minted \in 0 .. MaxPairs /\ token \in 0 .. minted /\ cookie \in 0 .. minted
      /\ \A c \in Calls : call[c].rt \in 0 .. minted /\ call[c].new \in 0 .. minted
  <2>1. \A c \in Calls : call[c].rt \in 0 .. minted /\ call[c].new \in 0 .. minted
    BY Facts, GoodFields
  <2> QED BY <2>1, Facts
<1>p. \A n \in Pairs : n # 0 /\ n \in Nat
  BY DEF Pairs
\* A cookie that is new to the browser is a pair that was on its way to it.
<1>k. \/ cookie' \in {0, cookie}
      \/ \E c \in Calls : Answers(c, cookie') /\ Pends(c, cookie') /\ cookie' \in Pairs
  BY DEF Answers, Pends
<1>a. \A n \in Pairs : Accounted(n) => Accounted(n)'
  BY DEF Accounted
<1>1. NewUnseen'
  <2> SUFFICES ASSUME NEW c \in Calls, NEW n \in Pairs, Pends(c, n)'
               PROVE  /\ cookie' # n /\ spentBy[n] = {}
                      /\ \A d \in Calls : call'[d].rt # n /\ (Pends(d, n)' => d = c)
    BY DEF NewUnseen
  <2>1. CASE Pends(c, n)
    <3>1. /\ cookie # n /\ spentBy[n] = {} /\ n <= minted
          /\ \A d \in Calls : call[d].rt # n /\ (Pends(d, n) => d = c)
      BY <2>1, <1>f DEF Causes, NewUnseen, Pends
    <3>2. n # minted + 1
      BY <3>1, <1>f, <1>p
    <3>3. cookie' # n
      BY <3>1, <1>p
    <3> QED BY <3>1, <3>2, <3>3, <1>p
  <2>2. CASE ~Pends(c, n)
    <3>1. n = minted + 1 /\ \A e \in Calls : Pends(e, n)' => e = c
      BY <2>2
    <3>2. spentBy[n] = {}
      BY <3>1, <1>f DEF Causes, SpentExist
    <3>3. cookie # n /\ \A d \in Calls : call[d].rt # n
      BY <3>1, <1>f
    <3>4. cookie' # n
      BY <3>3, <1>p
    <3> QED BY <3>1, <3>2, <3>3, <3>4, <1>p
  <2> QED BY <2>1, <2>2
<1>2. SpentExist'
  BY <1>f, <1>p DEF Causes, SpentExist
<1>3. SpenderHears'
  <2> SUFFICES ASSUME NEW n \in Pairs, NEW t \in Tabs, spentBy[n] = {t}, n \notin forgone'
               PROVE  \/ \E c \in Calls : Serves(c, t, n)'
                      \/ cookie' # n /\ \A c \in Calls : ~Sends(c, t, n)'
    BY DEF SpenderHears
  <2>1. n \notin forgone
    OBVIOUS
  <2>2. CASE \E c \in Calls : Serves(c, t, n)
    BY <2>2
  <2>3. CASE cookie # n /\ \A c \in Calls : ~Sends(c, t, n)
    <3>1. \A c \in Calls : ~Sends(c, t, n)'
      BY <2>3
    <3>2. cookie' # n
      <4>1. ASSUME NEW c \in Calls PROVE ~Pends(c, n)
        BY DEF Causes, NewUnseen
      <4> QED BY <2>3, <4>1, <1>k, <1>p
    <3> QED BY <3>1, <3>2
  <2> QED BY <2>1, <2>2, <2>3 DEF Causes, SpenderHears
<1>4. HeldAccounted'
  <2> SUFFICES ASSUME NEW n \in Pairs,
                      \/ cookie' = n
                      \/ \E c \in Calls : call'[c].rt = n \/ Answers(c, n)'
               PROVE  Accounted(n)'
    BY DEF HeldAccounted
  <2>1. ASSUME \/ cookie = n
               \/ \E c \in Calls : call[c].rt = n \/ Answers(c, n)
        PROVE Accounted(n)'
    BY <2>1, <1>a DEF Causes, HeldAccounted
  <2>2. CASE cookie' = n
    BY <2>1, <2>2, <1>k, <1>p
  <2>3. ASSUME NEW c \in Calls, call'[c].rt = n PROVE Accounted(n)'
    BY <2>1, <2>3, <1>p
  <2>4. ASSUME NEW c \in Calls, Answers(c, n)' PROVE Accounted(n)'
    <3>1. CASE Answers(c, n)
      BY <2>1, <3>1
    <3>2. CASE n \in rt' \cup forgone'
      BY <3>2 DEF Accounted
    <3> QED BY <2>4, <3>1, <3>2
  <2> QED BY <2>2, <2>3, <2>4
<1>5. OrphansForgone'
  BY DEF Causes, OrphansForgone
<1> QED BY <1>1, <1>2, <1>3, <1>4, <1>5 DEF Causes

Served == {"consumed", "issue", "store", "renewed"}

\* A step of one call in which no token is spent and no answer arrives.
LEMMA CausesOfOne ==
    ASSUME TInv, TInv', Causes, NEW c \in Calls, NEW r, Becomes(c, r),
           minted' \in minted .. MaxPairs, UNCHANGED spentBy, cookie' \in {0, cookie},
           forgone \subseteq forgone', rt \subseteq rt' \cup forgone',
           r.rt \in {0, cookie, call[c].rt},
           r.st \in {"store", "renewed"} =>
              (call[c].st \in {"store", "renewed"} /\ r.new = call[c].new) \/ r.new = minted + 1,
           r.st = "renewed" => r.new \in rt' \cup forgone',
           r.st = "refresh" => r.rt = cookie /\ r.kind # "gone",
           Leads(c) /\ call[c].st \in Served =>
              \/ r.st \in Served /\ r.kind = call[c].kind /\ r.rt = call[c].rt
              \/ call[c].rt \in forgone' \cup {0}
    PROVE  Causes'
<1>1. call'[c] = r /\ \A d \in Calls \ {c} : call'[d] = call[d]
  BY BecomesFields
<1>2. \A d \in Calls : call'[d].rt \in {0, cookie, call[d].rt}
  BY <1>1
<1>3. ASSUME NEW d \in Calls, NEW n \in Pairs, Pends(d, n)'
      PROVE  Pends(d, n) \/ (n = minted + 1 /\ \A e \in Calls : Pends(e, n)' => e = d)
  <2>1. CASE d # c
    BY <1>1, <1>3, <2>1 DEF Pends
  <2>2. CASE d = c /\ n = minted + 1
    <3>1. minted \in Nat /\ \A e \in Calls : call[e].new \in 0 .. minted
      BY Facts, GoodFields
    <3>2. \A e \in Calls : ~Pends(e, n)
      BY <2>2, <3>1 DEF Pends
    <3> QED BY <1>1, <2>2, <3>2 DEF Pends
  <2>3. CASE d = c /\ n # minted + 1
    BY <1>1, <1>3, <2>3 DEF Pends
  <2> QED BY <2>1, <2>2, <2>3
<1>4. \A d \in Calls, n \in Pairs : Answers(d, n)' => Answers(d, n) \/ n \in rt' \cup forgone'
  BY <1>1 DEF Answers
<1>5. \A d \in Calls, t \in Tabs, n \in Pairs : Sends(d, t, n)' => Sends(d, t, n) \/ n = cookie
  BY <1>1 DEF Sends, Leads
<1>6. ASSUME NEW d \in Calls, NEW t \in Tabs, NEW n \in Pairs, Serves(d, t, n)
      PROVE  Serves(d, t, n)' \/ n \in forgone'
  <2>1. n # 0
    BY DEF Pairs
  <2>2. CASE d # c
    BY <1>1, <1>6, <2>2 DEF Serves, Leads
  <2>3. CASE d = c
    BY <1>1, <1>6, <2>1, <2>3 DEF Serves, Leads, Served, RefreshStages
  <2> QED BY <2>2, <2>3
<1>7. \A d \in Calls : Orphan(d)' => Orphan(d) /\ call'[d].rt = call[d].rt
  BY <1>1 DEF Orphan
<1> QED BY <1>2, <1>3, <1>4, <1>5, <1>6, <1>7, CausesKept

LEMMA CausesStep ==
    ASSUME TInv, TInv', QInv, QInv', Causes, [Next]_vars
    PROVE  Causes' /\ (RefusedForACause => RefusedForACause')
<1>f. /\ minted \in 0 .. MaxPairs /\ minted \in minted .. MaxPairs
      /\ minted' \in minted .. MaxPairs /\ cookie \in 0 .. minted
      /\ \A c \in Calls : /\ call[c].rt \in 0 .. minted /\ call[c].new \in 0 .. minted
                          /\ call[c].st = "consumed" => call[c].rt # 0
                          /\ call[c].st = "store" => call[c].new # 0
  <2>1. \A c \in Calls : /\ call[c].rt \in 0 .. minted /\ call[c].new \in 0 .. minted
                         /\ call[c].st = "consumed" => call[c].rt # 0
                         /\ call[c].st = "store" => call[c].new # 0
    <3> TAKE c \in Calls
    <3> QED BY Facts, GoodFields
  <2> QED BY <2>1, Facts, CallsStep
<1>p. \A n : n \in 0 .. minted /\ n # 0 => n \in Pairs
  BY <1>f, ConstantsAssumption DEF Pairs
<1>r. /\ \A st, kind, tok, cook, tries :
            /\ Fresh(st, kind, tok, cook, tries).st = st
            /\ Fresh(st, kind, tok, cook, tries).rt = cook
            /\ Fresh(st, kind, tok, cook, tries).kind = kind
      /\ \A c, st, cook, sid, new :
            /\ Holds(c, st, cook, sid, new).st = st /\ Holds(c, st, cook, sid, new).rt = cook
            /\ Holds(c, st, cook, sid, new).new = new
            /\ Holds(c, st, cook, sid, new).kind = call[c].kind
      /\ Idle.st = "idle" /\ Idle.rt = 0
  BY DEF Fresh, Holds, Idle
<1>s. /\ RefreshStages = {"refresh", "consumed", "issue", "store", "renewed", "denied"}
      /\ Served = {"consumed", "issue", "store", "renewed"}
  BY DEF RefreshStages, Served
\* The history only grows.
<1>h. ASSUME UNCHANGED <<spentBy, refused>>, forgone \subseteq forgone', RefusedForACause
      PROVE  RefusedForACause'
  BY <1>h DEF RefusedForACause
\* Most steps of one call: it does not refresh before or after, or it is
\* answered and its token given up.
<1>1. ASSUME NEW c \in Calls, NEW r, Becomes(c, r), UNCHANGED spentBy, cookie' \in {0, cookie},
             forgone \subseteq forgone', rt \subseteq rt' \cup forgone',
             r.st \notin {"refresh", "store", "renewed"}, r.rt \in {0, cookie, call[c].rt},
             Leads(c) /\ call[c].st \in Served => call[c].rt \in forgone' \cup {0}
      PROVE  Causes'
  BY <1>1, <1>f, CausesOfOne
<1>2. ASSUME NEW c \in Calls,
             Ask(c) \/ Login(c) \/ Logout(c) \/ Succeed(c) \/ Fail(c) \/ Drain(c)
                \/ Queue(c) \/ Answer(c) \/ Authenticate(c)
      PROVE  Causes' /\ UNCHANGED <<spentBy, refused, forgone>>
  <2>1. UNCHANGED <<spentBy, refused, forgone, rt>> /\ cookie' \in {0, cookie}
    <3>1. UNCHANGED <<historyVars, redisVars>>
      BY <1>2 DEF Ask, Login, Logout, Succeed, Fail, Drain, Queue, Answer, Authenticate
    <3>2. cookie' \in {0, cookie}
      BY <1>2 DEF Ask, Login, Logout, Succeed, Fail, Drain, Queue, Answer, Authenticate,
         browserVars
    <3> QED BY <3>1, <3>2 DEF historyVars, redisVars
  <2>2. ~Leads(c)
    BY <1>2, <1>s DEF Ask, Login, Logout, Succeed, Fail, Drain, Queue, Answer, Authenticate,
       MayRefresh, Leads, At
  <2>3. \/ Becomes(c, Idle) \/ Becomes(c, Sent("api", token, 0))
        \/ Becomes(c, Sent("login", token, 0))
        \/ Becomes(c, Fresh("sent", "logout", token, cookie, 0))
        \/ Becomes(c, Fresh("queued", call[c].kind, 0, 0, 1))
        \/ Becomes(c, Holds(c, "issue", 0, opened + 1, 0))
        \/ \E st \in {"ok", "bad"} : Becomes(c, Fresh(st, call[c].kind, 0, 0, call[c].tries))
    BY <1>2 DEF Ask, Login, Logout, Succeed, Fail, Drain, Queue, Answer, Authenticate,
       Reject, Answered
  <2>4. PICK q : /\ Becomes(c, q) /\ q.st \notin {"refresh", "store", "renewed"}
                 /\ q.rt \in {0, cookie}
    BY <2>3, <1>r DEF Sent
  <2> QED BY <2>1, <2>2, <2>4, <1>1
<1>3. ASSUME NEW c \in Calls, Lead(c) PROVE Causes' /\ UNCHANGED <<spentBy, refused, forgone>>
  <2> DEFINE r == Fresh("refresh", call[c].kind, 0, cookie, 1)
  <2>1. UNCHANGED <<spentBy, refused, forgone, rt, cookie>>
    BY <1>3 DEF Lead, historyVars, redisVars
  <2>2. /\ Becomes(c, r) /\ r.st = "refresh" /\ r.rt = cookie /\ r.kind # "gone"
        /\ ~Leads(c)
    BY <1>3, <1>r, <1>s DEF Lead, MayRefresh, Leads, At
  <2> HIDE DEF r
  <2> QED BY <2>1, <2>2, <1>f, CausesOfOne
<1>4. ASSUME NEW c \in Calls, Revoke(c) \/ Drop(c) \/ End(c) PROVE
             Causes' /\ UNCHANGED <<spentBy, refused>> /\ forgone \subseteq forgone'
  <2>1. /\ UNCHANGED <<spentBy, refused, cookie>> /\ forgone \subseteq forgone'
        /\ rt \subseteq rt' \cup forgone'
    <3>1. CASE Revoke(c) \/ End(c)
      BY <3>1 DEF Revoke, End, historyVars, browserVars
    <3>2. CASE Drop(c)
      <4>1. /\ UNCHANGED <<spentBy, refused, cookie>> /\ rt' = Without(call[c].rt)
            /\ forgone' = forgone \cup Token(call[c].rt)
        BY <3>2 DEF Drop, browserVars
      <4>2. rt \subseteq Pairs /\ 0 \notin Pairs
        BY DEF TInv, TypeOK, Pairs
      <4> QED BY <4>1, <4>2 DEF Without, Token
    <3> QED BY <1>4, <3>1, <3>2
  <2>2. ~Leads(c)
    BY <1>4, <1>s DEF Revoke, Drop, End, Leads, At
  <2>3. \/ \E sid : Becomes(c, Holds(c, "drop", call[c].rt, sid, 0))
        \/ \E sid : Becomes(c, Holds(c, "end", 0, sid, 0))
        \/ Becomes(c, Fresh("ok", call[c].kind, 0, 0, call[c].tries))
    BY <1>4 DEF Revoke, Drop, End, Answered
  <2>4. PICK q : /\ Becomes(c, q) /\ q.st \notin {"refresh", "store", "renewed"}
                 /\ q.rt \in {0, call[c].rt}
    BY <2>3, <1>r
  <2> QED BY <2>1, <2>2, <2>4, <1>1
<1>5. ASSUME NEW c \in Calls, Validate(c) PROVE
             Causes' /\ UNCHANGED <<spentBy, refused>> /\ forgone \subseteq forgone'
  <2>1. /\ UNCHANGED <<spentBy, refused, cookie, rt>> /\ forgone \subseteq forgone'
    BY <1>5 DEF Validate, browserVars, redisVars
  <2>2. call[c].st = "consumed" /\ call[c].rt # 0
    BY <1>5, <1>f DEF Validate, At
  <2>3. CASE Answered(c, "denied") /\ forgone' = forgone \cup Token(call[c].rt)
    <3>1. call[c].rt \in forgone'
      BY <2>2, <2>3 DEF Token
    <3>2. PICK q : Becomes(c, q) /\ q.st = "denied" /\ q.rt = 0
      BY <2>3, <1>r DEF Answered
    <3> QED BY <2>1, <3>1, <3>2, <1>1
  <2>4. CASE Becomes(c, Holds(c, "issue", call[c].rt, sidOf[call[c].rt], 0))
    <3>1. PICK q : Becomes(c, q) /\ q.st = "issue" /\ q.rt = call[c].rt /\ q.kind = call[c].kind
      BY <2>4, <1>r
    <3> QED BY <2>1, <3>1, <1>f, <1>s, CausesOfOne
  <2> QED BY <1>5, <2>3, <2>4 DEF Validate
<1>6. ASSUME NEW c \in Calls, Start(c) PROVE Causes' /\ UNCHANGED <<spentBy, refused, forgone>>
  <2>1. /\ UNCHANGED <<spentBy, refused, forgone, rt, cookie>> /\ call[c].st = "issue"
        /\ Becomes(c, Holds(c, "store", call[c].rt, 0, minted + 1))
    BY <1>6 DEF Start, At, historyVars, browserVars
  <2>2. PICK q : /\ Becomes(c, q) /\ q.st = "store" /\ q.rt = call[c].rt
                 /\ q.kind = call[c].kind /\ q.new = minted + 1
    BY <2>1, <1>r
  <2> QED BY <2>1, <2>2, <1>f, <1>s, CausesOfOne
<1>7. ASSUME NEW c \in Calls, Store(c) PROVE
             Causes' /\ UNCHANGED <<spentBy, refused>> /\ forgone \subseteq forgone'
  <2>1. /\ UNCHANGED <<spentBy, refused, cookie>> /\ call[c].st = "store"
        /\ forgone \subseteq forgone' /\ rt \subseteq rt' /\ call[c].new \in rt' \cup forgone'
    BY <1>7 DEF Store, At, browserVars
  <2> DEFINE r == [call[c] EXCEPT !.st = "renewed"]
  <2>2. Becomes(c, r)
    BY <1>7 DEF Store, To
  <2>3. /\ r.st = "renewed" /\ r.rt = call[c].rt /\ r.kind = call[c].kind
        /\ r.new = call[c].new
    BY Facts, GoodFields DEF Call
  <2> HIDE DEF r
  <2> QED BY <2>1, <2>2, <2>3, <1>f, <1>s, CausesOfOne
<1>8. ASSUME NEW c \in Calls, Break(c) PROVE
             Causes' /\ UNCHANGED <<spentBy, refused>> /\ forgone \subseteq forgone'
  <2>1. /\ UNCHANGED <<spentBy, refused, cookie, rt>> /\ forgone' = forgone \cup Unheard({c})
    BY <1>8 DEF Break, browserVars, redisVars
  <2>2. PICK q : /\ Becomes(c, q) /\ q.st \in {"denied", "lost"} /\ q.rt = 0
    BY <1>8, <1>r DEF Break, Answered
  <2>3. Leads(c) => call[c].rt \in forgone' \cup {0}
    BY <2>1 DEF Unheard, Token
  <2> QED BY <2>1, <2>2, <2>3, <1>1
<1>9. ASSUME NEW c \in Calls, Consume(c) PROVE Causes' /\ (RefusedForACause => RefusedForACause')
  <2> DEFINE n == call[c].rt
  <2>0. UNCHANGED <<cookie, forgone>> /\ call[c].st = "refresh"
    BY <1>9 DEF Consume, At, browserVars
  <2>1. CASE ~Stored(n)
    <3>1. /\ UNCHANGED <<rt, spentBy>> /\ Answered(c, "denied")
          /\ refused' = IF n = 0 \/ call[c].kind = "gone" THEN refused
                        ELSE refused \cup {<<TabOf[c], n>>}
      BY <1>9, <2>1 DEF Consume
    <3>2. PICK q : Becomes(c, q) /\ q.st = "denied" /\ q.rt = 0
      BY <3>1, <1>r DEF Answered
    <3>3. Causes'
      BY <2>0, <3>1, <3>2, <1>1, <1>s
    <3>4. ASSUME RefusedForACause, n # 0, call[c].kind # "gone"
          PROVE  n \in forgone \/ \E t \in spentBy[n] : t # TabOf[c]
      <4>1. n \in Pairs /\ n \notin rt
        BY <2>1, <3>4, <1>f, <1>p DEF Stored
      <4>2. n \in forgone \/ spentBy[n] # {}
        BY <4>1 DEF Causes, HeldAccounted, Accounted
      <4>3. TabOf[c] \in Tabs
        BY ConstantsAssumption
      <4>4. Leads(c) /\ Sends(c, TabOf[c], n)
        <5>1. call[c].kind \in {"api", "me"}
          BY <2>0, <3>4 DEF QInv, KindFits
        <5> QED BY <5>1, <2>0, <1>s DEF Leads, Sends
      <4>5. ~\E d \in Calls : Serves(d, TabOf[c], n)
        BY <2>0, <4>4 DEF QInv, Serves
      <4>6. spentBy[n] = {TabOf[c]} => n \in forgone
        BY <4>1, <4>3, <4>4, <4>5 DEF Causes, SpenderHears
      <4> QED BY <4>2, <4>6
    <3>5. ASSUME RefusedForACause PROVE RefusedForACause'
      <4> HIDE DEF n
      <4>1. ASSUME NEW b \in refused'
            PROVE  b[2] \in forgone \/ \E t \in spentBy[b[2]] : t # b[1]
        <5>1. CASE b \in refused
          BY <3>5, <5>1 DEF RefusedForACause
        <5>2. CASE b \notin refused
          <6>1. b = <<TabOf[c], n>> /\ n # 0 /\ call[c].kind # "gone"
            BY <3>1, <4>1, <5>2
          <6> QED BY <6>1, <3>4, <3>5
        <5> QED BY <5>1, <5>2
      <4> QED BY <4>1, <2>0, <3>1 DEF RefusedForACause
    <3> QED BY <3>3, <3>5
  <2>2. CASE Stored(n)
    <3>1. /\ To(c, "consumed") /\ n # 0 /\ UNCHANGED <<refused, minted>>
          /\ rt' = Without(n)
          /\ spentBy' = [spentBy EXCEPT ![n] = @ \cup {TabOf[c]}]
      BY <1>9, <2>2 DEF Consume, Stored, pairVars
    <3>2. n \in Pairs /\ n <= minted /\ TabOf[c] \in Tabs
      BY <3>1, <1>f, <1>p, ConstantsAssumption
    <3>3. \A m \in Pairs : spentBy'[m] = IF m = n THEN spentBy[n] \cup {TabOf[c]} ELSE spentBy[m]
      BY <3>1, <3>2 DEF TInv, TypeOK
    <3>4. /\ \A d \in Calls \ {c} : call'[d] = call[d]
          /\ call'[c].st = "consumed" /\ call'[c].rt = n /\ call'[c].new = call[c].new
      BY <3>1, ToFields
    <3>5. call'[c].kind = call[c].kind
      <4> DEFINE r == [call[c] EXCEPT !.st = "consumed"]
      <4>1. call'[c] = r
        BY <3>1, BecomesFields DEF To
      <4>2. r.kind = call[c].kind
        BY Facts, GoodFields DEF Call
      <4> QED BY <4>1, <4>2
    <3>6. \A d \in Calls : call'[d].rt = call[d].rt
      BY <3>4
    <3>8. call[c].rt = n
      OBVIOUS
    <3>9. n \in forgone \/ Leads(c)
      <4>1. call[c].kind \in {"api", "me", "gone"}
        BY <2>0 DEF QInv, KindFits
      <4> QED BY <4>1, <2>0, <3>1, <1>s DEF Causes, OrphansForgone, Orphan, Leads
    <3> HIDE DEF n
    <3>7. /\ \A d \in Calls, m \in Pairs : Pends(d, m)' <=> (Pends(d, m) /\ d # c)
          /\ \A d \in Calls, m \in Pairs : Answers(d, m)' => Answers(d, m)
          /\ \A d \in Calls, t \in Tabs, m \in Pairs : Sends(d, t, m)' => Sends(d, t, m)
          /\ \A d \in Calls, t \in Tabs, m \in Pairs : Serves(d, t, m) => Serves(d, t, m)'
          /\ \A d \in Calls : Orphan(d)' => Orphan(d)
      <4>1. /\ \A d \in Calls \ {c}, m \in Pairs : Pends(d, m)' <=> Pends(d, m)
            /\ \A d \in Calls \ {c}, m \in Pairs : Answers(d, m)' <=> Answers(d, m)
            /\ \A d \in Calls \ {c}, t \in Tabs, m \in Pairs : Sends(d, t, m)' <=> Sends(d, t, m)
            /\ \A d \in Calls \ {c}, t \in Tabs, m \in Pairs : Serves(d, t, m)' <=> Serves(d, t, m)
            /\ \A d \in Calls \ {c} : Orphan(d)' <=> Orphan(d)
        BY <3>4 DEF Pends, Answers, Sends, Serves, Orphan, Leads
      <4>2. /\ \A m \in Pairs : ~Pends(c, m)' /\ ~Answers(c, m)'
            /\ \A t \in Tabs, m \in Pairs : ~Sends(c, t, m)' /\ ~Serves(c, t, m)
            /\ ~Orphan(c)'
        BY <2>0, <3>4 DEF Pends, Answers, Sends, Serves, Orphan
      <4> QED BY <4>1, <4>2
    <3>10. NewUnseen'
      <4> SUFFICES ASSUME NEW d \in Calls, NEW m \in Pairs, Pends(d, m)'
                   PROVE  /\ cookie' # m /\ spentBy'[m] = {}
                          /\ \A e \in Calls : call'[e].rt # m /\ (Pends(e, m)' => e = d)
        BY DEF NewUnseen
      <4>1. /\ cookie # m /\ spentBy[m] = {}
            /\ \A e \in Calls : call[e].rt # m /\ (Pends(e, m) => e = d)
        BY <3>7 DEF Causes, NewUnseen
      <4>2. m # n
        BY <3>8, <4>1
      <4> QED BY <4>1, <4>2, <2>0, <3>3, <3>6, <3>7
    <3>11. SpentExist'
      BY <3>1, <3>2, <3>3 DEF Causes, SpentExist
    <3>12. SpenderHears'
      <4> SUFFICES ASSUME NEW m \in Pairs, NEW t \in Tabs, spentBy'[m] = {t}, m \notin forgone
                   PROVE  \/ \E d \in Calls : Serves(d, t, m)'
                          \/ cookie # m /\ \A d \in Calls : ~Sends(d, t, m)'
        BY <2>0 DEF SpenderHears
      <4>1. CASE m = n
        <5>1. t = TabOf[c] /\ Leads(c)
          BY <4>1, <3>3, <3>9
        <5>2. Serves(c, t, m)'
          <6>1. TabOf[c] = t /\ call'[c].kind \in {"api", "me"}
            BY <5>1, <3>5 DEF Leads
          <6>2. call'[c].rt = m /\ call'[c].st = "consumed"
            BY <4>1, <3>4
          <6> QED BY <6>1, <6>2, <1>s DEF Serves, Leads
        <5> QED BY <5>2
      <4>2. CASE m # n
        BY <4>2, <3>3, <3>7 DEF Causes, SpenderHears
      <4> QED BY <4>1, <4>2
    <3>13. HeldAccounted'
      <4>1. \A m \in Pairs : Accounted(m) => Accounted(m)'
        <5> SUFFICES ASSUME NEW m \in Pairs, Accounted(m) PROVE Accounted(m)'
          OBVIOUS
        <5>1. CASE m = n
          BY <5>1, <3>3 DEF Accounted
        <5>2. CASE m # n
          BY <5>2, <2>0, <3>1, <3>3 DEF Accounted, Without
        <5> QED BY <5>1, <5>2
      <4> QED BY <4>1, <2>0, <3>6, <3>7 DEF Causes, HeldAccounted
    <3>14. OrphansForgone'
      BY <2>0, <3>6, <3>7 DEF Causes, OrphansForgone
    <3>15. ASSUME RefusedForACause PROVE RefusedForACause'
      <4>1. refused \subseteq Tabs \X Pairs
        BY DEF TInv, TypeOK
      <4> QED BY <3>15, <4>1, <2>0, <3>1, <3>3 DEF RefusedForACause
    <3> QED BY <3>10, <3>11, <3>12, <3>13, <3>14, <3>15 DEF Causes
  <2> QED BY <2>1, <2>2
\* An answer arrives: the cookie becomes the new pair, and the tab has no
\* refresh any more.
<1>10. ASSUME NEW c \in Calls, Renew(c) PROVE Causes' /\ UNCHANGED <<spentBy, refused, forgone>>
  <2>1. /\ UNCHANGED <<spentBy, refused, forgone, rt, minted>> /\ cookie' = call[c].new
        /\ call[c].st = "renewed" /\ call[c].kind \notin {"gone", "logout"}
    <3>1. /\ UNCHANGED <<spentBy, refused, forgone, rt, minted>> /\ cookie' = call[c].new
          /\ call[c].st = "renewed" /\ call[c].kind # "gone"
      BY <1>10 DEF Renew, NewCookie, At, historyVars, redisVars, pairVars
    <3> QED BY <3>1 DEF QInv, KindFits
  <2>2. \A d \in Calls : call'[d] = call[d] \/ (call'[d].st = "sent" /\ call'[d].rt = 0)
    <3>1. CASE call[c].kind = "login"
      <4>1. Becomes(c, Sent("me", call[c].new, 0))
        BY <1>10, <3>1 DEF Renew
      <4> QED BY <4>1, <1>r, BecomesFields DEF Sent
    <3>2. CASE call[c].kind # "login"
      <4>1. call' = [d \in Calls |-> IF d \in Resent(c)
                                     THEN Sent(call[d].kind, call[c].new, 1) ELSE call[d]]
        BY <1>10, <3>2 DEF Renew
      <4> QED BY <4>1, <1>r DEF Sent
    <3> QED BY <3>1, <3>2
  <2>3. call'[c].st = "sent"
    <3>1. CASE call[c].kind = "login"
      <4>1. Becomes(c, Sent("me", call[c].new, 0))
        BY <1>10, <3>1 DEF Renew
      <4> QED BY <4>1, <1>r, BecomesFields DEF Sent
    <3>2. CASE call[c].kind # "login"
      <4>1. call' = [d \in Calls |-> IF d \in Resent(c)
                                     THEN Sent(call[d].kind, call[c].new, 1) ELSE call[d]]
        BY <1>10, <3>2 DEF Renew
      <4> QED BY <4>1, <1>r DEF Sent, Resent
    <3> QED BY <3>1, <3>2
  <2>4. call[c].new # 0 => call[c].new \in Pairs
    BY <1>f, <1>p
  <2>5. cookie' = 0 \/ (cookie' \in Pairs /\ Answers(c, cookie'))
    BY <2>1, <2>4 DEF Answers
  <2>6. ASSUME NEW n \in Pairs, n = cookie', NEW d \in Calls PROVE ~Pends(d, n)'
    <3>1. Pends(c, n)
      BY <2>1, <2>6 DEF Pends
    <3>2. Pends(d, n) => d = c
      BY <3>1 DEF Causes, NewUnseen
    <3> QED BY <2>2, <2>3, <3>2 DEF Pends
  <2>7. \A d \in Calls, n \in Pairs : (Pends(d, n)' => Pends(d, n))
                                      /\ (Answers(d, n)' => Answers(d, n))
    BY <2>2 DEF Pends, Answers
  <2>8. \A d \in Calls, t \in Tabs, n \in Pairs : Sends(d, t, n)' => Sends(d, t, n)
    BY <2>2 DEF Sends, Leads
  <2>9. \A d \in Calls : Orphan(d)' => Orphan(d) /\ call'[d].rt = call[d].rt
    BY <2>2 DEF Orphan
  <2>10. ASSUME NEW d \in Calls, NEW t \in Tabs, NEW n \in Pairs, Serves(d, t, n)
         PROVE  Serves(d, t, n)' \/ (cookie' # n /\ \A e \in Calls : ~Sends(e, t, n)')
    <3>1. CASE call'[d] = call[d]
      BY <2>10, <3>1 DEF Serves, Leads
    <3>2. CASE call'[d] # call[d]
      <4>1. cookie' # n
        <5>1. \A m \in Pairs : Pends(c, m) => m # n
          BY <2>10 DEF Causes, NewUnseen, Serves
        <5>2. cookie' # 0 => Pends(c, call[c].new) /\ call[c].new \in Pairs
          BY <2>1, <2>4 DEF Pends
        <5> QED BY <2>1, <5>1, <5>2 DEF Pairs
      <4>2. Leads(d) /\ TabOf[d] = t
        BY <2>10 DEF Serves
      <4>3. \A e \in Calls : Sends(e, t, n)' => Leads(e) /\ TabOf[e] = t /\ call'[e] = call[e]
        BY <2>2, <1>s DEF Sends, Leads
      <4>4. \A e \in Calls : ~Sends(e, t, n)'
        BY <3>2, <4>2, <4>3 DEF QInv
      <4> QED BY <4>1, <4>4
    <3> QED BY <3>1, <3>2
  <2>11. \A d \in Calls : call'[d].rt \in {0, cookie, call[d].rt}
    BY <2>2
  <2>12. minted' \in minted .. MaxPairs
    BY <1>f
  <2>13. \/ cookie' \in {0, cookie}
         \/ /\ cookie' \in Pairs /\ \E d \in Calls : Answers(d, cookie')
            /\ \A n \in Pairs : n = cookie' => \A d \in Calls : ~Pends(d, n)'
    BY <2>5, <2>6
  <2> QED BY <2>1, <2>7, <2>8, <2>9, <2>10, <2>11, <2>12, <2>13, CausesKept
\* A page is left: the tokens of the refreshes it had are given up.
<1>l. ASSUME UNCHANGED <<spentBy, refused, rt, minted, cookie>>, forgone \subseteq forgone',
             \A d \in Calls : \/ call'[d] = call[d]
                              \/ /\ \/ call'[d] = Left(d)
                                    \/ call'[d].st = "sent" /\ call'[d].rt = 0
                                 /\ (Leads(d) /\ call[d].st # "denied" =>
                                       call[d].rt \in forgone' \cup {0})
      PROVE  Causes'
  <2>1. \A d \in Calls :
           \/ call'[d] = call[d]
           \/ call'[d].st \in {"sent", "idle"} /\ call'[d].rt = 0
           \/ /\ call'[d].st = call[d].st /\ call'[d].rt = call[d].rt
              /\ call'[d].new = call[d].new /\ call'[d].kind = "gone"
    <3> SUFFICES ASSUME NEW d \in Calls, call'[d] = Left(d)
                 PROVE  \/ call'[d].st = "idle" /\ call'[d].rt = 0
                        \/ /\ call'[d].st = call[d].st /\ call'[d].rt = call[d].rt
                           /\ call'[d].new = call[d].new /\ call'[d].kind = "gone"
      BY <1>l
    <3> DEFINE r == call[d]
    <3>1. Left(d) = Idle \/ Left(d) = [r EXCEPT !.kind = "gone"]
      BY LeftGood
    <3>2. r = [st |-> r.st, kind |-> r.kind, tok |-> r.tok, rt |-> r.rt, sid |-> r.sid,
               new |-> r.new, tries |-> r.tries]
      BY Facts, GoodFields
    <3>3. [r EXCEPT !.kind = "gone"] =
             [st |-> r.st, kind |-> "gone", tok |-> r.tok, rt |-> r.rt, sid |-> r.sid,
              new |-> r.new, tries |-> r.tries]
      BY <3>2
    <3> QED BY <3>1, <3>3, <1>r
  <2>2. \A d \in Calls, n \in Pairs : (Pends(d, n)' => Pends(d, n))
                                      /\ (Answers(d, n)' => Answers(d, n))
    BY <2>1 DEF Pends, Answers
  <2>3. \A d \in Calls, t \in Tabs, n \in Pairs : Sends(d, t, n)' => Sends(d, t, n)
    BY <2>1 DEF Sends, Leads
  <2>4. ASSUME NEW d \in Calls, NEW t \in Tabs, NEW n \in Pairs, Serves(d, t, n)
        PROVE  Serves(d, t, n)' \/ n \in forgone'
    <3>1. Leads(d) /\ call[d].st \notin {"denied", "idle"} /\ call[d].rt = n /\ n # 0
      BY <2>4 DEF Serves, Pairs
    <3>2. CASE call'[d] = call[d]
      BY <2>4, <3>2 DEF Serves, Leads
    <3>3. CASE call'[d] # call[d]
      BY <1>l, <3>1, <3>3
    <3> QED BY <3>2, <3>3
  <2>5. ASSUME NEW d \in Calls, Orphan(d)'
        PROVE  (Orphan(d) /\ call'[d].rt = call[d].rt) \/ call'[d].rt \in forgone'
    <3>1. CASE call'[d] = call[d]
      BY <2>5, <3>1 DEF Orphan
    <3>2. CASE call'[d] # call[d]
      <4>1. /\ call[d].st = "refresh" /\ call'[d].rt = call[d].rt /\ call[d].rt # 0
            /\ call'[d] = Left(d)
        BY <1>l, <2>1, <2>5, <3>2 DEF Orphan
      <4>2. call[d].kind \in {"api", "me", "gone"}
        BY <4>1 DEF QInv, KindFits
      <4>3. CASE call[d].kind = "gone"
        BY <4>1, <4>3 DEF Orphan
      <4>4. CASE call[d].kind # "gone"
        <5>1. Leads(d)
          BY <4>1, <4>2, <4>4, <1>s DEF Leads
        <5> QED BY <1>l, <3>2, <4>1, <5>1
      <4> QED BY <4>3, <4>4
    <3> QED BY <3>1, <3>2
  <2>6. \A d \in Calls : call'[d].rt \in {0, cookie, call[d].rt}
    BY <2>1
  <2> QED BY <1>l, <1>f, <2>2, <2>3, <2>4, <2>5, <2>6, CausesKept
<1>11. ASSUME NEW c \in Calls, Deny(c) PROVE Causes' /\ UNCHANGED <<spentBy, refused, forgone>>
  <2>1. /\ UNCHANGED <<spentBy, refused, rt, minted, cookie, forgone>>
        /\ call[c].st = "denied" /\ call[c].kind # "gone"
    BY <1>11 DEF Deny, At, historyVars, redisVars, pairVars
  <2>2. \A d \in Calls : call'[d] = IF d \in Mine(TabOf[c]) THEN Left(d) ELSE call[d]
    BY <1>11 DEF Deny
  <2>3. Leads(c)
    BY <2>1, <1>s DEF QInv, KindFits, Leads
  <2>4. \A d \in Mine(TabOf[c]) : Leads(d) => d = c
    BY <2>3 DEF QInv, Mine
  <2> QED BY <2>1, <2>2, <2>4, <1>l
<1>12. ASSUME NEW t \in Tabs, Open(t) PROVE
             Causes' /\ UNCHANGED <<spentBy, refused>> /\ forgone \subseteq forgone'
  <2>1. /\ UNCHANGED <<spentBy, refused, rt, minted, cookie>>
        /\ forgone' = forgone \cup Unheard(Mine(t))
    BY <1>12 DEF Open, redisVars, pairVars
  <2>2. \A d \in Mine(t) : Leads(d) => call[d].rt \in forgone' \cup {0}
    BY <2>1 DEF Unheard, Token
  <2>3. \A d \in Calls : \/ call'[d] = call[d]
                         \/ /\ TabOf[d] = t
                            /\ \/ call'[d] = Left(d)
                               \/ call'[d].st = "sent" /\ call'[d].rt = 0
    <3>1. CASE token = 0
      BY <1>12, <3>1 DEF Open, Mine
    <3>2. CASE token # 0
      <4>1. PICK c \in Calls :
               /\ TabOf[c] = t
               /\ call' = [d \in Calls |-> IF d = c THEN Sent("me", token, 0)
                                           ELSE IF d \in Mine(t) THEN Left(d) ELSE call[d]]
        BY <1>12, <3>2 DEF Open
      <4> QED BY <4>1, <1>r DEF Sent, Mine
    <3> QED BY <3>1, <3>2
  <2>4. \A d \in Calls : TabOf[d] = t /\ Leads(d) => d \in Mine(t)
    BY DEF Mine, Leads
  <2> QED BY <2>1, <2>2, <2>3, <2>4, <1>l
<1>13. CASE Ambient \/ UNCHANGED vars
  <2>1. UNCHANGED <<call, cookie, rt, minted, spentBy, refused, forgone>>
    <3>1. CASE \E s \in Sids : IdleOut(s)
      BY <3>1 DEF IdleOut, browserVars, pairVars
    <3>2. CASE \/ ExpireToken \/ \E s \in Sids : AgeOut(s)
               \/ Deactivate \/ RedisDown \/ RedisUp \/ UNCHANGED vars
      <4>1. UNCHANGED <<browserVars, call, redisVars, pairVars, historyVars>>
        BY <3>2 DEF ExpireToken, AgeOut, Deactivate, RedisDown, RedisUp, vars
      <4> QED BY <4>1 DEF browserVars, redisVars, pairVars, historyVars
    <3> QED BY <1>13, <3>1, <3>2 DEF Ambient
  <2> QED BY <2>1, <1>h, <1>l
<1>q. ASSUME Causes' /\ UNCHANGED <<spentBy, refused>> /\ forgone \subseteq forgone'
      PROVE  Causes' /\ (RefusedForACause => RefusedForACause')
  BY <1>q, <1>h
<1> QED
  BY <1>2, <1>3, <1>4, <1>5, <1>6, <1>7, <1>8, <1>9, <1>10, <1>11, <1>12, <1>13, <1>q
     DEF Next, Handle, Settle

\* For any number of tabs and calls: a tab is only sent to /login for a used
\* refresh token if another tab used it, or an answer with its successor never
\* came to the browser.
THEOREM RefusalsHaveCauses == Spec => []RefusedForACause
<1>1. Init => TInv /\ QInv
  BY InitType, InitQueue
<1>2. Init => Causes /\ RefusedForACause
  <2> SUFFICES ASSUME Init PROVE Causes /\ RefusedForACause
    OBVIOUS
  <2>1. \A c \in Calls : call[c].st = "idle" /\ call[c].rt = 0
    BY IdleGood, ConstantsAssumption DEF Init
  <2>2. /\ \A c \in Calls, n \in Pairs : ~Pends(c, n) /\ ~Answers(c, n) /\ call[c].rt # n
        /\ \A c \in Calls : ~Orphan(c)
        /\ 0 \notin Pairs
    BY <2>1 DEF Pends, Answers, Orphan, Pairs
  <2> QED
    BY <2>2 DEF Init, Causes, NewUnseen, SpentExist, SpenderHears, HeldAccounted,
       OrphansForgone, RefusedForACause
<1>3. TInv /\ QInv /\ [Next]_vars => (TInv /\ QInv)'
  BY TypeStep, QueueStep
<1>4. TInv /\ QInv /\ TInv' /\ QInv' /\ Causes /\ RefusedForACause /\ [Next]_vars
         => (Causes /\ RefusedForACause)'
  BY CausesStep
<1> QED BY <1>1, <1>2, <1>3, <1>4, PTL DEF Spec
-----------------------------------------------------------------------------
(* How far a call is from its promise being settled.                        *)

\* What is left of a call at a stage to go through, in steps at most.
Weight(st, kind, tries) ==
    CASE st = "idle" -> 0
      [] st \in {"lost", "denied"} -> 1
      [] st = "ok" -> 2
      [] st = "end" -> 3
      [] st = "drop" -> 4
      [] st = "queued" -> 6
      [] st = "consumed" -> 9
      [] st = "refresh" -> 10
      [] st = "bad" -> IF tries = 0 THEN 11 ELSE 2
      [] st = "renewed" -> IF kind = "login" THEN 13 ELSE 6
      [] st = "store" -> IF kind = "login" THEN 14 ELSE 7
      [] st = "issue" -> IF kind = "login" THEN 15 ELSE 8
      [] st = "sent" -> IF kind = "login" THEN 16 ELSE IF tries = 1 THEN 5 ELSE 12
\* A call that nobody waits for any more is closer to its end than one of a page.
Gone(kind) == IF kind = "gone" THEN 0 ELSE 1
Rank(r) == 2 * Weight(r.st, r.kind, r.tries) + Gone(r.kind)
\* A step brings c closer to its end or does not touch it, unless its page is opened.
Closer(c) ==
    ~At(c, "idle") => \/ call'[c] = call[c]
                      \/ Rank(call'[c]) < Rank(call[c])
                      \/ Open(TabOf[c])

LEMMA WeightOf ==
    ASSUME NEW kind, NEW tries
    PROVE  /\ Weight("idle", kind, tries) = 0
           /\ Weight("lost", kind, tries) = 1 /\ Weight("denied", kind, tries) = 1
           /\ Weight("ok", kind, tries) = 2 /\ Weight("end", kind, tries) = 3
           /\ Weight("drop", kind, tries) = 4 /\ Weight("queued", kind, tries) = 6
           /\ Weight("consumed", kind, tries) = 9 /\ Weight("refresh", kind, tries) = 10
           /\ Weight("bad", kind, tries) = IF tries = 0 THEN 11 ELSE 2
           /\ Weight("renewed", kind, tries) = IF kind = "login" THEN 13 ELSE 6
           /\ Weight("store", kind, tries) = IF kind = "login" THEN 14 ELSE 7
           /\ Weight("issue", kind, tries) = IF kind = "login" THEN 15 ELSE 8
           /\ Weight("sent", kind, tries) = IF kind = "login" THEN 16
                                            ELSE IF tries = 1 THEN 5 ELSE 12
BY DEF Weight

\* A weight is a number, and only a settled call has none.
LEMMA RankRange ==
    ASSUME NEW st \in Stages, NEW kind, NEW tries
    PROVE  /\ Weight(st, kind, tries) \in Nat
           /\ st # "idle" => Weight(st, kind, tries) >= 1
<1>1. \/ st = "idle" \/ st = "lost" \/ st = "denied" \/ st = "ok" \/ st = "end" \/ st = "drop"
      \/ st = "queued" \/ st = "consumed" \/ st = "refresh" \/ st = "bad" \/ st = "renewed"
      \/ st = "store" \/ st = "issue" \/ st = "sent"
  BY DEF Stages, RefreshStages
<1> QED BY <1>1, WeightOf

\* A handler, an answer or a callback of c: what is left of it weighs less.
LEMMA LighterIsCloser ==
    ASSUME TInv, NEW c \in Calls, NEW r, Becomes(c, r),
           r.st \in Stages,
           Weight(r.st, r.kind, r.tries) < Weight(call[c].st, call[c].kind, call[c].tries)
    PROVE  \A d \in Calls : Closer(d)
<1>1. call'[c] = r /\ \A d \in Calls \ {c} : call'[d] = call[d]
  BY BecomesFields
<1>2. call[c].st \in Stages
  BY Facts, GoodFields
<1> DEFINE w == Weight(r.st, r.kind, r.tries)
           v == Weight(call[c].st, call[c].kind, call[c].tries)
<1>3. w \in Nat /\ v \in Nat /\ w < v
  BY <1>2, RankRange
<1>4. Gone(r.kind) \in {0, 1} /\ Gone(call[c].kind) \in {0, 1}
  BY DEF Gone
<1>5. Rank(r) = 2 * w + Gone(r.kind) /\ Rank(call[c]) = 2 * v + Gone(call[c].kind)
  BY DEF Rank
<1> HIDE DEF w, v
<1>6. Rank(r) < Rank(call[c])
  BY <1>3, <1>4, <1>5
<1> QED BY <1>1, <1>6 DEF Closer

\* What a page that is left leaves behind is closer to its end.
LEMMA LeftIsCloser ==
    ASSUME TInv, NEW c \in Calls, call[c].kind # "gone", call'[c] = Left(c)
    PROVE  Closer(c)
<1> SUFFICES ASSUME call[c].st # "idle" PROVE Rank(call'[c]) < Rank(call[c])
  BY DEF Closer, At
<1> DEFINE r == call[c]
           v == Weight(r.st, r.kind, r.tries)
<1>1. r.st \in Stages /\ r.tries \in {0, 1} /\ r.kind \in Kinds
  BY Facts, GoodFields
<1>2. v \in Nat /\ v >= 1 /\ Rank(r) = 2 * v + 1
  BY <1>1, RankRange DEF Rank, Gone
<1>3. CASE Left(c) = Idle
  <2>1. Weight("idle", "api", 0) = 0
    BY WeightOf
  <2>2. Rank(Idle) = 1
    BY <2>1 DEF Idle, Fresh, Rank, Gone
  <2> HIDE DEF v
  <2> QED BY <1>2, <1>3, <2>2
<1>4. CASE OnServer(c) /\ Left(c) = [r EXCEPT !.kind = "gone"]
  <2>1. r = [st |-> r.st, kind |-> r.kind, tok |-> r.tok, rt |-> r.rt, sid |-> r.sid,
             new |-> r.new, tries |-> r.tries]
    BY Facts, GoodFields
  <2>2. /\ [r EXCEPT !.kind = "gone"].st = r.st /\ [r EXCEPT !.kind = "gone"].kind = "gone"
        /\ [r EXCEPT !.kind = "gone"].tries = r.tries
    BY <2>1
  <2>3. Weight(r.st, "gone", r.tries) <= v
    <3>1. \/ r.st = "refresh" \/ r.st = "consumed" \/ r.st = "issue" \/ r.st = "store"
          \/ r.st = "drop" \/ r.st = "end" \/ (r.st = "sent" /\ r.kind = "logout")
      BY <1>4 DEF OnServer, At
    <3> QED BY <3>1, <1>1, WeightOf
  <2>4. Rank(Left(c)) = 2 * Weight(r.st, "gone", r.tries)
    BY <1>4, <2>2, <1>1, RankRange DEF Rank, Gone
  <2>5. Weight(r.st, "gone", r.tries) \in Nat
    BY <1>1, RankRange
  <2> HIDE DEF v
  <2> QED BY <1>2, <2>3, <2>4, <2>5
<1> QED BY <1>3, <1>4 DEF Left

\* One handler, answer or callback per step.
LEMMA CloserStep ==
    ASSUME TInv, QInv, [Next]_vars
    PROVE  \A d \in Calls : Closer(d)
<1>f. \A st, kind, tok, cook, tries : /\ Fresh(st, kind, tok, cook, tries).st = st
                                      /\ Fresh(st, kind, tok, cook, tries).kind = kind
                                      /\ Fresh(st, kind, tok, cook, tries).tries = tries
  BY DEF Fresh
<1>h. \A c, st, cook, sid, new : /\ Holds(c, st, cook, sid, new).st = st
                                 /\ Holds(c, st, cook, sid, new).kind = call[c].kind
                                 /\ Holds(c, st, cook, sid, new).tries = call[c].tries
  BY DEF Holds
<1>i. Idle.st = "idle" /\ Idle.kind = "api" /\ Idle.tries = 0
  BY DEF Idle, Fresh
<1>s. Stages = {"idle", "sent", "ok", "bad", "lost", "queued", "drop", "end", "refresh", "consumed",
                "issue", "store", "renewed", "denied"}
  BY DEF Stages, RefreshStages
<1>k. \A c \in Calls : /\ call[c].st \in Stages /\ call[c].tries \in {0, 1}
                       /\ call[c].kind \in {"api", "me", "login", "logout", "gone"}
                       /\ KindFits(call[c])
  BY Facts, GoodFields DEF Kinds, QInv
\* A step of call c to a record r that weighs less.
<1>1. ASSUME NEW c \in Calls, NEW r, Becomes(c, r), r.st \in Stages,
             Weight(r.st, r.kind, r.tries) < Weight(call[c].st, call[c].kind, call[c].tries)
      PROVE  \A d \in Calls : Closer(d)
  BY <1>1, LighterIsCloser
<1>2. ASSUME NEW c \in Calls, Becomes(c, Idle), call[c].st # "idle"
      PROVE  \A d \in Calls : Closer(d)
  <2>1. Weight("idle", "api", 0) = 0
    BY WeightOf
  <2>2. /\ Weight(call[c].st, call[c].kind, call[c].tries) \in Nat
        /\ Weight(call[c].st, call[c].kind, call[c].tries) >= 1
    BY <1>2, <1>k, RankRange
  <2>3. Weight(Idle.st, Idle.kind, Idle.tries) < Weight(call[c].st, call[c].kind, call[c].tries)
    BY <1>i, <2>1, <2>2
  <2> QED BY <1>1, <1>2, <1>i, <1>s, <2>3
<1>3. ASSUME NEW c \in Calls, NEW st \in {"ok", "bad", "lost", "denied"}, Answered(c, st),
             Weight(st, call[c].kind, call[c].tries)
                < Weight(call[c].st, call[c].kind, call[c].tries)
      PROVE  \A d \in Calls : Closer(d)
  BY <1>1, <1>3, <1>f, <1>s DEF Answered
<1>4. ASSUME NEW c \in Calls, NEW st \in {"consumed", "renewed"}, To(c, st),
             Weight(st, call[c].kind, call[c].tries)
                < Weight(call[c].st, call[c].kind, call[c].tries)
      PROVE  \A d \in Calls : Closer(d)
  <2> DEFINE r == [call[c] EXCEPT !.st = st]
  <2>1. r.st = st /\ r.kind = call[c].kind /\ r.tries = call[c].tries
    BY Facts, GoodFields DEF Call
  <2>2. Becomes(c, r)
    BY <1>4 DEF To
  <2> HIDE DEF r
  <2> QED BY <1>1, <1>4, <1>s, <2>1, <2>2
\* The pages.
<1>5. ASSUME NEW c \in Calls, Ask(c) \/ Login(c) \/ Logout(c)
      PROVE  \A d \in Calls : Closer(d)
  <2>1. call[c].st = "idle"
    BY <1>5 DEF Ask, Login, Logout, At
  <2>2. \A d \in Calls \ {c} : call'[d] = call[d]
    BY <1>5, BecomesFields DEF Ask, Login, Logout
  <2> QED BY <2>1, <2>2 DEF Closer, At
<1>6. ASSUME NEW c \in Calls, Succeed(c) \/ Fail(c) PROVE \A d \in Calls : Closer(d)
  BY <1>2, <1>6 DEF Succeed, Fail, Reject, At
<1>7. ASSUME NEW c \in Calls, Drain(c) PROVE \A d \in Calls : Closer(d)
  <2>1. CASE call[c].st # "idle"
    BY <1>2, <1>7, <2>1 DEF Drain
  <2>2. CASE call[c].st = "idle"
    <3>1. \A d \in Calls \ {c} : call'[d] = call[d]
      BY <1>7, BecomesFields DEF Drain
    <3> QED BY <2>2, <3>1 DEF Closer, At
  <2> QED BY <2>1, <2>2
<1>8. ASSUME NEW c \in Calls, Queue(c) \/ Lead(c) PROVE \A d \in Calls : Closer(d)
  <2>1. call[c].st = "bad" /\ call[c].tries = 0
    BY <1>8 DEF Queue, Lead, MayRefresh, At
  <2>2. \E st \in {"queued", "refresh"} : \E cook :
           Becomes(c, Fresh(st, call[c].kind, 0, cook, 1))
    BY <1>8 DEF Queue, Lead
  <2>3. PICK st \in {"queued", "refresh"} :
           \E cook : Becomes(c, Fresh(st, call[c].kind, 0, cook, 1))
    BY <2>2
  <2>4. Weight(st, call[c].kind, 1) < Weight(call[c].st, call[c].kind, call[c].tries)
    BY <2>1, WeightOf
  <2> QED BY <1>1, <1>f, <1>s, <2>3, <2>4
<1>9. ASSUME NEW c \in Calls, Renew(c) PROVE \A d \in Calls : Closer(d)
  <2>1. call[c].st = "renewed" /\ call[c].kind # "gone"
    BY <1>9 DEF Renew, At
  <2>2. CASE call[c].kind = "login"
    <3>1. Becomes(c, Sent("me", call[c].new, 0))
      BY <1>9, <2>2 DEF Renew
    <3>2. Weight("sent", "me", 0) < Weight(call[c].st, call[c].kind, call[c].tries)
      BY <2>1, <2>2, WeightOf
    <3> QED BY <1>1, <1>f, <1>s, <3>1, <3>2 DEF Sent
  <2>3. ASSUME call[c].kind # "login", NEW d \in Calls PROVE Closer(d)
    <3>1. call'[d] = IF d \in Resent(c) THEN Sent(call[d].kind, call[c].new, 1) ELSE call[d]
      BY <1>9, <2>3 DEF Renew
    <3>2. CASE d \in Resent(c)
      <4> DEFINE r == Sent(call[d].kind, call[c].new, 1)
      <4>1. /\ call[d].kind # "gone"
            /\ call[d].kind # "login"
            /\ call[d].st = "queued" \/ call[d].st = "renewed"
        BY <1>k, <2>1, <2>3, <3>2 DEF Resent, Waiting, Mine, At, KindFits
      <4>2. r.st = "sent" /\ r.kind = call[d].kind /\ r.tries = 1
        BY <1>f DEF Sent
      <4>3. /\ Weight("sent", call[d].kind, 1) = 5
            /\ Weight(call[d].st, call[d].kind, call[d].tries) = 6
        BY <4>1, WeightOf
      <4>4. call'[d] = r
        BY <3>1, <3>2
      <4> HIDE DEF r
      <4>5. Rank(call'[d]) = 11 /\ Rank(call[d]) = 13
        BY <4>1, <4>2, <4>3, <4>4 DEF Rank, Gone
      <4> QED BY <4>5 DEF Closer
    <3> QED BY <3>1, <3>2 DEF Closer
  <2> QED BY <2>2, <2>3
<1>10. ASSUME NEW c \in Calls, Deny(c), NEW d \in Calls PROVE Closer(d)
  <2>1. call'[d] = IF d \in Mine(TabOf[c]) THEN Left(d) ELSE call[d]
    BY <1>10 DEF Deny
  <2>2. CASE d \in Mine(TabOf[c])
    BY <2>1, <2>2, LeftIsCloser DEF Mine
  <2> QED BY <2>1, <2>2 DEF Closer
<1>11. ASSUME NEW t \in Tabs, Open(t), NEW d \in Calls PROVE Closer(d)
  <2>1. CASE TabOf[d] = t
    BY <1>11, <2>1 DEF Closer
  <2>2. CASE TabOf[d] # t
    <3>1. call'[d] = call[d]
      BY <1>11, <2>2 DEF Open, Mine
    <3> QED BY <3>1 DEF Closer
  <2> QED BY <2>1, <2>2
\* The handlers.
<1>12. ASSUME NEW c \in Calls, Answer(c) PROVE \A d \in Calls : Closer(d)
  <2>1. call[c].st = "sent" /\ call[c].kind \in {"api", "me"}
    BY <1>12 DEF Answer, At
  <2>2. PICK st \in {"ok", "bad"} : Answered(c, st)
    BY <1>12 DEF Answer
  <2>3. Weight(st, call[c].kind, call[c].tries)
           < Weight(call[c].st, call[c].kind, call[c].tries)
    BY <1>k, <2>1, WeightOf
  <2> QED BY <1>3, <2>2, <2>3
<1>13. ASSUME NEW c \in Calls, Authenticate(c) PROVE \A d \in Calls : Closer(d)
  <2>1. call[c].st = "sent" /\ call[c].kind = "login"
    BY <1>13 DEF Authenticate, At
  <2>2. /\ Weight("bad", call[c].kind, call[c].tries)
             < Weight(call[c].st, call[c].kind, call[c].tries)
        /\ Weight("issue", call[c].kind, call[c].tries)
             < Weight(call[c].st, call[c].kind, call[c].tries)
    BY <2>1, WeightOf
  <2>3. \/ Answered(c, "bad")
        \/ Becomes(c, Holds(c, "issue", 0, opened + 1, 0))
    BY <1>13 DEF Authenticate
  <2> QED BY <1>1, <1>3, <1>h, <1>s, <2>2, <2>3
<1>14. ASSUME NEW c \in Calls, Consume(c) PROVE \A d \in Calls : Closer(d)
  <2>1. call[c].st = "refresh"
    BY <1>14 DEF Consume, At
  <2>2. /\ Weight("denied", call[c].kind, call[c].tries)
             < Weight(call[c].st, call[c].kind, call[c].tries)
        /\ Weight("consumed", call[c].kind, call[c].tries)
             < Weight(call[c].st, call[c].kind, call[c].tries)
    BY <2>1, WeightOf
  <2>3. Answered(c, "denied") \/ To(c, "consumed")
    BY <1>14 DEF Consume
  <2> QED BY <1>3, <1>4, <2>2, <2>3
<1>15. ASSUME NEW c \in Calls, Validate(c) PROVE \A d \in Calls : Closer(d)
  <2>1. call[c].st = "consumed" /\ call[c].kind # "login"
    BY <1>15, <1>k DEF Validate, At, KindFits
  <2>2. /\ Weight("denied", call[c].kind, call[c].tries)
             < Weight(call[c].st, call[c].kind, call[c].tries)
        /\ Weight("issue", call[c].kind, call[c].tries)
             < Weight(call[c].st, call[c].kind, call[c].tries)
    BY <2>1, WeightOf
  <2>3. \/ Answered(c, "denied")
        \/ Becomes(c, Holds(c, "issue", call[c].rt, sidOf[call[c].rt], 0))
    BY <1>15 DEF Validate
  <2> QED BY <1>1, <1>3, <1>h, <1>s, <2>2, <2>3
<1>16. ASSUME NEW c \in Calls, Start(c) PROVE \A d \in Calls : Closer(d)
  <2>1. call[c].st = "issue" /\ Becomes(c, Holds(c, "store", call[c].rt, 0, minted + 1))
    BY <1>16 DEF Start, At
  <2>2. Weight("store", call[c].kind, call[c].tries)
           < Weight(call[c].st, call[c].kind, call[c].tries)
    BY <2>1, WeightOf
  <2> QED BY <1>1, <1>h, <1>s, <2>1, <2>2
<1>17. ASSUME NEW c \in Calls, Store(c) PROVE \A d \in Calls : Closer(d)
  <2>1. call[c].st = "store" /\ To(c, "renewed")
    BY <1>17 DEF Store, At
  <2>2. Weight("renewed", call[c].kind, call[c].tries)
           < Weight(call[c].st, call[c].kind, call[c].tries)
    BY <2>1, WeightOf
  <2> QED BY <1>4, <2>1, <2>2
<1>18. ASSUME NEW c \in Calls, Revoke(c) PROVE \A d \in Calls : Closer(d)
  <2>1. call[c].st = "sent"
    BY <1>18 DEF Revoke, At
  <2>2. PICK cook, sid : Becomes(c, Holds(c, "drop", cook, sid, 0))
    BY <1>18 DEF Revoke
  <2>3. Weight("drop", call[c].kind, call[c].tries)
           < Weight(call[c].st, call[c].kind, call[c].tries)
    BY <2>1, WeightOf
  <2> QED BY <1>1, <1>h, <1>s, <2>2, <2>3
<1>19. ASSUME NEW c \in Calls, Drop(c) PROVE \A d \in Calls : Closer(d)
  <2>1. call[c].st = "drop"
    BY <1>19 DEF Drop, At
  <2>2. PICK cook, sid : Becomes(c, Holds(c, "end", cook, sid, 0))
    BY <1>19 DEF Drop
  <2>3. Weight("end", call[c].kind, call[c].tries)
           < Weight(call[c].st, call[c].kind, call[c].tries)
    BY <2>1, WeightOf
  <2> QED BY <1>1, <1>h, <1>s, <2>2, <2>3
<1>20. ASSUME NEW c \in Calls, End(c) PROVE \A d \in Calls : Closer(d)
  <2>1. call[c].st = "end" /\ Answered(c, "ok")
    BY <1>20 DEF End, At
  <2>2. Weight("ok", call[c].kind, call[c].tries)
           < Weight(call[c].st, call[c].kind, call[c].tries)
    BY <2>1, WeightOf
  <2> QED BY <1>3, <2>1, <2>2
<1>21. ASSUME NEW c \in Calls, Break(c) PROVE \A d \in Calls : Closer(d)
  <2>1. call[c].st \in Stages \ {"idle", "queued", "lost", "denied"}
    BY <1>21, <1>k DEF Break
  <2>2. PICK st \in {"denied", "lost"} : Answered(c, st)
    BY <1>21 DEF Break
  <2>3. Weight(st, call[c].kind, call[c].tries) = 1
    BY WeightOf
  <2>4. Weight(call[c].st, call[c].kind, call[c].tries) > 1
    BY <1>s, <2>1, WeightOf
  <2> QED BY <1>3, <2>2, <2>3, <2>4
<1>22. CASE Ambient \/ UNCHANGED vars
  BY <1>22 DEF Closer, Ambient, ExpireToken, IdleOut, AgeOut, Deactivate, RedisDown, RedisUp, vars
<1> QED
  BY <1>5, <1>6, <1>7, <1>8, <1>9, <1>10, <1>11, <1>12, <1>13, <1>14, <1>15, <1>16, <1>17, <1>18,
     <1>19, <1>20, <1>21, <1>22 DEF Next, Handle, Settle

\* The safety part of EveryCallSettles, for any number of tabs and calls: each
\* step of a handler, an answer or a callback brings a call closer to its
\* promise being settled, or leaves it where it is, so a call goes through one
\* refresh at most and is sent a second time at most once (api.ts, _retry).
\* The exception is its page being opened anew, which may reuse its place.
THEOREM CallsComeCloser == Spec => [][\A c \in Calls : Closer(c)]_vars
<1>1. Init => TInv /\ QInv
  BY InitType, InitQueue
<1>2. TInv /\ QInv /\ [Next]_vars => (TInv /\ QInv)'
  BY TypeStep, QueueStep
<1>3. TInv /\ QInv /\ [Next]_vars => \A c \in Calls : Closer(c)
  BY CloserStep
<1> QED BY <1>1, <1>2, <1>3, PTL DEF Spec

=============================================================================
